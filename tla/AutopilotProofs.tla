--------------------------- MODULE AutopilotProofs ---------------------------
(* The rules of Autopilot for every set of rules, every order of them, every   *)
(* window and any number of failures.                                          *)
EXTENDS Autopilot, TLAPS

USE RuleAssumption, TimeAssumption, FaultAssumption

(***************************************************************************)
(* Evaluation.                                                             *)
(***************************************************************************)

LEMMA EvaluationHas ==
  ASSUME TypeOK, NEW r \in Rules
  PROVE  /\ EvaluateRule(r) \in AlertReasons \cup {"condition"}
         /\ EvaluateRule(r) # "none" => DecisionOf(r) \in Decisions
         /\ DecisionOf(r).rule = r
<1>1. r \in ActionRules => EvaluateRule(r) \in {"condition", "none"}
  BY DEF Rules, EvaluateRule
<1>2. r \in AlertRules => EvaluateRule(r) \in Reasons \cup {"failures", "none"}
  BY DEF TypeOK, Rules, EvaluateRule
<1>3. DecisionOf(r) = [rule |-> r, reason |-> EvaluateRule(r)]
  BY DEF DecisionOf
<1> HIDE DEF DecisionOf
<1>4. EvaluateRule(r) # "none" => DecisionOf(r) \in Decisions
  BY <1>1, <1>2, <1>3 DEF Rules, Decisions
<1> QED
  BY <1>1, <1>2, <1>3, <1>4 DEF Rules, AlertReasons

\* What a tick decides is due, each rule at its position.
LEMMA DueHas ==
  ASSUME TypeOK
  PROVE  /\ DueDecisions \in UNION {[due -> Decisions] : due \in SUBSET Positions}
         /\ \A i \in DOMAIN DueDecisions :
              /\ i \in Positions /\ DueDecisions[i].rule = RuleOrder[i]
              /\ snooze[RuleOrder[i]] = 0
<1>1. \A i \in Positions : RuleOrder[i] \in Rules
  BY DEF Positions
<1> DEFINE due == {j \in Positions : Due(RuleOrder[j])}
<1>2. DueDecisions = [i \in due |-> DecisionOf(RuleOrder[i])]
  BY DEF DueDecisions
<1>3. ASSUME NEW i \in due
      PROVE  /\ DecisionOf(RuleOrder[i]) \in Decisions /\ DecisionOf(RuleOrder[i]).rule = RuleOrder[i]
             /\ snooze[RuleOrder[i]] = 0
  BY <1>1, EvaluationHas DEF Due
<1>4. due \in SUBSET Positions
  OBVIOUS
<1> HIDE DEF due
<1>5. DueDecisions \in [due -> Decisions]
  BY <1>2, <1>3
<1> QED
  BY <1>2, <1>3, <1>4, <1>5

(***************************************************************************)
(* The loop of a tick.                                                     *)
(***************************************************************************)

\* The loop awaits the alert of the i-th decision.
Awaits(decisions, i, sent) ==
  /\ tick' = [now |-> decisions[i],
              todo |-> [k \in {j \in DOMAIN decisions : j > i} |-> decisions[k]]]
  /\ autoSent' = [sent EXCEPT ![decisions[i].rule] = 0]

\* It adds rows, and stops at the first alert that is not skipped, or at the end.
LEMMA LoopHas ==
  ASSUME TypeOK, NEW decisions \in UNION {[due -> Decisions] : due \in SUBSET Positions},
         NEW row \in SUBSET Rules, NEW sent, Loop(decisions, row, sent)
  PROVE  /\ lastRow' \in [Rules -> 0..MinGap]
         /\ \A r \in Rules : lastRow'[r] \in {0, lastRow[r]} /\ (r \in row => lastRow'[r] = 0)
         /\ failures' \in [ActionRules -> 0..MaxFailures]
         /\ \/ tick' = Idle /\ autoSent' = sent
            \/ \E i \in DOMAIN decisions :
                 /\ decisions[i].rule \in AlertRules /\ ~Skipped(decisions[i], MinGap)
                 /\ Awaits(decisions, i, sent)
<1>1. PICK recorded :
        /\ lastRow' = [r \in Rules |-> IF r \in recorded \cup row THEN 0 ELSE lastRow[r]]
        /\ failures' = [r \in ActionRules |-> IF r \in recorded /\ failures[r] < MaxFailures
                                               THEN failures[r] + 1 ELSE failures[r]]
  BY DEF Loop
<1>2. lastRow \in [Rules -> 0..MinGap] /\ failures \in [ActionRules -> 0..MaxFailures]
  BY DEF TypeOK
<1>3. lastRow' \in [Rules -> 0..MinGap]
  BY <1>1, <1>2 DEF MinGap
<1>4. \A r \in Rules : lastRow'[r] \in {0, lastRow[r]} /\ (r \in row => lastRow'[r] = 0)
  BY <1>1
<1>5. failures' \in [ActionRules -> 0..MaxFailures]
  BY <1>1, <1>2 DEF MaxFailures
<1>6. \/ tick' = Idle /\ autoSent' = sent
      \/ \E i \in DOMAIN decisions :
           /\ decisions[i].rule \in AlertRules /\ ~Skipped(decisions[i], MinGap)
           /\ Awaits(decisions, i, sent)
  BY DEF Loop, Awaits
<1> QED
  BY <1>3, <1>4, <1>5, <1>6

\* The decisions of the loop are those of the rules at their positions; a rule that was
\* snoozed has a row.
InPlace(decisions) ==
  \A i \in DOMAIN decisions :
    /\ i \in Positions /\ decisions[i].rule = RuleOrder[i]
    /\ decisions[i].rule \in AlertRules /\ quiet[decisions[i].rule] > 0
         => lastRow[decisions[i].rule] < MinGap

\* The alerts that count as sent did so before, and the one just answered has its row.
HasItsRow(sent, row) ==
  \A r \in AlertRules :
    sent[r] < MinGap => autoSent[r] < MinGap /\ (r \in row \/ r # tick.now.rule)

\* Where a tick goes, the invariant of the tick holds: the loop goes over decisions of the
\* rules at their positions, none of them the rule whose answer has come.
LEMMA LoopKeeps ==
  ASSUME AutopilotInv, NEW decisions \in UNION {[due -> Decisions] : due \in SUBSET Positions},
         NEW row \in SUBSET Rules, NEW sent \in [AlertRules -> 0..MinGap],
         Loop(decisions, row, sent), UNCHANGED <<snooze, quiet>>,
         HasItsRow(sent, row), InPlace(decisions)
  PROVE  /\ tick' \in [now : Decisions \cup {NoDecision},
                       todo : UNION {[due -> Decisions] : due \in SUBSET Positions}]
         /\ autoSent' \in [AlertRules -> 0..MinGap]
         /\ SnoozeInv' /\ StormInv'
<1>0. \/ tick' = Idle /\ autoSent' = sent
      \/ \E i \in DOMAIN decisions :
           /\ decisions[i].rule \in AlertRules /\ ~Skipped(decisions[i], MinGap)
           /\ Awaits(decisions, i, sent)
  <2>1. TypeOK
    BY DEF AutopilotInv
  <2> QED
    BY <2>1, LoopHas
<1> USE DEF MinGap, HasItsRow, InPlace
<1>1. /\ lastRow \in [Rules -> 0..1] /\ autoSent \in [AlertRules -> 0..1]
      /\ quiet \in [AlertRules -> 0..SnoozeTime] /\ AlertRules \subseteq Rules
  BY DEF AutopilotInv, TypeOK, Rules
<1>2. \A r \in Rules : lastRow'[r] \in {0, lastRow[r]} /\ (r \in row => lastRow'[r] = 0)
  BY LoopHas DEF AutopilotInv
<1>3. \A r \in AlertRules : quiet'[r] <= snooze'[r]
  BY DEF AutopilotInv, SnoozeInv
<1>4. \A r \in AlertRules : sent[r] < 1 => lastRow'[r] < 1
  <2>1. \A r \in AlertRules : autoSent[r] < 1 => lastRow[r] < 1 \/ tick.now.rule = r
    BY DEF AutopilotInv, StormInv
  <2> QED
    BY <1>1, <1>2, <2>1
<1>5. CASE tick' = Idle /\ autoSent' = sent
  <2>1. tick'.now = NoDecision /\ tick'.todo = << >> /\ DOMAIN tick'.todo = {}
    BY <1>5 DEF Idle
  <2>2. tick' \in [now : Decisions \cup {NoDecision},
                   todo : UNION {[due -> Decisions] : due \in SUBSET Positions}]
    <3>1. << >> \in [{} -> Decisions]
      OBVIOUS
    <3> QED
      BY <1>5, <3>1 DEF Idle
  <2>3. SnoozeInv' /\ StormInv'
    BY <1>1, <1>3, <1>4, <1>5, <2>1 DEF SnoozeInv, StormInv, NoDecision
  <2> QED
    BY <1>5, <2>2, <2>3
<1>6. ASSUME NEW i \in DOMAIN decisions,
             decisions[i].rule \in AlertRules, Awaits(decisions, i, sent)
      PROVE  /\ tick' \in [now : Decisions \cup {NoDecision},
                           todo : UNION {[due -> Decisions] : due \in SUBSET Positions}]
             /\ autoSent' \in [AlertRules -> 0..1]
             /\ SnoozeInv' /\ StormInv'
  <2> DEFINE rest == {j \in DOMAIN decisions : j > i}
  <2>1. PICK due \in SUBSET Positions : decisions \in [due -> Decisions]
    OBVIOUS
  <2>2. rest \in SUBSET Positions /\ rest \subseteq DOMAIN decisions
    BY <2>1
  <2>3. \A k \in rest : k # i /\ k \in Positions /\ i \in Positions
    BY <2>1 DEF Positions
  <2>4. /\ tick'.now = decisions[i] /\ tick'.todo = [k \in rest |-> decisions[k]]
        /\ tick' = [now |-> tick'.now, todo |-> tick'.todo]
        /\ autoSent' = [sent EXCEPT ![decisions[i].rule] = 0]
    BY <1>6 DEF Awaits
  <2> HIDE DEF rest
  <2>5. tick'.todo \in [rest -> Decisions] /\ tick'.now \in Decisions
    BY <2>1, <2>2, <2>4
  <2>6. tick' \in [now : Decisions \cup {NoDecision},
                   todo : UNION {[d -> Decisions] : d \in SUBSET Positions}]
    BY <2>2, <2>4, <2>5
  <2>7. \A k \in rest : /\ tick'.todo[k].rule = RuleOrder[k]
                        /\ tick'.todo[k].rule # tick'.now.rule
    BY <2>2, <2>3, <2>4 DEF Positions
  <2>8. \A k \in rest :
          tick'.todo[k].rule \in AlertRules /\ quiet'[tick'.todo[k].rule] > 0
            => lastRow'[tick'.todo[k].rule] < 1
    <3> SUFFICES ASSUME NEW k \in rest,
                        decisions[k].rule \in AlertRules, quiet[decisions[k].rule] > 0
                 PROVE  lastRow'[decisions[k].rule] < 1
      BY <2>4
    <3>1. decisions[k].rule \in Rules /\ lastRow[decisions[k].rule] < 1
      BY <1>1, <2>2
    <3> QED
      BY <1>2, <3>1
  <2>9. DOMAIN tick'.todo = rest
    BY <2>4
  <2>10. SnoozeInv'
    BY <1>3, <2>8, <2>9 DEF SnoozeInv
  <2>11. autoSent' \in [AlertRules -> 0..1]
    BY <1>1, <1>6, <2>4
  <2>12. \A r \in AlertRules : autoSent'[r] < 1 => lastRow'[r] < 1 \/ tick'.now.rule = r
    BY <1>1, <1>4, <1>6, <2>4
  <2>13. StormInv'
    BY <1>6, <2>4, <2>7, <2>9, <2>12 DEF StormInv
  <2> QED
    BY <2>6, <2>10, <2>11, <2>13
<1>8. sent \in [AlertRules -> 0..1]
  OBVIOUS
<1> QED
  BY <1>0, <1>5, <1>6, <1>8

(***************************************************************************)
(* An alert is sent.                                                       *)
(***************************************************************************)

LEMMA ReceiveHas ==
  ASSUME TypeOK, NEW d \in Decisions, d.rule \in AlertRules, NEW known \in BOOLEAN,
         Receives(d, known)
  PROVE  /\ heard' \in [AlertRules -> [reason : AlertReasons, age : 0..DedupWindow, known : BOOLEAN]]
         /\ buttons' \subseteq AlertRules
         /\ heard'[d.rule] = [reason |-> d.reason, age |-> 0, known |-> known]
         /\ \A r \in AlertRules \ {d.rule} : heard'[r] = heard[r]
<1>1. d.reason \in AlertReasons
  BY DEF Decisions, AlertReasons
<1>2. [reason |-> d.reason, age |-> 0, known |-> known]
        \in [reason : AlertReasons, age : 0..DedupWindow, known : BOOLEAN]
  BY <1>1
<1>3. /\ heard \in [AlertRules -> [reason : AlertReasons, age : 0..DedupWindow, known : BOOLEAN]]
      /\ buttons \subseteq AlertRules
  BY DEF TypeOK
<1>4. /\ heard' = [heard EXCEPT ![d.rule] = [reason |-> d.reason, age |-> 0, known |-> known]]
      /\ buttons' = buttons \cup {d.rule}
  BY DEF Receives
<1> HIDE DEF Decisions, AlertReasons
<1> QED
  BY <1>2, <1>3, <1>4

\* Only what becomes of the rule at hand can break what is recorded.
LEMMA HeardKept ==
  ASSUME HeardInv, NEW s \in AlertRules,
         \A r \in AlertRules \ {s} : heard'[r] = heard[r] /\ emitted'[r] = emitted[r],
         heard'[s].known => emitted'[s].reason = heard'[s].reason /\ emitted'[s].age = heard'[s].age
  PROVE  HeardInv'
<1> SUFFICES ASSUME NEW r \in AlertRules, heard'[r].known
             PROVE  emitted'[r].reason = heard'[r].reason /\ emitted'[r].age = heard'[r].age
  BY DEF HeardInv
<1>1. CASE r = s
  BY <1>1
<1>2. CASE r # s
  BY <1>2 DEF HeardInv
<1> QED
  BY <1>1, <1>2

\* What is recorded is what Telegram confirmed.
LEMMA SendHas ==
  ASSUME TypeOK, HeardInv, NEW d \in Decisions, d.rule \in AlertRules,
         NEW row, NEW unwritten, SendResolves(d, row, unwritten)
  PROVE  /\ heard' \in [AlertRules -> [reason : AlertReasons, age : 0..DedupWindow, known : BOOLEAN]]
         /\ emitted' \in [AlertRules -> [reason : AlertReasons, age : 0..DedupWindow]]
         /\ buttons' \subseteq AlertRules /\ faults' \in 0..MaxFaults
         /\ HeardInv'
<1>1. /\ heard \in [AlertRules -> [reason : AlertReasons, age : 0..DedupWindow, known : BOOLEAN]]
      /\ emitted \in [AlertRules -> [reason : AlertReasons, age : 0..DedupWindow]]
      /\ buttons \subseteq AlertRules /\ faults \in 0..MaxFaults
  BY DEF TypeOK
<1>2. CASE Receives(d, TRUE) /\ RecordEmit(d, TRUE) /\ UNCHANGED faults
  <2>1. emitted' = [emitted EXCEPT ![d.rule] = [reason |-> d.reason, age |-> 0]]
    BY <1>2 DEF RecordEmit
  <2>2. d.reason \in AlertReasons
    BY DEF Decisions, AlertReasons
  <2>3. emitted' \in [AlertRules -> [reason : AlertReasons, age : 0..DedupWindow]]
    BY <1>1, <2>1, <2>2
  <2>4. /\ heard'[d.rule] = [reason |-> d.reason, age |-> 0, known |-> TRUE]
        /\ \A r \in AlertRules \ {d.rule} : heard'[r] = heard[r]
    BY <1>2, ReceiveHas
  <2>5. /\ emitted'[d.rule] = [reason |-> d.reason, age |-> 0]
        /\ \A r \in AlertRules \ {d.rule} : emitted'[r] = emitted[r]
    BY <1>1, <2>1
  <2>6. HeardInv'
    BY <2>4, <2>5, HeardKept
  <2> QED
    BY <1>1, <1>2, <2>3, <2>6, ReceiveHas
<1>3. CASE /\ Fault("send") \/ Fault("row")
           /\ RecordEmit(d, FALSE)
           /\ UNCHANGED <<heard, buttons>> \/ Receives(d, FALSE)
  <2>1. emitted' = emitted /\ faults' \in 0..MaxFaults
    BY <1>1, <1>3 DEF RecordEmit, Fault
  <2>2. CASE UNCHANGED <<heard, buttons>>
    BY <1>1, <2>1, <2>2 DEF HeardInv
  <2>3. CASE Receives(d, FALSE)
    <3>0. /\ heard'[d.rule] = [reason |-> d.reason, age |-> 0, known |-> FALSE]
          /\ \A r \in AlertRules \ {d.rule} : heard'[r] = heard[r]
      BY <2>3, ReceiveHas
    <3>1. HeardInv'
      BY <2>1, <3>0, HeardKept
    <3> QED
      BY <1>1, <2>1, <2>3, <3>1, ReceiveHas
  <2> QED
    BY <1>3, <2>2, <2>3
<1> QED
  BY <1>2, <1>3 DEF SendResolves

(***************************************************************************)
(* Every step.                                                             *)
(***************************************************************************)

\* A step that leaves the tick alone may add rows, and shorten a promise or add a row with it.
LEMMA TickStays ==
  ASSUME AutopilotInv, UNCHANGED <<tick, autoSent>>,
         \A r \in Rules : lastRow'[r] \in {0, lastRow[r]},
         \A r \in AlertRules : quiet'[r] \in Nat /\ quiet'[r] <= snooze'[r],
         \A r \in AlertRules : quiet'[r] <= quiet[r] \/ lastRow'[r] = 0
  PROVE  SnoozeInv' /\ StormInv'
<1> USE DEF MinGap
<1>1. /\ AlertRules \subseteq Rules /\ quiet \in [AlertRules -> 0..SnoozeTime]
      /\ lastRow \in [Rules -> 0..1]
  BY DEF AutopilotInv, TypeOK, Rules
<1>2. \A r \in AlertRules : lastRow[r] < 1 => lastRow'[r] < 1
  BY <1>1
<1>3. \A r \in AlertRules : quiet'[r] > 0 => quiet[r] > 0 \/ lastRow'[r] < 1
  BY <1>1
<1>4. ASSUME NEW i \in DOMAIN tick.todo, tick.todo[i].rule \in AlertRules,
             quiet'[tick.todo[i].rule] > 0
      PROVE  lastRow'[tick.todo[i].rule] < 1
  BY <1>2, <1>3, <1>4 DEF AutopilotInv, SnoozeInv
<1>5. SnoozeInv'
  BY <1>4 DEF SnoozeInv
<1>6. StormInv'
  BY <1>2 DEF AutopilotInv, StormInv
<1> QED
  BY <1>5, <1>6

LEMMA InsertRowHas ==
  ASSUME TypeOK, NEW r \in Rules, InsertRow(r)
  PROVE  /\ lastRow' \in [Rules -> 0..MinGap]
         /\ \A s \in Rules : lastRow'[s] \in {0, lastRow[s]}
         /\ lastRow'[r] = 0
<1>1. lastRow \in [Rules -> 0..1] /\ lastRow' = [lastRow EXCEPT ![r] = 0]
  BY DEF TypeOK, InsertRow, MinGap
<1> QED
  BY <1>1 DEF MinGap

\* The groups of variables of the type invariant.
LEMMA TypesMake ==
  ASSUME cFree' \in FreeSpace, finding' \in [AlertRules -> Reasons \cup {"none"}],
         enabled' \in [Rules -> BOOLEAN], snooze' \in [Rules -> 0..SnoozeTime],
         lastRow' \in [Rules -> 0..MinGap],
         emitted' \in [AlertRules -> [reason : AlertReasons, age : 0..DedupWindow]],
         failures' \in [ActionRules -> 0..MaxFailures],
         tick' \in [now : Decisions \cup {NoDecision},
                    todo : UNION {[due -> Decisions] : due \in SUBSET Positions}],
         runNow' \in Decisions \cup {NoDecision}, buttons' \subseteq AlertRules,
         faults' \in 0..MaxFaults, autoSent' \in [AlertRules -> 0..MinGap],
         heard' \in [AlertRules -> [reason : AlertReasons, age : 0..DedupWindow, known : BOOLEAN]],
         quiet' \in [AlertRules -> 0..SnoozeTime]
  PROVE  TypeOK'
  BY Zenon DEF TypeOK

LEMMA AutopilotInit == Init => AutopilotInv
<1> SUFFICES ASSUME Init PROVE AutopilotInv
  OBVIOUS
<1> USE DEF Init, MinGap
<1>1. tick \in [now : Decisions \cup {NoDecision},
                todo : UNION {[due -> Decisions] : due \in SUBSET Positions}]
  <2>1. << >> \in [{} -> Decisions]
    OBVIOUS
  <2> QED
    BY <2>1 DEF Idle
<1>2. /\ snooze \in [Rules -> 0..SnoozeTime] /\ lastRow \in [Rules -> 0..1]
      /\ failures \in [ActionRules -> 0..MaxFailures] /\ quiet \in [AlertRules -> 0..SnoozeTime]
      /\ autoSent \in [AlertRules -> 0..1] /\ faults \in 0..MaxFaults
  BY DEF MaxFailures
<1>3. /\ emitted \in [AlertRules -> [reason : AlertReasons, age : 0..DedupWindow]]
      /\ heard \in [AlertRules -> [reason : AlertReasons, age : 0..DedupWindow, known : BOOLEAN]]
  BY DEF AlertReasons
<1>4. TypeOK
  BY <1>1, <1>2, <1>3 DEF TypeOK
<1>5. DOMAIN tick.todo = {}
  BY DEF Idle
<1>6. SnoozeInv /\ StormInv
  BY <1>5 DEF SnoozeInv, StormInv, Rules, Idle, NoDecision
<1>7. HeardInv
  BY DEF HeardInv
<1> QED
  BY <1>4, <1>6, <1>7 DEF AutopilotInv

\* The answers of the tick and of "Run now", and the beginning of a tick.
LEMMA TickKeeps ==
  ASSUME AutopilotInv, Tick
  PROVE  AutopilotInv'
<1>1. TypeOK /\ SnoozeInv /\ HeardInv
  BY DEF AutopilotInv
<1>2. /\ Loop(DueDecisions, {}, autoSent) /\ tick = Idle
      /\ UNCHANGED <<reportVars, ruleVars, emitted, runNow, buttons, faults, heard, quiet>>
  BY DEF Tick
<1>3. \A i \in DOMAIN DueDecisions :
        DueDecisions[i].rule \in AlertRules => ~(quiet[DueDecisions[i].rule] > 0)
  <2> SUFFICES ASSUME NEW i \in DOMAIN DueDecisions, DueDecisions[i].rule \in AlertRules
               PROVE  ~(quiet[DueDecisions[i].rule] > 0)
    OBVIOUS
  <2>1. snooze[DueDecisions[i].rule] = 0
    BY <1>1, DueHas
  <2>2. quiet[DueDecisions[i].rule] \in 0..SnoozeTime /\ quiet[DueDecisions[i].rule] <= 0
    BY <1>1, <2>1 DEF SnoozeInv, TypeOK
  <2> QED
    BY <2>2
<1>4. tick.now.rule = "none" /\ UNCHANGED <<snooze, quiet>>
  BY <1>2 DEF Idle, NoDecision, ruleVars
<1>5. /\ tick' \in [now : Decisions \cup {NoDecision},
                    todo : UNION {[due -> Decisions] : due \in SUBSET Positions}]
      /\ autoSent' \in [AlertRules -> 0..MinGap] /\ SnoozeInv' /\ StormInv'
  <2>1. autoSent \in [AlertRules -> 0..MinGap] /\ HasItsRow(autoSent, {})
    BY <1>1, <1>4 DEF TypeOK, Rules, HasItsRow
  <2>2. /\ DueDecisions \in UNION {[due -> Decisions] : due \in SUBSET Positions}
        /\ InPlace(DueDecisions)
    BY <1>1, <1>3, DueHas DEF InPlace
  <2>3. Loop(DueDecisions, {}, autoSent) /\ {} \in SUBSET Rules
    BY <1>2
  <2> HIDE DEF DueDecisions
  <2> QED
    BY <1>4, <2>1, <2>2, <2>3, LoopKeeps
<1>6. lastRow' \in [Rules -> 0..MinGap] /\ failures' \in [ActionRules -> 0..MaxFailures]
  BY <1>1, <1>2, DueHas, LoopHas
<1>7. TypeOK'
  BY <1>1, <1>2, <1>5, <1>6, TypesMake DEF TypeOK, reportVars, ruleVars
<1>8. HeardInv'
  BY <1>1, <1>2 DEF HeardInv
<1> QED
  BY <1>5, <1>7, <1>8 DEF AutopilotInv

LEMMA TickResolvesKeeps ==
  ASSUME AutopilotInv, TickResolves
  PROVE  AutopilotInv'
<1>1. TypeOK /\ SnoozeInv /\ HeardInv /\ StormInv
  BY DEF AutopilotInv
<1> DEFINE d == tick.now
<1>2. /\ d # NoDecision
      /\ UNCHANGED <<reportVars, ruleVars, runNow, quiet>>
  BY DEF TickResolves
<1>3. PICK row \in SUBSET {d.rule}, unwritten \in SUBSET {d.rule} :
        SendResolves(d, row, unwritten) /\ Loop(tick.todo, row, AutoSentBut(unwritten))
  BY DEF TickResolves
<1> DEFINE sent == AutoSentBut(unwritten)
<1>4. d \in Decisions /\ tick.todo \in UNION {[due -> Decisions] : due \in SUBSET Positions}
  BY <1>1, <1>2 DEF TypeOK
<1>5. d.rule \in AlertRules /\ AlertRules \subseteq Rules
  BY <1>1, <1>2, <1>4 DEF StormInv, Decisions, Rules
<1>6. InPlace(tick.todo)
  BY <1>1, <1>4 DEF SnoozeInv, StormInv, InPlace
<1>7. sent \in [AlertRules -> 0..MinGap] /\ HasItsRow(sent, row)
  <2>1. row = {d.rule} \ unwritten
    BY <1>3 DEF SendResolves, RowsOfSend
  <2> QED
    BY <1>1, <2>1 DEF AutoSentBut, TypeOK, MinGap, HasItsRow
<1> HIDE DEF d, sent
<1>8. /\ heard' \in [AlertRules -> [reason : AlertReasons, age : 0..DedupWindow, known : BOOLEAN]]
      /\ emitted' \in [AlertRules -> [reason : AlertReasons, age : 0..DedupWindow]]
      /\ buttons' \subseteq AlertRules /\ faults' \in 0..MaxFaults
      /\ HeardInv'
  BY <1>1, <1>3, <1>4, <1>5, SendHas
<1>9. Loop(tick.todo, row, sent) /\ row \in SUBSET Rules
  BY <1>3, <1>5 DEF sent
<1>10. /\ tick' \in [now : Decisions \cup {NoDecision},
                    todo : UNION {[due -> Decisions] : due \in SUBSET Positions}]
       /\ autoSent' \in [AlertRules -> 0..MinGap] /\ SnoozeInv' /\ StormInv'
  <2>1. UNCHANGED <<snooze, quiet>>
    BY <1>2 DEF ruleVars
  <2> QED
    BY <1>4, <1>6, <1>7, <1>9, <2>1, LoopKeeps
<1>11. lastRow' \in [Rules -> 0..MinGap] /\ failures' \in [ActionRules -> 0..MaxFailures]
  BY <1>1, <1>4, <1>9, LoopHas
<1>12. TypeOK'
  BY <1>1, <1>2, <1>8, <1>10, <1>11, TypesMake DEF TypeOK, reportVars, ruleVars
<1> QED
  BY <1>8, <1>10, <1>12 DEF AutopilotInv

LEMMA RunNowKeeps ==
  ASSUME AutopilotInv, NEW r \in Rules, RunNow(r)
  PROVE  AutopilotInv'
<1>1. TypeOK /\ SnoozeInv /\ HeardInv
  BY DEF AutopilotInv
<1>2. UNCHANGED <<reportVars, ruleVars, emitted, failures, tick, buttons, autoSent,
                  heard, quiet>>
  BY DEF RunNow
<1>0. faults' \in 0..MaxFaults
  BY <1>1 DEF RunNow, NoRowInserted, Fault, TypeOK
<1>3. /\ runNow' \in Decisions \cup {NoDecision}
      /\ lastRow' \in [Rules -> 0..MinGap] /\ \A s \in Rules : lastRow'[s] \in {0, lastRow[s]}
  <2>1. CASE InsertRow(r) /\ UNCHANGED runNow
    BY <1>1, <2>1, InsertRowHas DEF TypeOK
  <2>3. CASE UNCHANGED <<lastRow, runNow>>
    BY <1>1, <2>3 DEF TypeOK
  <2>2. CASE DecisionOf(r).reason # "none" /\ runNow' = DecisionOf(r) /\ UNCHANGED lastRow
    <3>1. DecisionOf(r) \in Decisions
      <4>1. DecisionOf(r).reason = EvaluateRule(r)
        BY DEF DecisionOf
      <4> QED
        BY <1>1, <2>2, <4>1, EvaluationHas
    <3> QED
      BY <1>1, <2>2, <3>1 DEF TypeOK
  <2> QED
    BY <2>1, <2>2, <2>3 DEF RunNow, NoRowInserted
<1>4. TypeOK'
  BY <1>0, <1>1, <1>2, <1>3, TypesMake DEF TypeOK, reportVars, ruleVars
<1>5. \A s \in AlertRules : quiet'[s] \in Nat /\ quiet'[s] <= snooze'[s] /\ quiet'[s] <= quiet[s]
  BY <1>1, <1>2 DEF TypeOK, SnoozeInv, ruleVars
<1>6. SnoozeInv' /\ StormInv'
  BY <1>2, <1>3, <1>5, TickStays
<1>7. HeardInv'
  BY <1>1, <1>2 DEF HeardInv
<1> QED
  BY <1>4, <1>6, <1>7 DEF AutopilotInv

LEMMA RunNowResolvesKeeps ==
  ASSUME AutopilotInv, RunNowResolves
  PROVE  AutopilotInv'
<1>1. TypeOK /\ SnoozeInv /\ HeardInv
  BY DEF AutopilotInv
<1>2. /\ runNow # NoDecision /\ runNow' = NoDecision
      /\ UNCHANGED <<reportVars, ruleVars, tick, autoSent, quiet>>
  BY DEF RunNowResolves
<1>3. runNow \in Decisions
  BY <1>1, <1>2 DEF TypeOK
<1>4. /\ heard' \in [AlertRules -> [reason : AlertReasons, age : 0..DedupWindow, known : BOOLEAN]]
      /\ emitted' \in [AlertRules -> [reason : AlertReasons, age : 0..DedupWindow]]
      /\ buttons' \subseteq AlertRules /\ faults' \in 0..MaxFaults
      /\ lastRow' \in [Rules -> 0..MinGap] /\ \A s \in Rules : lastRow'[s] \in {0, lastRow[s]}
      /\ failures' \in [ActionRules -> 0..MaxFailures]
      /\ HeardInv'
  <2>1. ASSUME runNow.rule \in AlertRules, NEW row, NEW unwritten,
               SendResolves(runNow, row, unwritten),
               lastRow' = [r \in Rules |-> IF r \in row THEN 0 ELSE lastRow[r]],
               UNCHANGED failures
        PROVE  /\ heard' \in [AlertRules -> [reason : AlertReasons, age : 0..DedupWindow,
                                            known : BOOLEAN]]
               /\ emitted' \in [AlertRules -> [reason : AlertReasons, age : 0..DedupWindow]]
               /\ buttons' \subseteq AlertRules /\ faults' \in 0..MaxFaults
               /\ lastRow' \in [Rules -> 0..MinGap]
               /\ \A s \in Rules : lastRow'[s] \in {0, lastRow[s]}
               /\ failures' \in [ActionRules -> 0..MaxFailures]
               /\ HeardInv'
    <3>1. lastRow' \in [Rules -> 0..MinGap] /\ \A s \in Rules : lastRow'[s] \in {0, lastRow[s]}
      BY <1>1, <2>1 DEF TypeOK, MinGap
    <3> QED
      BY <1>1, <1>3, <2>1, <3>1, SendHas DEF TypeOK
  <2>2. CASE /\ runNow.rule \in ActionRules /\ InsertRow(runNow.rule)
             /\ CountError(runNow.rule) \/ UNCHANGED failures
             /\ UNCHANGED <<emitted, heard, buttons, faults>>
    <3>1. failures' \in [ActionRules -> 0..MaxFailures]
      <4>1. failures \in [ActionRules -> 0..3]
        BY <1>1 DEF TypeOK, MaxFailures
      <4>2. CASE failures' = [failures EXCEPT ![runNow.rule] = failures[runNow.rule] + 1]
                 /\ failures[runNow.rule] < 3
        BY <2>2, <4>1, <4>2 DEF MaxFailures
      <4>3. CASE UNCHANGED failures
        BY <4>1, <4>3 DEF MaxFailures
      <4> QED
        BY <2>2, <4>2, <4>3 DEF CountError, MaxFailures
    <3>2. HeardInv'
      BY <1>1, <2>2 DEF HeardInv
    <3>3. lastRow' \in [Rules -> 0..MinGap] /\ \A s \in Rules : lastRow'[s] \in {0, lastRow[s]}
      BY <1>1, <2>2, InsertRowHas DEF Rules
    <3> QED
      BY <1>1, <2>2, <3>1, <3>2, <3>3 DEF TypeOK
  <2>3. CASE NoRowInserted /\ UNCHANGED <<failures, emitted, heard, buttons>>
    <3>1. faults' \in 0..MaxFaults /\ UNCHANGED lastRow
      BY <1>1, <2>3 DEF NoRowInserted, Fault, TypeOK
    <3>2. HeardInv'
      BY <1>1, <2>3 DEF HeardInv
    <3> QED
      BY <1>1, <2>3, <3>1, <3>2 DEF TypeOK
  <2> QED
    BY <2>1, <2>2, <2>3 DEF RunNowResolves
<1>5. TypeOK'
  BY <1>1, <1>2, <1>4, TypesMake DEF TypeOK, reportVars, ruleVars
<1>6. \A s \in AlertRules : quiet'[s] \in Nat /\ quiet'[s] <= snooze'[s] /\ quiet'[s] <= quiet[s]
  BY <1>1, <1>2 DEF TypeOK, SnoozeInv, ruleVars
<1>7. SnoozeInv' /\ StormInv'
  BY <1>2, <1>4, <1>6, TickStays
<1> QED
  BY <1>4, <1>5, <1>7 DEF AutopilotInv

\* Every button of an alert.
LEMMA PressKeeps ==
  ASSUME AutopilotInv, NEW r \in AlertRules, TelegramSnooze(r) \/ TelegramDismissOrFix(r)
  PROVE  AutopilotInv'
<1>1. TypeOK /\ SnoozeInv /\ HeardInv /\ r \in Rules
  BY DEF AutopilotInv, Rules
<1>2. UNCHANGED <<reportVars, enabled, emitted, failures, tick, runNow, autoSent, heard>>
  BY DEF TelegramSnooze, TelegramDismissOrFix, Press, PressFails
<1>3. faults' \in 0..MaxFaults /\ buttons' \subseteq AlertRules
  <2>1. CASE Press(r)
    BY <1>1, <2>1 DEF Press, TypeOK
  <2>2. CASE PressFails(r) /\ buttons' \in {buttons, buttons \ {r}}
    BY <1>1, <2>2 DEF PressFails, Fault, TypeOK
  <2> QED
    BY <2>1, <2>2 DEF TelegramSnooze, TelegramDismissOrFix
<1>4. /\ lastRow' \in [Rules -> 0..MinGap]
      /\ \A s \in Rules : lastRow'[s] \in {0, lastRow[s]}
      /\ UNCHANGED quiet \/ lastRow'[r] = 0
  <2>1. CASE InsertRow(r)
    BY <1>1, <2>1, InsertRowHas
  <2>2. CASE PressFails(r)
    BY <1>1, <2>2 DEF PressFails, TypeOK
  <2> QED
    BY <2>1, <2>2 DEF TelegramSnooze, TelegramDismissOrFix, Press
<1>5. /\ snooze' \in [Rules -> 0..SnoozeTime] /\ quiet' \in [AlertRules -> 0..SnoozeTime]
      /\ \A s \in AlertRules : quiet'[s] <= snooze'[s]
      /\ \A s \in AlertRules \ {r} : quiet'[s] <= quiet[s]
  <2>1. CASE /\ snooze' = [snooze EXCEPT ![r] = SnoozeTime]
             /\ quiet' = [quiet EXCEPT ![r] = SnoozeTime] \/ UNCHANGED quiet
    <3>1. /\ snooze \in [Rules -> 0..SnoozeTime] /\ quiet \in [AlertRules -> 0..SnoozeTime]
          /\ \A s \in AlertRules : quiet[s] <= snooze[s]
      BY <1>1 DEF TypeOK, SnoozeInv
    <3>2. quiet'[r] \in 0..SnoozeTime /\ \A s \in AlertRules \ {r} : quiet'[s] = quiet[s]
      BY <1>1, <2>1, <3>1
    <3>3. snooze'[r] = SnoozeTime /\ \A s \in Rules \ {r} : snooze'[s] = snooze[s]
      BY <1>1, <2>1, <3>1
    <3>4. snooze' \in [Rules -> 0..SnoozeTime] /\ quiet' \in [AlertRules -> 0..SnoozeTime]
      BY <1>1, <2>1, <3>1
    <3>5. ASSUME NEW s \in AlertRules PROVE quiet'[s] <= snooze'[s]
      <4>1. CASE s = r
        BY <3>2, <3>3, <4>1
      <4>2. CASE s # r
        BY <3>1, <3>2, <3>3, <4>2 DEF Rules
      <4> QED
        BY <4>1, <4>2
    <3>6. \A s \in AlertRules \ {r} : quiet'[s] <= quiet[s]
      BY <3>1, <3>2
    <3> QED
      BY <3>4, <3>5, <3>6
  <2>2. CASE UNCHANGED <<snooze, quiet>>
    BY <1>1, <2>2 DEF TypeOK, SnoozeInv
  <2> QED
    BY <2>1, <2>2 DEF TelegramSnooze, TelegramDismissOrFix, PressFails
<1>6. TypeOK'
  BY <1>1, <1>2, <1>3, <1>4, <1>5, TypesMake DEF TypeOK, reportVars
<1>7. /\ \A s \in AlertRules : quiet'[s] \in Nat /\ quiet'[s] <= snooze'[s]
      /\ \A s \in AlertRules : quiet'[s] <= quiet[s] \/ lastRow'[s] = 0
  <2>1. \A s \in AlertRules : quiet[s] \in 0..SnoozeTime /\ quiet'[s] \in 0..SnoozeTime
    BY <1>1, <1>5 DEF TypeOK
  <2> QED
    BY <1>4, <1>5, <2>1
<1>8. SnoozeInv' /\ StormInv'
  BY <1>2, <1>4, <1>7, TickStays
<1>9. HeardInv'
  BY <1>1, <1>2 DEF HeardInv
<1> QED
  BY <1>6, <1>8, <1>9 DEF AutopilotInv

\* The snooze and the switch of the rule editor.
LEMMA EditorKeeps ==
  ASSUME AutopilotInv, NEW r \in Edited, NEW time \in 1..SnoozeTime, UiSnooze(r, time) \/ SetEnabled(r)
  PROVE  AutopilotInv'
<1>1. TypeOK /\ SnoozeInv /\ HeardInv /\ r \in Rules
  BY DEF AutopilotInv
<1>2. UNCHANGED <<reportVars, lastRow, emitted, failures, tick, runNow, buttons, faults, autoSent, heard>>
  BY DEF UiSnooze, SetEnabled
<1>3. /\ snooze' \in [Rules -> 0..SnoozeTime] /\ quiet' \in [AlertRules -> 0..SnoozeTime]
      /\ enabled' \in [Rules -> BOOLEAN]
      /\ \A s \in AlertRules : quiet'[s] <= snooze'[s] /\ quiet'[s] <= quiet[s]
  <2>1. CASE UiSnooze(r, time)
    <3>1. /\ snooze' = [snooze EXCEPT ![r] = time] /\ enabled' = enabled
          /\ quiet' = [s \in AlertRules |-> IF s = r /\ time < quiet[s] THEN time ELSE quiet[s]]
      BY <2>1 DEF UiSnooze
    <3>2. /\ snooze \in [Rules -> 0..SnoozeTime] /\ quiet \in [AlertRules -> 0..SnoozeTime]
          /\ enabled \in [Rules -> BOOLEAN] /\ \A s \in AlertRules : quiet[s] <= snooze[s]
      BY <1>1 DEF TypeOK, SnoozeInv
    <3> QED
      BY <1>1, <3>1, <3>2 DEF Rules
  <2>2. CASE SetEnabled(r)
    <3>1. enabled' = [enabled EXCEPT ![r] = ~enabled[r]] /\ UNCHANGED <<snooze, quiet>>
      BY <2>2 DEF SetEnabled
    <3>2. enabled' \in [Rules -> BOOLEAN]
      BY <1>1, <3>1 DEF TypeOK
    <3> QED
      BY <1>1, <3>1, <3>2 DEF TypeOK, SnoozeInv
  <2> QED
    BY <2>1, <2>2
<1>4. TypeOK'
  BY <1>1, <1>2, <1>3, TypesMake DEF TypeOK, reportVars
<1>5. \A s \in AlertRules : quiet'[s] \in Nat /\ quiet'[s] <= snooze'[s] /\ quiet'[s] <= quiet[s]
  BY <1>3
<1>6. SnoozeInv' /\ StormInv'
  BY <1>2, <1>5, TickStays
<1>7. HeardInv'
  BY <1>1, <1>2 DEF HeardInv
<1> QED
  BY <1>4, <1>6, <1>7 DEF AutopilotInv

LEMMA ReportKeeps ==
  ASSUME AutopilotInv, ReportChanges
  PROVE  AutopilotInv'
<1>1. TypeOK /\ SnoozeInv /\ HeardInv
  BY DEF AutopilotInv
<1>2. UNCHANGED <<ruleVars, lastRow, emitted, failures, tick, runNow, buttons, faults, autoSent,
                  heard, quiet>>
  BY DEF ReportChanges
<1>3. cFree' \in FreeSpace /\ finding' \in [AlertRules -> Reasons \cup {"none"}]
  BY <1>1 DEF ReportChanges, TypeOK
<1>4. TypeOK'
  BY <1>1, <1>2, <1>3, TypesMake DEF TypeOK, ruleVars
<1>5. \A s \in AlertRules : quiet'[s] \in Nat /\ quiet'[s] <= snooze'[s] /\ quiet'[s] <= quiet[s]
  BY <1>1, <1>2 DEF TypeOK, SnoozeInv, ruleVars
<1>6. SnoozeInv' /\ StormInv'
  BY <1>2, <1>5, TickStays
<1>7. HeardInv'
  BY <1>1, <1>2 DEF HeardInv
<1> QED
  BY <1>4, <1>6, <1>7 DEF AutopilotInv

\* Six hours make every row and every automatic alert a gap old, and what is recorded as old
\* as what was heard.
LEMMA TimeKeeps ==
  ASSUME AutopilotInv, TimePasses
  PROVE  AutopilotInv'
<1> USE DEF MinGap
<1>1. /\ TypeOK /\ SnoozeInv /\ HeardInv /\ AlertRules \subseteq Rules
      /\ snooze \in [Rules -> 0..SnoozeTime] /\ quiet \in [AlertRules -> 0..SnoozeTime]
      /\ lastRow \in [Rules -> 0..1] /\ autoSent \in [AlertRules -> 0..1]
      /\ failures \in [ActionRules -> 0..MaxFailures]
  BY DEF AutopilotInv, TypeOK, Rules
<1>2. /\ emitted \in [AlertRules -> [reason : AlertReasons, age : 0..DedupWindow]]
      /\ heard \in [AlertRules -> [reason : AlertReasons, age : 0..DedupWindow, known : BOOLEAN]]
  BY <1>1 DEF TypeOK
<1>3. /\ tick = Idle /\ UNCHANGED <<reportVars, enabled, tick, runNow, buttons, faults>>
      /\ snooze' = [r \in Rules |-> Less(snooze[r])]
      /\ quiet' = [r \in AlertRules |-> Less(quiet[r])]
      /\ lastRow' = [r \in Rules |-> Older(lastRow[r], 1)]
      /\ autoSent' = [r \in AlertRules |-> Older(autoSent[r], 1)]
  BY DEF TimePasses
<1>4. /\ snooze' \in [Rules -> 0..SnoozeTime] /\ quiet' \in [AlertRules -> 0..SnoozeTime]
      /\ \A r \in AlertRules : quiet'[r] <= snooze'[r]
  <2>1. \A r \in Rules : Less(snooze[r]) \in 0..SnoozeTime
    BY <1>1 DEF Less
  <2>2. \A r \in AlertRules : Less(quiet[r]) \in 0..SnoozeTime /\ Less(quiet[r]) <= Less(snooze[r])
    BY <1>1 DEF Less, SnoozeInv
  <2> QED
    BY <1>1, <1>3, <2>1, <2>2
<1>5. /\ lastRow' \in [Rules -> 0..1] /\ autoSent' \in [AlertRules -> 0..1]
      /\ \A r \in AlertRules : autoSent'[r] = 1
  <2>1. \A age \in 0..1 : Older(age, 1) = 1
    BY DEF Older
  <2>2. \A r \in Rules : Older(lastRow[r], 1) = 1
    BY <1>1, <2>1
  <2>3. \A r \in AlertRules : Older(autoSent[r], 1) = 1
    BY <1>1, <2>1
  <2>4. lastRow' = [r \in Rules |-> 1] /\ autoSent' = [r \in AlertRules |-> 1]
    BY <1>3, <2>2, <2>3
  <2> QED
    BY ONLY <2>4
<1>6. failures' \in [ActionRules -> 0..MaxFailures]
  <2>1. CASE UNCHANGED failures
    BY <1>1, <2>1
  <2>2. ASSUME NEW r \in ActionRules, failures[r] > 0,
               failures' = [failures EXCEPT ![r] = failures[r] - 1]
        PROVE  failures' \in [ActionRules -> 0..MaxFailures]
    <3>1. failures[r] - 1 \in 0..MaxFailures
      BY <1>1, <2>2 DEF MaxFailures
    <3> QED
      BY <1>1, <2>2, <3>1
  <2> QED
    BY <2>1, <2>2 DEF TimePasses
<1>7. /\ \A r \in AlertRules : emitted'[r] = [emitted[r] EXCEPT !.age = Older(emitted[r].age, DedupWindow)]
      /\ \A r \in AlertRules : heard'[r] = [heard[r] EXCEPT !.age = Older(heard[r].age, DedupWindow)]
      /\ emitted' = [r \in AlertRules |-> emitted'[r]] /\ heard' = [r \in AlertRules |-> heard'[r]]
  BY DEF TimePasses
<1>8. \A r \in AlertRules :
        /\ emitted'[r] \in [reason : AlertReasons, age : 0..DedupWindow]
        /\ heard'[r] \in [reason : AlertReasons, age : 0..DedupWindow, known : BOOLEAN]
        /\ emitted'[r].reason = emitted[r].reason /\ heard'[r].reason = heard[r].reason
        /\ heard'[r].known = heard[r].known
        /\ emitted'[r].age = Older(emitted[r].age, DedupWindow)
        /\ heard'[r].age = Older(heard[r].age, DedupWindow)
  <2>1. \A age \in 0..DedupWindow : Older(age, DedupWindow) \in 0..DedupWindow
    BY DEF Older
  <2> SUFFICES ASSUME NEW r \in AlertRules
               PROVE  /\ emitted'[r] \in [reason : AlertReasons, age : 0..DedupWindow]
                      /\ heard'[r] \in [reason : AlertReasons, age : 0..DedupWindow, known : BOOLEAN]
                      /\ emitted'[r].reason = emitted[r].reason /\ heard'[r].reason = heard[r].reason
                      /\ heard'[r].known = heard[r].known
                      /\ emitted'[r].age = Older(emitted[r].age, DedupWindow)
                      /\ heard'[r].age = Older(heard[r].age, DedupWindow)
    OBVIOUS
  <2>2. /\ emitted[r] \in [reason : AlertReasons, age : 0..DedupWindow]
        /\ heard[r] \in [reason : AlertReasons, age : 0..DedupWindow, known : BOOLEAN]
    BY <1>2
  <2> QED
    BY <1>7, <2>1, <2>2
<1>9. TypeOK'
  <2>1. /\ emitted' \in [AlertRules -> [reason : AlertReasons, age : 0..DedupWindow]]
        /\ heard' \in [AlertRules -> [reason : AlertReasons, age : 0..DedupWindow, known : BOOLEAN]]
    BY <1>7, <1>8
  <2> QED
    BY <1>1, <1>3, <1>4, <1>5, <1>6, <2>1, TypesMake DEF TypeOK, reportVars
<1>10. SnoozeInv' /\ StormInv'
  <2>1. tick' = Idle /\ DOMAIN tick'.todo = {} /\ tick'.now.rule = "none"
    BY <1>3 DEF Idle, NoDecision
  <2> QED
    BY <1>4, <1>5, <2>1 DEF SnoozeInv, StormInv
<1>11. HeardInv'
  <2> SUFFICES ASSUME NEW r \in AlertRules, heard'[r].known
               PROVE  emitted'[r].reason = heard'[r].reason /\ emitted'[r].age = heard'[r].age
    BY DEF HeardInv
  <2>1. heard[r].known
    BY <1>8
  <2>2. emitted[r].reason = heard[r].reason /\ emitted[r].age = heard[r].age
    BY <1>1, <2>1 DEF HeardInv
  <2> QED
    BY <1>8, <2>2
<1> QED
  BY <1>9, <1>10, <1>11 DEF AutopilotInv

\* A start forgets the tick and what it awaited; who may have heard of it is not known.
LEMMA RestartKeeps ==
  ASSUME AutopilotInv, Restart
  PROVE  AutopilotInv'
<1> USE DEF MinGap
<1>1. /\ TypeOK /\ SnoozeInv /\ StormInv /\ HeardInv
      /\ autoSent \in [AlertRules -> 0..1] /\ quiet \in [AlertRules -> 0..SnoozeTime]
  BY DEF AutopilotInv, TypeOK
<1>2. /\ faults' \in 0..MaxFaults /\ tick' = Idle /\ runNow' = NoDecision
      /\ autoSent' = [r \in AlertRules |-> IF r \in {tick.now.rule} THEN 1 ELSE autoSent[r]]
      /\ UNCHANGED <<reportVars, ruleVars, lastRow, emitted, failures, quiet>>
  BY <1>1 DEF Restart, Fault, TypeOK, AutoSentBut
<1>3. /\ heard' \in [AlertRules -> [reason : AlertReasons, age : 0..DedupWindow, known : BOOLEAN]]
      /\ buttons' \subseteq AlertRules /\ HeardInv'
  <2>1. ASSUME NEW d \in Decisions, d.rule \in AlertRules, Receives(d, FALSE)
        PROVE  /\ heard' \in [AlertRules -> [reason : AlertReasons, age : 0..DedupWindow,
                                             known : BOOLEAN]]
               /\ buttons' \subseteq AlertRules /\ HeardInv'
    <3>1. /\ heard' \in [AlertRules -> [reason : AlertReasons, age : 0..DedupWindow,
                                        known : BOOLEAN]]
          /\ buttons' \subseteq AlertRules
          /\ heard'[d.rule] = [reason |-> d.reason, age |-> 0, known |-> FALSE]
          /\ \A r \in AlertRules \ {d.rule} : heard'[r] = heard[r]
      BY <1>1, <2>1, ReceiveHas
    <3> QED
      BY <1>1, <1>2, <2>1, <3>1, HeardKept
  <2>2. CASE UNCHANGED <<heard, buttons>>
    BY <1>1, <1>2, <2>2 DEF HeardInv, TypeOK
  <2>3. CASE tick.now # NoDecision /\ Receives(tick.now, FALSE)
    <3>1. tick.now \in Decisions /\ tick.now.rule \in AlertRules
      BY <1>1, <2>3 DEF TypeOK, StormInv, Decisions, Rules
    <3> QED
      BY <2>1, <2>3, <3>1
  <2>4. CASE runNow.rule \in AlertRules /\ Receives(runNow, FALSE)
    <3>1. runNow \in Decisions
      BY <1>1, <2>4 DEF TypeOK, NoDecision, Rules
    <3> QED
      BY <2>1, <2>4, <3>1
  <2> QED
    BY <2>2, <2>3, <2>4 DEF Restart
<1>4. << >> \in [{} -> Decisions] /\ Idle = [now |-> NoDecision, todo |-> << >>]
  BY DEF Idle
<1>5. tick' \in [now : Decisions \cup {NoDecision},
                 todo : UNION {[due -> Decisions] : due \in SUBSET Positions}]
  BY <1>2, <1>4
<1>6. autoSent' \in [AlertRules -> 0..1] /\ \A r \in AlertRules : autoSent'[r] < 1 => lastRow'[r] < 1
  BY <1>1, <1>2 DEF StormInv
<1>7. TypeOK'
  BY <1>1, <1>2, <1>3, <1>5, <1>6, TypesMake DEF TypeOK, reportVars, ruleVars
<1>8. SnoozeInv' /\ StormInv'
  <2>1. DOMAIN tick'.todo = {} /\ tick'.now.rule = "none"
    BY <1>2 DEF Idle, NoDecision
  <2> QED
    BY <1>1, <1>2, <1>6, <2>1 DEF SnoozeInv, StormInv, ruleVars
<1> QED
  BY <1>3, <1>7, <1>8 DEF AutopilotInv

LEMMA AutopilotStep ==
  ASSUME AutopilotInv, [Next]_vars
  PROVE  AutopilotInv'
<1>1. CASE Tick
  BY <1>1, TickKeeps
<1>2. CASE TickResolves
  BY <1>2, TickResolvesKeeps
<1>3. CASE RunNowResolves
  BY <1>3, RunNowResolvesKeeps
<1>4. ASSUME NEW r \in Rules, RunNow(r) PROVE AutopilotInv'
  BY <1>4, RunNowKeeps
<1>5. ASSUME NEW r \in Edited, SetEnabled(r) PROVE AutopilotInv'
  <2>1. 1 \in 1..SnoozeTime
    OBVIOUS
  <2> QED
    BY <1>5, <2>1, EditorKeeps
<1>6. ASSUME NEW r \in AlertRules, TelegramSnooze(r) \/ TelegramDismissOrFix(r) PROVE AutopilotInv'
  BY <1>6, PressKeeps
<1>7. ASSUME NEW r \in Edited, NEW time \in 1..SnoozeTime, UiSnooze(r, time) PROVE AutopilotInv'
  BY <1>7, EditorKeeps
<1>8. CASE ReportChanges
  BY <1>8, ReportKeeps
<1>9. CASE TimePasses
  BY <1>9, TimeKeeps
<1>10. CASE Restart
  BY <1>10, RestartKeeps
<1>11. CASE UNCHANGED vars
  BY <1>11, Zenon DEF vars, reportVars, ruleVars, AutopilotInv, TypeOK, SnoozeInv, StormInv, HeardInv
<1> QED
  BY <1>1, <1>2, <1>3, <1>4, <1>5, <1>6, <1>7, <1>8, <1>9, <1>10, <1>11 DEF Next

\* The types, and what the rows, the ages and the histories of the rules have to do with each
\* other, hold in every state.
THEOREM AutopilotInvariance == Spec => []AutopilotInv
<1> QED
  BY AutopilotInit, AutopilotStep, PTL DEF Spec

(***************************************************************************)
(* What an alert that begins, and a question that is put, need.            *)
(***************************************************************************)

\* Only a tick begins an automatic alert: with a decision of its loop that it does not skip.
LEMMA AlertBegins ==
  ASSUME AutopilotInv, [Next]_vars, NEW r \in AlertRules, BeginsAlert(r)
  PROVE  /\ lastRow[r] >= MinGap /\ r # tick.now.rule
         /\ quiet[r] > 0 => lastRow[r] < MinGap
         /\ ~Deduplicated(tick'.now)
<1>1. TypeOK /\ SnoozeInv /\ StormInv /\ tick' # tick /\ tick'.now.rule = r
  BY DEF AutopilotInv, BeginsAlert
<1>2. tick' # Idle
  BY <1>1 DEF Idle, NoDecision, Rules
<1>3. ASSUME NEW decisions \in UNION {[due -> Decisions] : due \in SUBSET Positions},
             NEW row \in SUBSET Rules, NEW sent, Loop(decisions, row, sent)
      PROVE  \E i \in DOMAIN decisions : /\ ~Skipped(decisions[i], MinGap)
                                         /\ tick'.now = decisions[i]
  <2>1. PICK i \in DOMAIN decisions :
          ~Skipped(decisions[i], MinGap) /\ Awaits(decisions, i, sent)
    BY <1>1, <1>2, <1>3, LoopHas
  <2> QED
    BY <2>1 DEF Awaits
<1>4. CASE Tick
  <2>1. Loop(DueDecisions, {}, autoSent) /\ tick = Idle
    BY <1>4 DEF Tick
  <2>2. PICK i \in DOMAIN DueDecisions : ~Skipped(DueDecisions[i], MinGap) /\ tick'.now = DueDecisions[i]
    BY <1>1, <1>3, <2>1, DueHas
  <2>3. snooze[r] = 0
    BY <1>1, <2>2, DueHas
  <2>4. tick.now.rule = "none" /\ quiet[r] <= 0 /\ quiet[r] \in 0..SnoozeTime
    BY <1>1, <2>1, <2>3 DEF Idle, NoDecision, SnoozeInv, TypeOK
  <2>5. lastRow[r] >= MinGap /\ ~Deduplicated(tick'.now)
    <3>1. ~Skipped(tick'.now, MinGap) /\ lastRow[r] \in 0..1
      BY <1>1, <2>2 DEF TypeOK, Rules, MinGap
    <3> QED
      BY <1>1, <3>1 DEF Skipped, MinGap
  <2> QED
    BY <2>4, <2>5 DEF Rules
<1>5. CASE TickResolves
  <2>1. PICK row \in SUBSET {tick.now.rule}, unwritten \in SUBSET {tick.now.rule} :
          Loop(tick.todo, row, AutoSentBut(unwritten)) /\ tick.now # NoDecision
    BY <1>5 DEF TickResolves
  <2>2. /\ tick.todo \in UNION {[due -> Decisions] : due \in SUBSET Positions}
        /\ row \in SUBSET Rules
    BY <1>1, <2>1 DEF TypeOK, Decisions, Rules
  <2>3. PICK i \in DOMAIN tick.todo : ~Skipped(tick.todo[i], MinGap) /\ tick'.now = tick.todo[i]
    BY <1>3, <2>1, <2>2
  <2>4. r # tick.now.rule /\ (quiet[r] > 0 => lastRow[r] < MinGap)
    BY <1>1, <2>3 DEF SnoozeInv, StormInv
  <2>5. lastRow[r] >= MinGap /\ ~Deduplicated(tick'.now)
    <3>1. ~Skipped(tick'.now, MinGap) /\ lastRow[r] \in 0..1
      BY <1>1, <2>3 DEF TypeOK, Rules, MinGap
    <3> QED
      BY <1>1, <3>1 DEF Skipped, MinGap
  <2> QED
    BY <2>4, <2>5
<1> QED
  BY <1>1, <1>2, <1>4, <1>5 DEF Next, RunNowResolves, RunNow, SetEnabled, TelegramSnooze,
     TelegramDismissOrFix, Press, PressFails, UiSnooze, ReportChanges, TimePasses, Restart, vars

\* The Snooze button keeps its promise: no automatic alert of the rule begins for a day, not
\* even by a tick that took its decision before (evaluateAutopilot and dispatchDecision of
\* autopilotEngine.ts against ap_snooze of main.ts).
THEOREM SnoozeIsKept == Spec => QuietAfterSnooze
<1>1. ASSUME AutopilotInv, [Next]_vars
      PROVE  [\A r \in AlertRules : BeginsAlert(r) => quiet[r] = 0]_vars
  <2>1. ASSUME NEW r \in AlertRules, BeginsAlert(r) PROVE quiet[r] = 0
    <3>1. quiet[r] \in 0..SnoozeTime /\ lastRow[r] \in 0..1
      BY <1>1 DEF AutopilotInv, TypeOK, Rules, MinGap
    <3>2. lastRow[r] >= MinGap /\ (quiet[r] > 0 => lastRow[r] < MinGap)
      BY <1>1, <2>1, AlertBegins
    <3> QED
      BY <3>1, <3>2 DEF MinGap
  <2> QED
    BY <2>1
<1> QED
  BY <1>1, AutopilotInvariance, PTL DEF Spec, QuietAfterSnooze

\* Two automatic alerts of a rule are a gap apart (the rows dispatchAlert writes whatever
\* became of the send, and one tick at a time), but for an alert the application died in or
\* whose row could not be written.
THEOREM AlertsAreAGapApart == Spec => NoAlertStorm
<1>1. ASSUME AutopilotInv, [Next]_vars
      PROVE  [\A r \in AlertRules : BeginsAlert(r) => autoSent[r] >= MinGap]_vars
  <2>1. ASSUME NEW r \in AlertRules, BeginsAlert(r) PROVE autoSent[r] >= MinGap
    <3>1. autoSent[r] \in 0..1 /\ lastRow[r] \in 0..1
      BY <1>1 DEF AutopilotInv, TypeOK, Rules, MinGap
    <3>2. lastRow[r] >= MinGap /\ r # tick.now.rule
      BY <1>1, <2>1, AlertBegins
    <3>3. autoSent[r] < MinGap => lastRow[r] < MinGap
      BY <1>1, <3>2 DEF AutopilotInv, StormInv
    <3> QED
      BY <3>1, <3>2, <3>3 DEF MinGap
  <2> QED
    BY <2>1
<1> QED
  BY <1>1, AutopilotInvariance, PTL DEF Spec, NoAlertStorm

\* What Telegram confirmed and the database recorded is not sent again within the day, by a
\* tick or by "Run now" (recordAlertEmit, and the window of dispatchAlert).
THEOREM AlertsAreToldOnceADay == Spec => ToldOnceADay
<1>1. ASSUME AutopilotInv, [Next]_vars
      PROVE  [\A d \in {tick'.now, runNow'} :
                (d.rule \in AlertRules /\ tick.now # d /\ runNow # d)
                  => ~(/\ heard[d.rule].known /\ heard[d.rule].reason = d.reason
                       /\ heard[d.rule].age < DedupWindow)]_vars
  <2> SUFFICES ASSUME NEW d \in {tick'.now, runNow'},
                      d.rule \in AlertRules, tick.now # d, runNow # d,
                      heard[d.rule].known, heard[d.rule].reason = d.reason,
                      heard[d.rule].age < DedupWindow
               PROVE  FALSE
    OBVIOUS
  <2>1. Deduplicated(d)
    BY <1>1 DEF AutopilotInv, HeardInv, Deduplicated
  <2>2. CASE d = tick'.now
    <3>1. BeginsAlert(d.rule)
      BY <2>2 DEF BeginsAlert
    <3> QED
      BY <1>1, <2>1, <2>2, <3>1, AlertBegins
  <2>3. CASE d = runNow' /\ runNow' # runNow
    <3>1. d # NoDecision
      BY DEF NoDecision, Rules
    <3>2. PICK r \in Rules : RunNow(r) /\ d = DecisionOf(r)
      BY <1>1, <2>3, <3>1 DEF Next, Tick, TickResolves, RunNowResolves, RunNow, SetEnabled,
         TelegramSnooze, TelegramDismissOrFix, Press, PressFails, UiSnooze, ReportChanges,
         TimePasses, Restart, vars
    <3>3. ~Skipped(d, 0)
      BY <2>3, <3>2 DEF RunNow
    <3> QED
      BY <2>1, <3>3 DEF Skipped
  <2> QED
    BY <2>2, <2>3
<1> QED
  BY <1>1, AutopilotInvariance, PTL DEF Spec, ToldOnceADay
=============================================================================
