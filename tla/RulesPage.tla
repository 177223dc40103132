------------------------------ MODULE RulesPage ------------------------------
(***************************************************************************)
(* The Autopilot page of the renderer (Autopilot.tsx) over the table         *)
(* autopilot_rules, with the handlers of ipc.ts it calls.  Other parts write  *)
(* the table as well: a launch of the application seeds the default rules     *)
(* again, an import merges a file, and a press of "Snooze" in Telegram puts    *)
(* a rule to sleep.                                                         *)
(*                                                                          *)
(* The handlers are synchronous but for "Run now", so they work in the order  *)
(* they were called in, and their answers arrive in that order.              *)
(***************************************************************************)
EXTENDS Integers, Sequences, FiniteSets

CONSTANTS
  RuleIds,      \* the rules
  Defaults,     \* DEFAULT_RULES
  Obsolete,     \* OBSOLETE_RULE_IDS, the other ones, which an import may bring back
  MaxOrders,    \* bound on what the user does to them
  MaxOutside    \* bound on launches and Telegram presses

Orders == 1..MaxOrders

VARIABLES
  ruleOn,      \* column enabled: "absent", "on" or "off"
  asleep,      \* the rules whose suppressed_until is in the future
  rulesShown,  \* the page's rules, or nothing before the first list
  busyRule,    \* busyRule: the rule, or nothing
  orders,      \* the calls of the page, in the order of the clicks
  lists,       \* answers to listAutopilotRules on their way, with the order they end
  listLost,    \* history: the last of them that came was a failure
  outsiders    \* history: launches and presses so far

rulesVars == <<ruleOn, asleep, rulesShown, busyRule, orders, lists, listLost, outsiders>>

NoOrder == [is |-> "none"]
Table == [on |-> ruleOn, asleep |-> asleep]
Unloaded == [on |-> <<>>, asleep |-> {}]
NoRules == [on |-> [r \in RuleIds |-> "absent"], asleep |-> {}]

\* The page is mounted and asks for its first list.
Init ==
  /\ ruleOn = [r \in RuleIds |-> IF r \in Defaults THEN "on" ELSE "absent"]
  /\ asleep = {}
  /\ rulesShown = Unloaded
  /\ busyRule = {}
  /\ orders = [o \in Orders |-> NoOrder]
  /\ lists = <<[table |-> Table, order |-> 0]>> /\ listLost = FALSE
  /\ outsiders = 0

(***************************************************************************)
(* The user.                                                               *)
(***************************************************************************)
\* A call, as long as the bound lets there be one.
Order(call) ==
  \E o \in Orders :
    /\ orders[o] = NoOrder /\ \A b \in Orders : b < o => orders[b] # NoOrder
    /\ orders' = [orders EXCEPT ![o] = call]

Loaded == rulesShown # Unloaded

\* toggleEnabled: the opposite of what the row shows, whatever the table says by now.
ToggleEnabled(r) ==
  /\ Loaded /\ rulesShown.on[r] # "absent" /\ r \notin busyRule
  /\ busyRule' = {r}
  /\ Order([is |-> "enable", rule |-> r, at |-> "asked",
            value |-> IF rulesShown.on[r] = "on" THEN "off" ELSE "on"])
  /\ UNCHANGED <<ruleOn, asleep, rulesShown, lists, listLost, outsiders>>

Snooze(r) ==
  /\ Loaded /\ rulesShown.on[r] # "absent" /\ r \notin busyRule
  /\ busyRule' = {r}
  /\ Order([is |-> "snooze", rule |-> r, at |-> "asked", value |-> "none"])
  /\ UNCHANGED <<ruleOn, asleep, rulesShown, lists, listLost, outsiders>>

RunRuleNow(r) ==
  /\ Loaded /\ rulesShown.on[r] # "absent" /\ r \notin busyRule
  /\ busyRule' = {r}
  /\ Order([is |-> "run", rule |-> r, at |-> "asked", value |-> "none"])
  /\ UNCHANGED <<ruleOn, asleep, rulesShown, lists, listLost, outsiders>>

\* importRules: a file with a rule, switched on or off there; it waits for no busy row.
ImportRules(r, value) ==
  /\ Loaded
  /\ Order([is |-> "import", rule |-> r, at |-> "asked", value |-> value])
  /\ UNCHANGED <<ruleOn, asleep, rulesShown, busyRule, lists, listLost, outsiders>>

(***************************************************************************)
(* The main process.                                                       *)
(***************************************************************************)
\* upsertAutopilotRule: a rule that is there keeps its column enabled.
Upsert(r, value) == IF ruleOn[r] = "absent" THEN value ELSE ruleOn[r]

\* An UPDATE of a rule that is not there changes nothing.
Write(r, value) == IF ruleOn[r] = "absent" THEN ruleOn ELSE [ruleOn EXCEPT ![r] = value]

\* The calls are handled in the order they were made; a run of an action takes its time.
Handled(o, ok) ==
  /\ orders[o] # NoOrder /\ orders[o].at = "asked"
  /\ \A b \in Orders : b < o /\ orders[b].is # "run" => orders[b].at # "asked"
  /\ LET call == orders[o] IN
     /\ ruleOn' = CASE ok /\ call.is = "enable" -> Write(call.rule, call.value)
                    [] ok /\ call.is = "import" ->
                           [ruleOn EXCEPT ![call.rule] = Upsert(call.rule, call.value)]
                    [] OTHER -> ruleOn
     /\ asleep' = IF ok /\ call.is = "snooze" THEN asleep \cup {call.rule} ELSE asleep
  /\ orders' = [orders EXCEPT ![o].at = IF ok THEN "success" ELSE "error"]
  /\ UNCHANGED <<rulesShown, busyRule, lists, listLost, outsiders>>

\* seedDefaultRulesOnce at a launch: obsolete rules are deleted and every default rule is
\* upserted.  (The page of the earlier window is gone; a new one is mounted.)
LaunchSeeds ==
  /\ outsiders < MaxOutside /\ outsiders' = outsiders + 1
  /\ ruleOn' = [r \in RuleIds |-> IF r \in Defaults THEN Upsert(r, "on") ELSE "absent"]
  /\ rulesShown' = Unloaded /\ busyRule' = {}
  /\ orders' = [o \in Orders |-> IF orders[o] = NoOrder THEN NoOrder
                                 ELSE [orders[o] EXCEPT !.at = "listed"]]
  /\ lists' = <<[table |-> [on |-> ruleOn', asleep |-> asleep], order |-> 0]>>
  /\ listLost' = FALSE
  /\ UNCHANGED asleep

\* "Snooze" in Telegram: the page is not told.
TelegramSnoozes(r) ==
  /\ outsiders < MaxOutside /\ outsiders' = outsiders + 1
  /\ r \notin asleep /\ asleep' = asleep \cup {r}
  /\ UNCHANGED <<ruleOn, rulesShown, busyRule, orders, lists, listLost>>

(***************************************************************************)
(* The answers.                                                            *)
(***************************************************************************)
\* refreshAll after a success; an error leaves the rows alone.
Refreshes(o) == orders[o].at = "success"

\* Import keeps no row busy.
Freed(o) == IF orders[o].is = "import" THEN busyRule ELSE {}

\* The answer of a call arrives: it asks for the list, which is read at once, or ends.
Answered(o) ==
  /\ orders[o] # NoOrder /\ orders[o].at \in {"success", "error"}
  /\ orders' = [orders EXCEPT ![o].at = IF Refreshes(o) THEN "listing" ELSE "listed"]
  /\ lists' = IF Refreshes(o) THEN Append(lists, [table |-> Table, order |-> o]) ELSE lists
  /\ busyRule' = IF Refreshes(o) THEN busyRule ELSE Freed(o)
  /\ UNCHANGED <<ruleOn, asleep, rulesShown, listLost, outsiders>>

\* refreshAll drops a failure: the rows stay, or the page that was loading has none.
RowsAfter(l, ok) ==
  IF ok THEN l.table ELSE IF Loaded THEN rulesShown ELSE NoRules

\* The list arrives, or its failure, and the handler that asked for it clears the one busy
\* slot.
ListArrives(ok) ==
  /\ lists # <<>> /\ listLost' = ~ok
  /\ LET l == Head(lists) IN
     /\ rulesShown' = RowsAfter(l, ok)
     /\ IF l.order = 0 THEN UNCHANGED <<orders, busyRule>>
        ELSE /\ orders' = [orders EXCEPT ![l.order].at = "listed"]
             /\ busyRule' = Freed(l.order)
  /\ lists' = Tail(lists)
  /\ UNCHANGED <<ruleOn, asleep, outsiders>>

Next ==
  \/ LaunchSeeds \/ \E ok \in BOOLEAN : ListArrives(ok)
  \/ \E r \in RuleIds :
       ToggleEnabled(r) \/ Snooze(r) \/ RunRuleNow(r) \/ TelegramSnoozes(r)
       \/ \E value \in {"on", "off"} : ImportRules(r, value)
  \/ \E o \in Orders : Answered(o) \/ \E ok \in BOOLEAN : Handled(o, ok)

Spec == Init /\ [][Next]_rulesVars

(***************************************************************************)
(* Properties.                                                             *)
(***************************************************************************)
\* A rule is switched on or off by the user's click on its box and by nothing else: no
\* launch, no import and no run of a rule switches on again what the user switched off.
OnlyTheUserSwitches ==
  [][\A r \in RuleIds : ruleOn'[r] # ruleOn[r] /\ "absent" \notin {ruleOn[r], ruleOn'[r]} =>
       \E o \in Orders : /\ orders[o] # NoOrder /\ orders[o].is = "enable" /\ orders[o].rule = r
                         /\ orders[o].value = ruleOn'[r] /\ orders[o].at = "asked"
                         /\ orders'[o].at = "success"]_rulesVars

\* Once every call is answered, the boxes show the table, in whatever order clicks, answers
\* and lists came; unless the last list that the page asked for was a failure.
Idle == lists = <<>> /\ \A o \in Orders : orders[o] = NoOrder \/ orders[o].at = "listed"
BoxesShowTheTable == Idle => listLost \/ rulesShown.on = ruleOn

(***************************************************************************)
(* Inductive invariant.                                                    *)
(***************************************************************************)
Columns == [RuleIds -> {"absent", "on", "off"}]
Tables == [on : Columns, asleep : SUBSET RuleIds]
CallType ==
  [is : {"enable", "snooze", "run", "import"}, rule : RuleIds,
   at : {"asked", "success", "error", "listing", "listed"}, value : {"on", "off", "none"}]

TypeOK ==
  /\ ruleOn \in Columns /\ asleep \subseteq RuleIds
  /\ rulesShown \in {Unloaded} \cup Tables
  /\ busyRule \subseteq RuleIds
  /\ orders \in [Orders -> {NoOrder} \cup CallType]
  /\ lists \in Seq([table : Tables, order : Orders \cup {0}]) /\ listLost \in BOOLEAN
  /\ outsiders \in Nat

\* What switches a rule on or off says so, and a rule that comes from a file is one or the other.
ValuesAreGiven ==
  \A o \in Orders : orders[o] # NoOrder /\ orders[o].is \in {"enable", "import"} => orders[o].value # "none"

RulesInv == TypeOK /\ ValuesAreGiven

\* A call that changed the table will ask for the list; if there is none, the list that comes
\* last, or is shown unless it was a failure, is the table's.  A list that comes settles no call but its own.
Refreshing == \E o \in Orders : orders[o] # NoOrder /\ orders[o].at = "success"
BoxesFollow ==
  /\ Refreshing \/ (IF lists = <<>> THEN listLost \/ rulesShown.on = ruleOn
                                    ELSE lists[Len(lists)].table.on = ruleOn)
  /\ \A i \in DOMAIN lists : lists[i].order # 0 =>
       orders[lists[i].order] # NoOrder /\ orders[lists[i].order].at \in {"listing", "listed"}
=============================================================================
