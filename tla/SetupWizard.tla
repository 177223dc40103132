----------------------------- MODULE SetupWizard -----------------------------
(***************************************************************************)
(* The setup wizard of the renderer: WizardShell.tsx, WizardContext.tsx and  *)
(* the nine steps.  A step keeps what it shows to itself; an effect of it      *)
(* saves when it is cleaned up, which React does when the step is left and,   *)
(* where the effect depends on what is shown, whenever that changes.          *)
(*                                                                          *)
(* What a step shows is abstracted to where it comes from: the initial value  *)
(* of the component, the machine, the settings, or the user.                *)
(***************************************************************************)
EXTENDS Integers, Sequences

CONSTANTS
  Keys,       \* the keys that are looked at, of those the steps save
  MaxEdits,   \* bound on the edits
  MaxWrites,  \* bound on the writes under way when the user goes on
  MaxRuns     \* bound on the runs of the wizard and the starts of the application

AllKeys == {"thresholds", "nas_enabled", "nas", "rdp", "telegram", "rules", "integrations"}

VARIABLES
  stored,    \* the settings, first_run_complete among them, and the NAS config
  before,    \* history: the settings when this run of the wizard began
  step,      \* currentStep, or -1: no wizard
  shown,     \* what the mounted step shows of each of its keys
  ready,     \* its fetch: "loading", "ready" or "error"
  loaded,    \* initialMapRef of the rules: what they were
  clicked,   \* userInteractedRef of the network step
  context,   \* what WizardContext keeps: telegram, integrations, the profile
  writes,    \* the writes on their way to the main process, in order
  touched,   \* history: keys the user has changed in this run
  lastWord,  \* history: what a step that was left has last saved, unless that write failed
  edits,     \* history: edits
  runs       \* history: runs and starts

page == <<step, shown, ready, loaded, clicked>>
history == <<before, touched, lastWord, edits, runs>>
vars == <<stored, page, context, writes, history>>

Closed == -1
Last == 8

StepKeys(s) ==
  Keys \cap
    CASE s = 1 -> {"thresholds"} [] s = 2 -> {"nas_enabled", "nas"} [] s = 3 -> {"rdp"}
      [] s = 4 -> {"telegram"} [] s = 5 -> {"rules"} [] s = 6 -> {"integrations"}
      [] OTHER -> {}

\* What the user types: every time something else.
Typed(n) == IF n = 0 THEN "typed" ELSE "retyped"

\* The steps that ask for something when they are mounted.
Fetching(s) == s \in {1, 2, 3, 5, 7}

FreshContext == [telegram |-> "initial", integrations |-> "initial", profile |-> FALSE]

\* useState of the steps: a constant, or what the context has.  No step but the one of the
\* NAS, and the rules, asks for the settings there are.
InitialOf(k, ctx) ==
  CASE k \in {"telegram", "integrations"} -> ctx[k]
    [] k = "nas_enabled" -> "no"
    [] OTHER -> "initial"

ShownOn(s, ctx) == [k \in AllKeys |-> IF k \in StepKeys(s) THEN InitialOf(k, ctx) ELSE "none"]

Mount(s, ctx) ==
  /\ step' = s
  /\ shown' = ShownOn(s, ctx)
  /\ ready' = IF Fetching(s) THEN "loading" ELSE "ready"
  /\ loaded' = "initial"
  /\ clicked' = FALSE

Opened == Mount(0, FreshContext)

\* A machine that is new, with the wizard open, or one that was set up before.
Init ==
  /\ \/ /\ stored = [k \in AllKeys \cup {"first_run_complete"} |->
                       IF k \in {"nas_enabled", "first_run_complete"} THEN "no" ELSE "unset"]
        /\ step = 0
     \/ /\ stored = [k \in AllKeys \cup {"first_run_complete"} |->
                       IF k \in {"nas_enabled", "first_run_complete"} THEN "yes" ELSE "kept"]
        /\ step = Closed
  /\ before = stored
  /\ shown = [k \in AllKeys |-> "none"] /\ ready = "ready" /\ loaded = "initial" /\ clicked = FALSE
  /\ context = FreshContext
  /\ writes = <<>>
  /\ touched = {} /\ edits = 0 /\ runs = 1
  /\ lastWord = [k \in Keys |-> "none"]

(***************************************************************************)
(* Saving.                                                                 *)
(***************************************************************************)
Writes(ks, values) ==
  LET one(k) == IF k \in ks THEN <<[key |-> k, value |-> values[k]]>> ELSE <<>>
  IN one("thresholds") \o one("nas_enabled") \o one("nas") \o one("rdp")
       \o one("telegram") \o one("rules") \o one("integrations")

\* nas_enabled if the user has clicked it, and the NAS if there is one.
SavedNas(has) ==
  (IF has THEN {"nas_enabled"} ELSE {})
    \cup (IF shown["nas_enabled"] = "yes" /\ shown["nas"] # "initial" THEN {"nas"} ELSE {})

\* The rules that are not what they were.
SavedRules == IF shown["rules"] # loaded THEN {"rules"} ELSE {}

\* What the save of the mounted step writes; the other steps write all they have.
SavedKeys(has) ==
  StepKeys(step) \cap (CASE step = 2 -> SavedNas(has) [] step = 5 -> SavedRules [] OTHER -> AllKeys)

\* Mutant: the effect keeps the first closure of the mount.
FirstClosure == ShownOn(step, context)

\* The closure of the last commit.
LastClosure == shown

\* The cleanup when the step is left.  The step of the NAS sends its writes one after the
\* other, each when the one before is answered; of one key they arrive in the order of the
\* saves all the same: a later save of a mount has at least as many writes before that key,
\* and the next mount asks for the settings and the drives before it has a NAS to save.
SaveOnLeave == writes' = writes \o Writes(SavedKeys(clicked), LastClosure)

\* The cleanup when something else is shown from now on: it saves what was shown, the
\* click being known already.  The effect of the rules does not depend on them.
SaveOnChange ==
  writes' = IF shown' = shown \/ step = 5 THEN writes
            ELSE writes \o Writes(SavedKeys(clicked'), shown)

Heard ==
  lastWord' = [k \in Keys |-> IF k \in SavedKeys(clicked) THEN shown[k]
                              ELSE IF k \in StepKeys(step) THEN "none" ELSE lastWord[k]]

\* What the context has to keep is dispatched after the write, whether or not it is done.
Remembered(w) ==
  IF w.key \in {"telegram", "integrations"} /\ step # Closed
  THEN [context EXCEPT ![w.key] = w.value] ELSE context

\* A write arrives; whether it is done is not looked at.  The overlay closes once the wizard
\* is marked complete.
Arrives ==
  /\ writes # <<>>
  /\ LET w == Head(writes) IN
     \E ok \in BOOLEAN :
       /\ stored' = IF ok THEN [stored EXCEPT ![w.key] = w.value] ELSE stored
       /\ IF w.key = "first_run_complete" /\ step # Closed
          THEN /\ Heard
               /\ writes' = Tail(writes) \o Writes(SavedKeys(clicked), LastClosure)
               /\ Mount(Closed, FreshContext)
               /\ context' = FreshContext
          ELSE /\ writes' = Tail(writes)
               /\ lastWord' = IF ok \/ \E i \in 2..Len(writes) : writes[i].key = w.key
                              THEN lastWord ELSE [lastWord EXCEPT ![w.key] = "none"]
               /\ context' = Remembered(w)
               /\ UNCHANGED page
  /\ UNCHANGED <<before, touched, edits, runs>>

(***************************************************************************)
(* What a step asks for.                                                   *)
(***************************************************************************)
\* The network step asks for the settings first, and takes from them that there is a NAS.
NasSeeds ==
  /\ step = 2 /\ ready = "loading" /\ shown["nas_enabled"] = "no"
  /\ stored["nas_enabled"] = "yes"
  /\ shown' = [shown EXCEPT !["nas_enabled"] = "yes"]
  /\ UNCHANGED <<stored, step, ready, loaded, clicked, context, history>>
  /\ SaveOnChange

\* An answer, or an error if ok is false; values are shown from now on.
Answer(s, outcome, values) ==
  /\ step = s /\ ready = "loading" /\ ready' = outcome
  /\ shown' = [k \in AllKeys |-> IF k \in StepKeys(s) \cap DOMAIN values THEN values[k] ELSE shown[k]]
  /\ UNCHANGED <<stored, step, clicked, history>>

\* The profile; an error hides the controls.  Its thresholds are not the user's.
ProfileArrives ==
  \/ /\ Answer(1, "ready", <<>>) /\ context' = [context EXCEPT !.profile = TRUE]
     /\ UNCHANGED loaded /\ SaveOnChange
  \/ Answer(1, "error", <<>>) /\ UNCHANGED <<context, loaded>> /\ SaveOnChange

\* Drives that are mapped, and with them that there is a NAS; or none, or an error.
DrivesArrive ==
  /\ \/ Answer(2, "ready", [nas_enabled |-> "yes", nas |-> "found"])
     \/ Answer(2, "ready", <<>>)
  /\ UNCHANGED <<context, loaded>> /\ SaveOnChange

\* Failed logins, for which blocking is proposed, or none; an error hides the controls.
PostureArrives ==
  /\ \/ Answer(3, "ready", [rdp |-> "found"])
     \/ \E outcome \in {"ready", "error"} : Answer(3, outcome, <<>>)
  /\ UNCHANGED <<context, loaded>> /\ SaveOnChange

\* The rules as they are, or an error.
RulesArrive ==
  /\ \/ Answer(5, "ready", [rules |-> stored["rules"]]) /\ loaded' = stored["rules"]
     \/ Answer(5, "ready", <<>>) /\ UNCHANGED loaded
  /\ UNCHANGED context /\ SaveOnChange

TasksArrive == Answer(7, "ready", <<>>) /\ UNCHANGED <<context, loaded>> /\ SaveOnChange

(***************************************************************************)
(* The user.                                                               *)
(***************************************************************************)
MayGoOn == Len(writes) <= MaxWrites

\* The controls of a step are there when it is ready; those of the NAS when there is one,
\* those of the integrations when the profile is known.
Editable(k) ==
  /\ k \in StepKeys(step) /\ ready = "ready" /\ MayGoOn
  /\ k = "nas" => shown["nas_enabled"] = "yes"
  /\ k = "integrations" => context.profile

Set(k, v) ==
  /\ Editable(k) /\ edits < MaxEdits /\ edits' = edits + 1
  /\ shown' = [shown EXCEPT ![k] = v]
  /\ touched' = touched \cup {k}
  /\ UNCHANGED <<stored, step, ready, loaded, context, before, lastWord, runs>>

Edit(k) == k \notin {"nas_enabled", "rules"} /\ Set(k, Typed(edits)) /\ UNCHANGED clicked /\ SaveOnChange

\* A click on the toggle is remembered, whatever it says.
ToggleNas == \E v \in {"yes", "no"} : Set("nas_enabled", v) /\ clicked' = TRUE /\ SaveOnChange

\* Rules may be set back to what they were.
EditRules == \E v \in {Typed(edits), loaded} : Set("rules", v) /\ UNCHANGED clicked /\ SaveOnChange

\* Next and Back.
GoTo(s) ==
  /\ step # Closed /\ s \in {step - 1, step + 1} \cap 0..Last /\ MayGoOn
  /\ SaveOnLeave /\ Heard
  /\ Mount(s, context)
  /\ UNCHANGED <<stored, context, before, touched, edits, runs>>

\* The cross, and Finish on the last step, do the same.
Complete ==
  /\ step # Closed /\ MayGoOn
  /\ \A i \in 1..Len(writes) : writes[i].key # "first_run_complete"
  /\ writes' = Append(writes, [key |-> "first_run_complete", value |-> "yes"])
  /\ UNCHANGED <<stored, page, context, history>>

Begins ==
  /\ runs < MaxRuns /\ runs' = runs + 1
  /\ touched' = {} /\ edits' = edits
  /\ lastWord' = [k \in Keys |-> "none"]
  /\ context' = FreshContext

\* "Re-run Setup Wizard" of the Settings page, which waits for its own write and so for
\* those before it.
Rerun ==
  /\ step = Closed /\ writes = <<>>
  /\ stored' = [stored EXCEPT !["first_run_complete"] = "no"]
  /\ before' = stored'
  /\ Begins /\ Opened
  /\ UNCHANGED writes

\* The application is closed, the writes under way being lost, and started again.
Restart ==
  /\ Begins
  /\ writes' = <<>>
  /\ before' = stored
  /\ IF stored["first_run_complete"] = "yes" THEN Mount(Closed, FreshContext) ELSE Opened
  /\ UNCHANGED stored

Next ==
  \/ Arrives \/ NasSeeds
  \/ ProfileArrives \/ DrivesArrive \/ PostureArrives \/ RulesArrive \/ TasksArrive
  \/ \E k \in Keys : Edit(k)
  \/ ToggleNas \/ EditRules
  \/ \E s \in 0..Last : GoTo(s)
  \/ Complete \/ Rerun \/ Restart

Spec == Init /\ [][Next]_vars

(***************************************************************************)
(* Properties.                                                             *)
(***************************************************************************)
KeptUnlessTouched(k) == stored[k] = before[k] \/ k \in touched

\* A run of the wizard changes whether there is a NAS, and the rules, only if the user has
\* changed them in it: not by what it shows while it loads, nor by being closed early.
ChoicesAreKept == KeptUnlessTouched("nas_enabled") /\ KeptUnlessTouched("rules")

\* However many saves a step has begun on the way, what is stored in the end is what it
\* showed when it was left; until the Settings page stores something else.
LastWordIsStored ==
  writes = <<>> =>
    \A k \in Keys \ StepKeys(step) :
      lastWord[k] = "none" \/ stored[k] = lastWord[k]

(***************************************************************************)
(* Inductive invariant.                                                    *)
(***************************************************************************)
Values == {"unset", "no", "yes", "kept", "initial", "found", "typed", "retyped", "none"}
Settings == [AllKeys \cup {"first_run_complete"} -> Values]
WriteType == [key : Keys \cup {"first_run_complete"}, value : Values]

TypeOK ==
  /\ stored \in Settings /\ before \in Settings
  /\ step \in Closed..Last
  /\ shown \in [AllKeys -> Values] /\ loaded \in Values
  /\ ready \in {"loading", "ready", "error"}
  /\ clicked \in BOOLEAN
  /\ context \in [telegram : Values, integrations : Values, profile : BOOLEAN]
  /\ writes \in Seq(WriteType)
  /\ touched \subseteq Keys
  /\ lastWord \in [Keys -> Values]
  /\ edits \in Nat /\ runs \in Nat

Pending(k) == {i \in DOMAIN writes : writes[i].key = k}

\* What is not loaded has been set by the user, and only that is on its way.
OnlyTouchedAreSaved ==
  /\ clicked => "nas_enabled" \in touched
  /\ "rules" \in StepKeys(step) => shown["rules"] = loaded \/ "rules" \in touched
  /\ \A k \in {"nas_enabled", "rules"} : Pending(k) # {} => k \in touched

\* The last write on its way of a key says the last word of its step, or that is stored.
LastWordIsOnItsWay ==
  \A k \in Keys \ StepKeys(step) :
    lastWord[k] # "none" =>
      /\ Pending(k) = {} => stored[k] = lastWord[k]
      /\ \A i \in Pending(k) : (\A j \in Pending(k) : j <= i) => writes[i].value = lastWord[k]

WizardInv == TypeOK /\ OnlyTouchedAreSaved /\ ChoicesAreKept /\ LastWordIsOnItsWay
=============================================================================
