---------------------------- MODULE SettingsPage ----------------------------
(***************************************************************************)
(* The settings of Settings.tsx that are one key each, and its Telegram       *)
(* section, over the table of settings: every box and field is saved at its   *)
(* change by saveSetting, which never looks at the result; the switch of the   *)
(* NAS panel waits for the result and believes it.                          *)
(*                                                                          *)
(* "tg_token" and "tg_chat" are telegram_bot_token and telegram_chat_id (1     *)
(* when set), "tg_on" is telegram_enabled and stands for every other box and   *)
(* field, "panel" is nas_enabled.  setSetting and getSettings are synchronous   *)
(* in the main process: calls work in the order they were made, and their      *)
(* answers arrive in that order.                                            *)
(*                                                                          *)
(* The page loads its settings when it is mounted and never again; a behaviour  *)
(* is one visit of it.  The setup wizard, opened from the page itself, is laid   *)
(* over the mounted page and stores the same settings.                        *)
(***************************************************************************)
EXTENDS Integers, Sequences, FiniteSets

CONSTANTS
  MaxPresses,     \* bound on the user's clicks
  MaxSaveFaults,  \* bound on saves that fail
  MaxPolls        \* bound on the polls of one test that are on their way

SettingKeys == {"tg_token", "tg_chat", "tg_on", "panel"}
Presses == 1..MaxPresses

VARIABLES
  kept,          \* the table of settings
  copy,          \* the page's settings; "panel": enabled of NasPanelToggleSection
  sends,         \* calls of setSetting on their way: not handled or on the way back
  connecting,    \* saving: the step of connectTelegram, or "no"
  panelBusy,     \* busy of NasPanelToggleSection
  tgTestPending, \* tgTestPending
  tests,         \* the runs of sendTestFull
  clock,         \* what Date.now() tells apart: test messages sent and taps
  lastGood,      \* telegram_last_good_ts
  presses,       \* history: clicks so far
  saveFaults,    \* history: saves that failed so far
  lost,          \* history: keys whose last save failed
  overwritten    \* history: keys the wizard has stored since the page last saved them

settingVars == <<kept, copy, sends, connecting, panelBusy, tgTestPending, tests, clock,
                 lastGood, presses, saveFaults, lost, overwritten>>

NoTest == [at |-> "none"]

\* The page has loaded the settings; Telegram is connected or not.
Init ==
  /\ \E v \in {0, 1} : kept = [k \in SettingKeys |-> IF k = "panel" THEN 1 ELSE v]
  /\ copy = kept
  /\ sends = <<>> /\ connecting = "no" /\ panelBusy = FALSE
  /\ tgTestPending = FALSE /\ tests = [t \in Presses |-> NoTest]
  /\ clock = 0 /\ lastGood = 0
  /\ presses = 0 /\ saveFaults = 0 /\ lost = {} /\ overwritten = {}

Press == presses < MaxPresses /\ presses' = presses + 1

TgConnected == copy["tg_token"] = 1 /\ copy["tg_chat"] = 1

\* A call of setSetting: the page's copy at the click is what a stale closure would know.
Sent(k, v, by) == [key |-> k, value |-> v, by |-> by, at |-> "asked", seen |-> copy]

(***************************************************************************)
(* Saving.                                                                 *)
(***************************************************************************)
\* toggleTelegramEnabled, toggleEvent, the fields of quiet hours, digest and threat
\* response: the box holds the copy, so a click asks for its opposite.
ToggleSetting ==
  /\ Press
  /\ sends' = Append(sends, Sent("tg_on", 1 - copy["tg_on"], "box"))
  /\ UNCHANGED <<kept, copy, connecting, panelBusy, tgTestPending, tests, clock, lastGood,
                 saveFaults, lost, overwritten>>

\* connectTelegram asks Telegram first; the button is disabled meanwhile.
ConnectTelegram ==
  /\ Press /\ ~TgConnected /\ connecting = "no"
  /\ connecting' = "testing"
  /\ UNCHANGED <<kept, copy, sends, panelBusy, tgTestPending, tests, clock, lastGood,
                 saveFaults, lost, overwritten>>

\* The answer of testTelegram: the first of three saves, one after the other.
TelegramTested(ok) ==
  /\ connecting = "testing"
  /\ connecting' = IF ok THEN "tg_token" ELSE "no"
  /\ sends' = IF ok THEN Append(sends, Sent("tg_token", 1, "connect")) ELSE sends
  /\ UNCHANGED <<kept, copy, panelBusy, tgTestPending, tests, clock, lastGood, presses,
                 saveFaults, lost, overwritten>>

\* Disconnect sends its three saves at once.
Disconnect ==
  /\ Press /\ TgConnected
  /\ sends' = sends \o <<Sent("tg_token", 0, "box"), Sent("tg_chat", 0, "box"),
                         Sent("tg_on", 0, "box")>>
  /\ UNCHANGED <<kept, copy, connecting, panelBusy, tgTestPending, tests, clock, lastGood,
                 saveFaults, lost, overwritten>>

\* toggle of NasPanelToggleSection.
TogglePanel ==
  /\ Press /\ ~panelBusy /\ panelBusy' = TRUE
  /\ sends' = Append(sends, Sent("panel", 1 - copy["panel"], "panel"))
  /\ UNCHANGED <<kept, copy, connecting, tgTestPending, tests, clock, lastGood, saveFaults,
                 lost, overwritten>>

\* api:setSetting in the main process: the oldest call that is not handled yet.
Unhandled == {i \in DOMAIN sends : sends[i].at = "asked"}

HandleSave(ok) ==
  \E i \in Unhandled :
    /\ \A j \in Unhandled : i <= j
    /\ ok \/ saveFaults < MaxSaveFaults
    /\ saveFaults' = IF ok THEN saveFaults ELSE saveFaults + 1
    /\ kept' = IF ok THEN [kept EXCEPT ![sends[i].key] = sends[i].value] ELSE kept
    /\ lost' = IF ok THEN lost \ {sends[i].key} ELSE lost \cup {sends[i].key}
    /\ overwritten' = IF ok THEN overwritten \ {sends[i].key} ELSE overwritten
    /\ sends' = [sends EXCEPT ![i].at = IF ok THEN "success" ELSE "error"]
    /\ UNCHANGED <<copy, connecting, panelBusy, tgTestPending, tests, clock, lastGood, presses>>

\* A step of the wizard is left: its setSetting of a key, which the page is not told of.
WizardStores(k, v) ==
  /\ Press
  /\ kept' = [kept EXCEPT ![k] = v] /\ overwritten' = overwritten \cup {k}
  /\ UNCHANGED <<copy, sends, connecting, panelBusy, tgTestPending, tests, clock, lastGood,
                 saveFaults, lost>>

\* setSettings(s => ({...s, [key]: value})), whatever the result.
Spread(s) == [copy EXCEPT ![s.key] = s.value]

\* The switch moves on success only.
PanelOf(s) == IF s.at = "success" THEN Spread(s) ELSE copy

AfterSave == [tg_token |-> "tg_chat", tg_chat |-> "tg_on", tg_on |-> "no"]

\* The answer arrives; connectTelegram goes on with its next key.
SaveAnswered ==
  /\ sends # <<>> /\ Head(sends).at # "asked"
  /\ LET s == Head(sends) IN
     /\ copy' = IF s.by = "panel" THEN PanelOf(s) ELSE Spread(s)
     /\ panelBusy' = (panelBusy /\ s.by # "panel")
     /\ connecting' = IF s.by = "connect" THEN AfterSave[s.key] ELSE connecting
     /\ sends' = IF s.by = "connect" /\ s.key # "tg_on"
                 THEN Append(Tail(sends), Sent(AfterSave[s.key], 1, "connect"))
                 ELSE Tail(sends)
  /\ UNCHANGED <<kept, tgTestPending, tests, clock, lastGood, presses, saveFaults, lost,
                 overwritten>>

(***************************************************************************)
(* "Test with Buttons".                                                    *)
(***************************************************************************)
\* sendTestFull: the button is disabled while a test is pending.
SendTestFull ==
  /\ Press /\ TgConnected /\ ~tgTestPending /\ tgTestPending' = TRUE
  /\ tests' = [tests EXCEPT ![presses'] = [at |-> "sending"]]
  /\ UNCHANGED <<kept, copy, sends, connecting, panelBusy, clock, lastGood, saveFaults, lost,
                 overwritten>>

\* api:sendTelegramTestFull answers with the time of sending, or an error.
TestSent(t, ok) ==
  /\ tests[t].at = "sending"
  /\ tgTestPending' = ok
  /\ clock' = IF ok THEN clock + 1 ELSE clock
  /\ tests' = [tests EXCEPT ![t] = IF ok THEN [at |-> "polling", sentAt |-> clock', polls |-> <<>>,
                                               verified |-> FALSE]
                                   ELSE NoTest]
  /\ UNCHANGED <<kept, copy, sends, connecting, panelBusy, lastGood, presses, saveFaults, lost,
                 overwritten>>

\* "Received" is tapped under any of the messages sent so far; main.ts notes the time.
TapReceived ==
  /\ clock > 0 /\ lastGood < clock
  /\ clock' = clock + 1 /\ lastGood' = clock'
  /\ UNCHANGED <<kept, copy, sends, connecting, panelBusy, tgTestPending, tests, presses,
                 saveFaults, lost, overwritten>>

\* The interval asks every 3 s whether an answer is on its way or not.
Poll(t) ==
  /\ tests[t].at = "polling" /\ Len(tests[t].polls) < MaxPolls
  /\ tests' = [tests EXCEPT ![t].polls = Append(@, lastGood)]
  /\ UNCHANGED <<kept, copy, sends, connecting, panelBusy, tgTestPending, clock, lastGood,
                 presses, saveFaults, lost, overwritten>>

Confirmed(t, ts) == ts > tests[t].sentAt

\* A poll is answered, in time or after the deadline: both may end the test, and a late
\* answer of a test that is over ends the one that is pending now.
PollAnswered(t, late) ==
  /\ tests[t].at \in {"polling", "over"} /\ tests[t].polls # <<>>
  /\ LET ok == Confirmed(t, Head(tests[t].polls))
         ends == ok \/ late
     IN /\ tests' = [tests EXCEPT ![t].polls = Tail(@),
                                  ![t].at = IF ends THEN "over" ELSE @,
                                  ![t].verified = @ \/ ok]
        /\ tgTestPending' = (tgTestPending /\ ~ends)
  /\ UNCHANGED <<kept, copy, sends, connecting, panelBusy, clock, lastGood, presses,
                 saveFaults, lost, overwritten>>

Next ==
  \/ ToggleSetting \/ ConnectTelegram \/ Disconnect \/ TogglePanel \/ SendTestFull
  \/ SaveAnswered \/ TapReceived
  \/ \E k \in SettingKeys, v \in {0, 1} : WizardStores(k, v)
  \/ \E ok \in BOOLEAN : TelegramTested(ok) \/ HandleSave(ok)
  \/ \E t \in Presses :
       \/ Poll(t)
       \/ \E b \in BOOLEAN : TestSent(t, b) \/ PollAnswered(t, b)

Spec == Init /\ [][Next]_settingVars

(***************************************************************************)
(* Properties.                                                             *)
(***************************************************************************)
\* Once every save is answered the page shows what is stored, however the saves of
\* several boxes and of Telegram overlapped: of every key whose last save did not fail, and
\* of the NAS panel whether it failed or not; but not of a key that the wizard has stored
\* since, until the page saves it again or is left.
Vouched(k) == k \notin overwritten /\ (k \notin lost \/ k = "panel")
ShownIsStored ==
  sends = <<>> => \A k \in SettingKeys : Vouched(k) => copy[k] = kept[k]

\* "Telegram verified" is said of a test only if "Received" was tapped after its message
\* was sent.
VerifiedIsTapped ==
  \A t \in Presses :
    tests[t].at \in {"polling", "over"} => (tests[t].verified => lastGood > tests[t].sentAt)

(***************************************************************************)
(* Inductive invariant.                                                    *)
(***************************************************************************)
SettingTable == [SettingKeys -> {0, 1}]
SendType ==
  [key : SettingKeys, value : {0, 1}, by : {"box", "connect", "panel"},
   at : {"asked", "success", "error"}, seen : SettingTable]
TestType ==
  {NoTest, [at |-> "sending"]}
    \cup [at : {"polling", "over"}, sentAt : Nat, polls : Seq(Nat), verified : BOOLEAN]

TypeOK ==
  /\ kept \in SettingTable /\ copy \in SettingTable
  /\ sends \in Seq(SendType)
  /\ connecting \in SettingKeys \cup {"no", "testing"}
  /\ panelBusy \in BOOLEAN /\ tgTestPending \in BOOLEAN
  /\ tests \in [Presses -> TestType]
  /\ clock \in Nat /\ lastGood \in Nat
  /\ presses \in Nat /\ saveFaults \in Nat
  /\ lost \subseteq SettingKeys /\ overwritten \subseteq SettingKeys

\* Calls are handled in the order they were made; the panel's are the panel's own.
HandledInOrder ==
  /\ \A i, j \in DOMAIN sends : i < j /\ sends[j].at # "asked" => sends[i].at # "asked"
  /\ \A i \in DOMAIN sends : sends[i].by = "panel" <=> sends[i].key = "panel"

\* The answers on their way that will change what the page shows of a key.
Telling(k) ==
  {i \in DOMAIN sends : /\ sends[i].key = k /\ sends[i].at # "asked"
                        /\ k = "panel" => sends[i].at = "success"}

\* What is stored under a key is what the last of them says, or is shown already.
CopyFollows ==
  \A k \in SettingKeys : Vouched(k) =>
    /\ Telling(k) = {} => copy[k] = kept[k]
    /\ \A i \in Telling(k) : (\A j \in Telling(k) : j <= i) => sends[i].value = kept[k]

\* A poll brings a tap that there has been.
PollsAreTrue ==
  \A t \in Presses :
    tests[t].at \in {"polling", "over"} =>
      \A i \in DOMAIN tests[t].polls : tests[t].polls[i] <= lastGood

SettingInv == TypeOK /\ HandledInOrder /\ CopyFollows /\ PollsAreTrue /\ VerifiedIsTapped
=============================================================================
