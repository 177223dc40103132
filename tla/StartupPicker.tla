---------------------------- MODULE StartupPicker ----------------------------
(***************************************************************************)
(* The dialog "Disable startup items" (StartupPickerModal.tsx) and            *)
(* startupConfig.ts behind its settings.  What it disables cannot be enabled  *)
(* again by the program, so the boxes it ticks by itself matter.             *)
(*                                                                          *)
(* A scan may change the items while the dialog is open; the stored settings   *)
(* arrive after it opens, over whatever the user has starred by then.  The     *)
(* handlers are synchronous, so what a call reads or writes belongs to the     *)
(* click.  The threshold is left out: the allowlist stands for both settings.  *)
(***************************************************************************)
EXTENDS FiniteSets, Integers

CONSTANTS
  Items,       \* startup entries, by kind and name
  Protected,   \* those that match $essentialRegex of the scanner
  MaxTouches,  \* bound on the user's clicks
  MaxScans     \* bound on scans while the user looks

VARIABLES
  autostart,    \* entries of the machine that start with Windows
  listedItems,  \* items of the status: what the last scan saw
  picker,       \* the dialog is open
  picks,        \* picks: the rows that are ticked
  stars,        \* allowlist of the dialog
  allowed,      \* the setting startup_allowlist
  config,       \* the answer of getStartupConfig on its way, or nothing
  savingStars,  \* saving
  ticked,       \* history: rows whose box the user has touched in this dialog
  starred,      \* history: stars the user has touched in this dialog
  configCame,   \* history: the settings have arrived, and are still those they were
  touches, scans

pickerVars == <<autostart, listedItems, picker, picks, stars, allowed,
                config, savingStars, ticked, starred, configCame, touches, scans>>

Init ==
  /\ autostart = Items /\ listedItems \in SUBSET Items
  /\ picker = FALSE /\ picks = {} /\ stars = {}
  /\ allowed \in SUBSET Items
  /\ config = {} /\ savingStars = FALSE
  /\ ticked = {} /\ starred = {} /\ configCame = FALSE
  /\ touches = 0 /\ scans = 0

Touch == touches < MaxTouches /\ touches' = touches + 1

\* initialPicks: every entry but the protected ones.
Picked(rows) == rows \ Protected

\* The Fix of a card or of its detail opens the dialog; the stars are the flags allowlisted
\* of the last scan, which knew the allowlist of its time.
OpenPicker ==
  /\ ~picker /\ Touch /\ picker' = TRUE
  /\ picks' = Picked(listedItems)
  /\ stars' \in SUBSET listedItems
  /\ config' = {allowed} /\ savingStars' = FALSE
  /\ ticked' = {} /\ starred' = {} /\ configCame' = FALSE
  /\ UNCHANGED <<autostart, listedItems, allowed, scans>>

\* The stored settings replace the stars; an answer for a dialog that is closed is dropped.
ConfigArrives(ok) ==
  /\ config # {} /\ config' = {}
  /\ stars' = IF ok THEN UNION config ELSE stars
  /\ starred' = IF ok THEN {} ELSE starred
  /\ configCame' = (ok /\ config = {allowed})
  /\ UNCHANGED <<autostart, listedItems, picker, picks, allowed, savingStars,
                 ticked, touches, scans>>

\* A scan: entries come and go, and the dialog's rows with them; its boxes stay.
Scan ==
  /\ scans < MaxScans /\ scans' = scans + 1
  /\ \E installed \in SUBSET (Items \ autostart) : autostart' = autostart \cup installed
  /\ listedItems' = autostart'
  /\ UNCHANGED <<picker, picks, stars, allowed, config, savingStars, ticked,
                 starred, configCame, touches>>

Flip(S, i) == IF i \in S THEN S \ {i} ELSE S \cup {i}

TogglePick(i) ==
  /\ picker /\ i \in listedItems /\ Touch
  /\ picks' = Flip(picks, i) /\ ticked' = ticked \cup {i}
  /\ UNCHANGED <<autostart, listedItems, picker, stars, allowed, config,
                 savingStars, starred, configCame, scans>>

ToggleStar(i) ==
  /\ picker /\ i \in listedItems /\ Touch
  /\ stars' = Flip(stars, i) /\ starred' = starred \cup {i}
  /\ UNCHANGED <<autostart, listedItems, picker, picks, allowed, config,
                 savingStars, ticked, configCame, scans>>

\* writeStartupConfig, or its error.  (The mirror startup.json is written as nas.json is,
\* see NasSettings.)
Stored(ok) == IF ok THEN stars ELSE allowed

SaveStars(ok) ==
  /\ picker /\ ~savingStars /\ Touch /\ savingStars' = TRUE
  /\ allowed' = Stored(ok)
  /\ UNCHANGED <<autostart, listedItems, picker, picks, stars, config, ticked, starred,
                 configCame, scans>>

StarsSaved ==
  /\ savingStars /\ savingStars' = FALSE
  /\ UNCHANGED <<autostart, listedItems, picker, picks, stars, allowed, config,
                 ticked, starred, configCame, touches, scans>>

\* Cancel, or a click beside the dialog.
ClosePicker ==
  /\ picker /\ picker' = FALSE /\ config' = {}
  /\ UNCHANGED <<autostart, listedItems, picks, stars, allowed, savingStars,
                 ticked, starred, configCame, touches, scans>>

\* Disable Selected: the rows of this moment that are ticked; it closes the dialog.
Selected == listedItems \cap picks

DisableSelected ==
  /\ picker /\ Selected # {} /\ Touch
  /\ picker' = FALSE /\ config' = {}
  /\ autostart' = autostart \ Selected
  /\ UNCHANGED <<listedItems, picks, stars, allowed, savingStars, ticked,
                 starred, configCame, scans>>

Next ==
  \/ OpenPicker \/ Scan \/ StarsSaved \/ ClosePicker \/ DisableSelected
  \/ \E ok \in BOOLEAN : ConfigArrives(ok) \/ SaveStars(ok)
  \/ \E i \in Items : TogglePick(i) \/ ToggleStar(i)

Spec == Init /\ [][Next]_pickerVars

(***************************************************************************)
(* Properties.                                                             *)
(***************************************************************************)
\* What the dialog disables for good is never a protected entry, whatever scans change while
\* it is open, unless the user ticked that very row.
ProtectedStays ==
  [][\A i \in autostart \ autostart' : i \in Protected => i \in ticked]_pickerVars

\* Once the settings have arrived, a save drops from the allowlist nothing that the user has
\* not unstarred, entries that the scan no longer sees included.
AllowlistIsKept == [][configCame => allowed \ allowed' \subseteq starred]_pickerVars

(***************************************************************************)
(* Inductive invariant.                                                    *)
(***************************************************************************)
TypeOK ==
  /\ {autostart, listedItems, picks, stars, allowed, ticked, starred} \subseteq SUBSET Items
  /\ config \subseteq SUBSET Items
  /\ {picker, savingStars, configCame} \subseteq BOOLEAN
  /\ touches \in Nat /\ scans \in Nat

\* A protected row is ticked only if the user did it, and a star of the settings is missing
\* only if the user took it away.
ProtectedAreTicked == picks \cap Protected \subseteq ticked
MissingAreUnstarred == configCame => allowed \ stars \subseteq starred

PickerInv == TypeOK /\ ProtectedAreTicked /\ MissingAreUnstarred
=============================================================================
