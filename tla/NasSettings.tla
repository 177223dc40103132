----------------------------- MODULE NasSettings -----------------------------
(***************************************************************************)
(* "NAS / SMB Mappings" of Settings.tsx with NasMappingEditor.tsx, and         *)
(* nasConfig.ts: two settings in the database, and a mirror nas.json that the  *)
(* scanner and Remap-NAS.ps1 read.  The mirror is written after the settings,  *)
(* and again at every launch; a failed write is reported to nobody.            *)
(*                                                                          *)
(* The setup wizard, laid over the mounted page, stores the same settings with  *)
(* the same call when its step W3NetworkNas.tsx is left: its drives are free     *)
(* text and two rows may name one drive.  The page is not told.                *)
(*                                                                          *)
(* A host is 0 (empty), 1 (a hostname) or 2 (characters that writeNasConfig    *)
(* refuses).  The handlers are synchronous and answer in their order, so what  *)
(* a call does belongs to the click.                                        *)
(***************************************************************************)
EXTENDS Integers, Sequences, FiniteSets

CONSTANTS
  Drives,        \* drive letters
  MaxRows,       \* bound on the rows of the editor
  MaxNasClicks,  \* bound on edits and clicks
  MaxNasFaults   \* bound on failed writes

Shares == {"", "s"}
RowSet == [drive : Drives, share : Shares]
Mappings == UNION {[1..n -> RowSet] : n \in 0..MaxRows}
Hosts == 0..2

VARIABLES
  host, rowsOf,   \* nasServer and nasMappings of the page
  nasDirty,       \* nasDirty
  nasAnswers,     \* answers to saves and reverts on their way
  nasStored,      \* the settings nas_server and nas_mappings
  mirror,         \* nas.json
  amiss,          \* history: the last save or mirror write failed half-way
  crossed,        \* history: the user edited or clicked while an answer was on its way
  wizardRows,     \* history: the wizard stored the mappings that are stored
  outdated,       \* history: the wizard stored since the page last saved, reverted or loaded
  nasClicks, nasFaults

nasVars == <<host, rowsOf, nasDirty, nasAnswers, nasStored, mirror, amiss, crossed,
             wizardRows, outdated, nasClicks, nasFaults>>

Nothing == [host |-> 0, rows |-> <<>>]

\* A fresh install, whose page has loaded.
Init ==
  /\ host = 0 /\ rowsOf = <<>> /\ nasDirty = FALSE
  /\ nasAnswers = <<>> /\ nasStored = Nothing /\ mirror = Nothing
  /\ amiss = FALSE /\ crossed = FALSE /\ wizardRows = FALSE /\ outdated = FALSE
  /\ nasClicks = 0 /\ nasFaults = 0

Click == nasClicks < MaxNasClicks /\ nasClicks' = nasClicks + 1

(***************************************************************************)
(* The page.                                                               *)
(***************************************************************************)
NasEdit(h, rows) ==
  /\ Click /\ host' = h /\ rowsOf' = rows /\ nasDirty' = TRUE
  /\ crossed' = (crossed \/ nasAnswers # <<>>)
  /\ UNCHANGED <<nasAnswers, nasStored, mirror, amiss, wizardRows, outdated, nasFaults>>

EditHost == \E h \in Hosts \ {host} : NasEdit(h, rowsOf)

\* addRow: the first drive that is not taken, or the last one if all are.
FirstFree == LET free == {d \in Drives : \A i \in DOMAIN rowsOf : rowsOf[i].drive # d}
             IN IF free = {} THEN Drives ELSE free
AddRow ==
  /\ Len(rowsOf) < MaxRows
  /\ \E d \in FirstFree : NasEdit(host, Append(rowsOf, [drive |-> d, share |-> ""]))

\* updateRow: the drop-down offers the drives no other row has.
UpdateRow(i) ==
  \E r \in RowSet :
    /\ r.drive = rowsOf[i].drive \/ \A j \in DOMAIN rowsOf : rowsOf[j].drive # r.drive
    /\ r # rowsOf[i]
    /\ NasEdit(host, [rowsOf EXCEPT ![i] = r])

RemoveRow(i) ==
  NasEdit(host, [j \in 1..(Len(rowsOf) - 1) |-> IF j < i THEN rowsOf[j] ELSE rowsOf[j + 1]])

\* applyRaw takes any array of drives and shares, two rows for one drive included.
ApplyRaw == \E rows \in Mappings : NasEdit(host, rows)

\* validateDrive and validateShare of every row.
EditorValid(rows) ==
  /\ rows # <<>>
  /\ \A i \in DOMAIN rows : rows[i].share # ""
  /\ \A i, j \in DOMAIN rows : rows[i].drive = rows[j].drive => i = j

(***************************************************************************)
(* The calls.                                                              *)
(***************************************************************************)
Crossing == crossed' = (nasAnswers # <<>>)

RevertNas ==
  /\ Click /\ Crossing /\ outdated' = FALSE
  /\ nasAnswers' = Append(nasAnswers, [is |-> "revert", ok |-> TRUE, now |-> nasStored])
  /\ UNCHANGED <<host, rowsOf, nasDirty, nasStored, mirror, amiss, wizardRows, nasFaults>>

\* writeNasConfig: a bad host, or a drive that is no letter, is refused; the second setting
\* may fail after the first is written, and then the mirror is not reached; the mirror is
\* what both settings read back are, and its write may fail in silence.
Outcomes == {"done", "refused", "halfway", "unmirrored"}
Accepted == {"done", "unmirrored"}

WriteNasConfig(new, outcome) ==
  /\ new.host = 2 => outcome = "refused"
  /\ IF outcome \in {"done", "refused"} THEN UNCHANGED nasFaults
     ELSE nasFaults < MaxNasFaults /\ nasFaults' = nasFaults + 1
  /\ nasStored' = CASE outcome = "refused" -> nasStored
                    [] outcome = "halfway" -> [nasStored EXCEPT !.host = new.host]
                    [] OTHER -> new
  /\ mirror' = IF outcome = "done" THEN new ELSE mirror
  /\ amiss' = IF outcome = "refused" THEN amiss ELSE outcome # "done"

\* saveNasConfig, behind a button that is enabled for valid edits only.
SaveNas(outcome) ==
  /\ Click /\ Crossing
  /\ nasDirty /\ EditorValid(rowsOf) /\ host # 0
  /\ outcome = "refused" => host = 2
  /\ WriteNasConfig([host |-> host, rows |-> rowsOf], outcome)
  /\ wizardRows' = (wizardRows /\ outcome \notin Accepted)
  /\ outdated' = (outdated /\ outcome \notin Accepted)
  /\ nasAnswers' = Append(nasAnswers, [is |-> "save", ok |-> outcome \in Accepted,
                                       now |-> nasStored'])
  /\ UNCHANGED <<host, rowsOf, nasDirty>>

\* saveConfig of the wizard's step: rows without a share are left out, others are not
\* compared with each other.
WizardSavesNas(h, rows, outcome) ==
  /\ Click
  /\ h # 0 /\ \A i \in DOMAIN rows : rows[i].share # ""
  /\ WriteNasConfig([host |-> h, rows |-> rows], outcome)
  /\ wizardRows' = (wizardRows \/ outcome \in Accepted)
  /\ outdated' = (outdated \/ outcome # "refused")
  /\ UNCHANGED <<host, rowsOf, nasDirty, nasAnswers, crossed>>

\* Only a success makes the page clean.
DirtyAfter(a) == nasDirty /\ ~a.ok

NasAnswered ==
  /\ nasAnswers # <<>>
  /\ LET a == Head(nasAnswers) IN
     /\ nasDirty' = DirtyAfter(a)
     /\ IF a.is = "revert" THEN host' = a.now.host /\ rowsOf' = a.now.rows
                           ELSE UNCHANGED <<host, rowsOf>>
  /\ nasAnswers' = Tail(nasAnswers)
  /\ UNCHANGED <<nasStored, mirror, amiss, crossed, wizardRows, outdated, nasClicks, nasFaults>>

\* A launch writes the mirror again, if it can, and the page is loaded anew.
NasLaunch ==
  /\ Click
  /\ \/ mirror' = nasStored /\ amiss' = FALSE
     \/ UNCHANGED <<mirror, amiss>>
  /\ host' = nasStored.host /\ rowsOf' = nasStored.rows /\ nasDirty' = FALSE
  /\ nasAnswers' = <<>> /\ crossed' = FALSE /\ outdated' = FALSE
  /\ UNCHANGED <<nasStored, wizardRows, nasFaults>>

Next ==
  \/ EditHost \/ AddRow \/ ApplyRaw \/ RevertNas \/ NasAnswered \/ NasLaunch
  \/ \E i \in DOMAIN rowsOf : UpdateRow(i) \/ RemoveRow(i)
  \/ \E outcome \in Outcomes :
       \/ SaveNas(outcome)
       \/ \E h \in Hosts, rows \in Mappings : WizardSavesNas(h, rows, outcome)

Spec == Init /\ [][Next]_nasVars

(***************************************************************************)
(* Properties.                                                             *)
(***************************************************************************)
\* No drive is mapped twice in the settings, though the main process does not look at that
\* and the raw JSON of the editor allows it; unless the wizard stored the mappings, whose
\* fields allow it too.
OneShareOfADrive ==
  wizardRows \/ \A i, j \in DOMAIN nasStored.rows : nasStored.rows[i].drive = nasStored.rows[j].drive => i = j

\* The scanner's copy is what is stored, by whichever of the two, unless a write failed and
\* neither a save nor a launch came since.
MirrorIsStored == amiss \/ mirror = nasStored

\* A page whose Save is disabled because it is clean shows what is stored, unless a save
\* failed half-way, the user edited or clicked while an answer was on its way, or the wizard
\* has stored since the page last saved, reverted or was loaded.
CleanIsStored ==
  nasAnswers = <<>> /\ ~nasDirty /\ ~crossed /\ ~amiss /\ ~outdated =>
    host = nasStored.host /\ rowsOf = nasStored.rows

(***************************************************************************)
(* Inductive invariant.                                                    *)
(***************************************************************************)
NasType == [host : Hosts, rows : Seq(RowSet)]
AnswerType == [is : {"save", "revert"}, ok : BOOLEAN, now : NasType]

TypeOK ==
  /\ host \in Hosts /\ rowsOf \in Seq(RowSet) /\ nasDirty \in BOOLEAN
  /\ nasAnswers \in Seq(AnswerType)
  /\ nasStored \in NasType /\ mirror \in NasType
  /\ amiss \in BOOLEAN /\ crossed \in BOOLEAN
  /\ wizardRows \in BOOLEAN /\ outdated \in BOOLEAN
  /\ nasClicks \in Nat /\ nasFaults \in Nat

PageIs(n) == host = n.host /\ rowsOf = n.rows

\* An answer that nothing has crossed is alone, and brings what is stored to the page or
\* finds it there; unless it is a failure, which leaves the page dirty.
AnswerIsCurrent ==
  ~crossed /\ ~amiss /\ ~outdated /\ nasAnswers # <<>> =>
    /\ Len(nasAnswers) = 1
    /\ LET a == Head(nasAnswers) IN
         IF a.is = "revert" THEN a.ok /\ a.now = nasStored
         ELSE IF a.ok THEN PageIs(nasStored) ELSE nasDirty

NasInv ==
  TypeOK /\ OneShareOfADrive /\ MirrorIsStored /\ CleanIsStored /\ AnswerIsCurrent
=============================================================================
