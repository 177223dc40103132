---------------------------- MODULE ServicePages ----------------------------
(***************************************************************************)
(* The Services page and the Undo Center of the renderer: Services.tsx,     *)
(* ServiceConfirmDialog.tsx, ServiceUndoToast.tsx and UndoCenter.tsx, with   *)
(* the handlers of ipc.ts they call.  The main process answers a call with   *)
(* success or an error; ServiceUndo.tla says what it does meanwhile.        *)
(*                                                                          *)
(* One page is mounted at a time.  Leaving it forgets its state, and React   *)
(* drops what is answered to it afterwards.                                 *)
(***************************************************************************)
EXTENDS Integers, FiniteSets

CONSTANTS
  Services,     \* the services of the list
  LoadBearing,  \* those whose dialog has the box "I understand"
  MaxCalls      \* bound on the mutations

Calls == 1..MaxCalls

VARIABLES
  page,     \* which page is mounted
  loading,  \* the list of the page is asked for
  dialog,   \* pending: the confirmation dialog
  dryRuns,  \* previews asked for and not yet answered
  busy,     \* busyKey of Services, busyId of UndoCenter, or nothing
  calls,    \* the mutations, and who waits for the answer of each
  toast,    \* the toast, and the state of its component
  closing,  \* timers that will dismiss whatever toast there is
  rows,     \* the rows of the Undo Center
  undos,    \* undo calls that are not answered yet: the mutation, and who waits
  undone    \* the mutations whose undo succeeded

vars == <<page, loading, dialog, dryRuns, busy, calls, toast, closing, rows,
          undos, undone>>

None == [is |-> "none"]
NoCall == [service |-> "none", state |-> "new"]

Init ==
  /\ page = "services"
  /\ loading = TRUE
  /\ dialog = None
  /\ dryRuns = {}
  /\ busy = {}
  /\ calls = [c \in Calls |-> NoCall]
  /\ toast = None
  /\ closing = 0
  /\ rows = {}
  /\ undos = {}
  /\ undone = {}

(***************************************************************************)
(* The list.                                                               *)
(***************************************************************************)
\* The sidebar mounts the other page.  Mutations and undos go on unattended.
Navigate ==
  /\ page' = IF page = "services" THEN "undo" ELSE "services"
  /\ loading' = TRUE
  /\ dialog' = None /\ dryRuns' = {} /\ busy' = {} /\ toast' = None /\ closing' = 0
  /\ rows' = {}
  /\ calls' = [c \in Calls |-> IF calls[c].state = "asked"
                               THEN [calls[c] EXCEPT !.state = "left"] ELSE calls[c]]
  /\ undos' = {[u EXCEPT !.by = "left"] : u \in undos}
  /\ UNCHANGED undone

\* The button is disabled while a list is on its way.
Refresh ==
  /\ ~loading /\ loading' = TRUE
  /\ UNCHANGED <<page, dialog, dryRuns, busy, calls, toast, closing, rows, undos, undone>>

Undoable == {c \in Calls : calls[c].state = "success"} \ undone

\* The list arrives, or an error that leaves the old one.
Listed ==
  /\ loading /\ loading' = FALSE
  /\ \/ UNCHANGED rows
     \/ page = "undo" /\ rows' = Undoable
  /\ UNCHANGED <<page, dialog, dryRuns, busy, calls, toast, closing, undos, undone>>

(***************************************************************************)
(* A mutation: dry run, dialog, call.                                      *)
(***************************************************************************)
\* openConfirm, from a button of a row that is not busy: the dialog opens before its
\* preview is there.  (Which of the buttons is enabled depends on what the row shows.)
OpenConfirm(s) ==
  /\ page = "services" /\ dialog = None /\ s \notin busy
  /\ dialog' = [is |-> s, preview |-> {}, understood |-> FALSE]
  /\ dryRuns' = dryRuns \cup {s}
  /\ UNCHANGED <<page, loading, busy, calls, toast, closing, rows, undos, undone>>

\* A preview arrives: it goes into the dialog that is open now, whosever it is, and an
\* error closes that dialog.
PreviewArrives(s) ==
  /\ s \in dryRuns /\ dryRuns' = dryRuns \ {s}
  /\ \/ dialog' = IF dialog = None THEN None ELSE [dialog EXCEPT !.preview = {s}]
     \/ dialog' = None
  /\ UNCHANGED <<page, loading, busy, calls, toast, closing, rows, undos, undone>>

Understand ==
  /\ dialog # None /\ dialog.is \in LoadBearing /\ ~dialog.understood
  /\ dialog' = [dialog EXCEPT !.understood = TRUE]
  /\ UNCHANGED <<page, loading, dryRuns, busy, calls, toast, closing, rows, undos, undone>>

Cancel ==
  /\ dialog # None /\ dialog' = None
  /\ UNCHANGED <<page, loading, dryRuns, busy, calls, toast, closing, rows, undos, undone>>

\* canConfirm does not ask for the preview.
CanConfirm == dialog.is \in LoadBearing => dialog.understood

\* handleConfirm up to its await.
Confirm ==
  /\ dialog # None /\ CanConfirm
  /\ busy' = {dialog.is}
  /\ dialog' = None
  /\ \E c \in Calls :
       /\ calls[c] = NoCall /\ \A b \in Calls : b < c => calls[b] # NoCall
       /\ calls' = [calls EXCEPT ![c] = [service |-> dialog.is, state |-> "asked"]]
  /\ UNCHANGED <<page, loading, dryRuns, toast, closing, rows, undos, undone>>

\* setToast: a toast that is there keeps the state of its component.
Toasted(c) ==
  IF toast = None THEN [is |-> c, undoing |-> 0, done |-> FALSE] ELSE [toast EXCEPT !.is = c]

\* Mutant: an error leaves by an early return, in front of the reset.
BusyAfter(ok) == IF ok THEN {} ELSE busy

\* The finally block of handleConfirm and of handleUndo: the one busy slot is cleared,
\* whoever is in it.
BusyCleared(ok) == {}

\* The call of the page is answered: the toast, and the finally block.
CallAnswers(c, ok) ==
  /\ calls[c].state = "asked"
  /\ calls' = [calls EXCEPT ![c].state = IF ok THEN "success" ELSE "error"]
  /\ toast' = IF ok THEN Toasted(c) ELSE toast
  /\ busy' = BusyCleared(ok)
  /\ UNCHANGED <<page, loading, dialog, dryRuns, closing, rows, undos, undone>>

\* A call whose page was left is answered to nobody.
LeftCallAnswers(c, ok) ==
  /\ calls[c].state = "left"
  /\ calls' = [calls EXCEPT ![c].state = IF ok THEN "success" ELSE "error"]
  /\ UNCHANGED <<page, loading, dialog, dryRuns, busy, toast, closing, rows, undos, undone>>

(***************************************************************************)
(* Undo.                                                                   *)
(***************************************************************************)
\* The Undo button of the toast, disabled while its component is undoing.
ToastUndo ==
  /\ toast # None /\ toast.undoing = 0 /\ ~toast.done
  /\ toast' = [toast EXCEPT !.undoing = toast.is]
  /\ undos' = undos \cup {[call |-> toast.is, by |-> "toast"]}
  /\ UNCHANGED <<page, loading, dialog, dryRuns, busy, calls, closing, rows, undone>>

\* handleUndo of Services throws the error of its call.
Resolves(ok) == ok

\* The undo of the toast is answered.  After a success the component says "Reverted" and
\* sets a timer; after an error it dismisses itself, and nobody shows the error.
ToastUndoAnswers(u, ok) ==
  /\ u \in undos /\ u.by = "toast" /\ undos' = undos \ {u}
  /\ ok => u.call \in Undoable
  /\ undone' = IF ok THEN undone \cup {u.call} ELSE undone
  /\ IF Resolves(ok)
     THEN /\ toast' = IF toast = None \/ toast.undoing # u.call THEN toast
                      ELSE [toast EXCEPT !.done = TRUE]
          /\ closing' = closing + 1
     ELSE toast' = None /\ UNCHANGED closing
  /\ UNCHANGED <<page, loading, dialog, dryRuns, busy, calls, rows>>

\* The 8 s timer, which does not run while undoing or done.
ToastExpires ==
  /\ toast # None /\ toast.undoing = 0 /\ ~toast.done
  /\ toast' = None
  /\ UNCHANGED <<page, loading, dialog, dryRuns, busy, calls, closing, rows, undos, undone>>

\* The timer of an undo dismisses the toast that is there, its own or a later one.
ToastCloses ==
  /\ closing > 0 /\ closing' = closing - 1
  /\ toast' = None
  /\ UNCHANGED <<page, loading, dialog, dryRuns, busy, calls, rows, undos, undone>>

Dismiss ==
  /\ toast # None /\ toast' = None
  /\ UNCHANGED <<page, loading, dialog, dryRuns, busy, calls, closing, rows, undos, undone>>

\* The Undo button of a row of the Undo Center; one busy slot for all rows.
CenterUndo(c) ==
  /\ page = "undo" /\ c \in rows /\ c \notin busy
  /\ busy' = {c}
  /\ undos' = undos \cup {[call |-> c, by |-> "center"]}
  /\ UNCHANGED <<page, loading, dialog, dryRuns, calls, toast, closing, rows, undone>>

CenterUndoAnswers(u, ok) ==
  /\ u \in undos /\ u.by = "center" /\ undos' = undos \ {u}
  /\ ok => u.call \in Undoable
  /\ undone' = IF ok THEN undone \cup {u.call} ELSE undone
  /\ rows' = IF ok THEN rows \ {u.call} ELSE rows
  /\ busy' = BusyCleared(ok)
  /\ UNCHANGED <<page, loading, dialog, dryRuns, calls, toast, closing>>

LeftUndoAnswers(u, ok) ==
  /\ u \in undos /\ u.by = "left" /\ undos' = undos \ {u}
  /\ ok => u.call \in Undoable
  /\ undone' = IF ok THEN undone \cup {u.call} ELSE undone
  /\ UNCHANGED <<page, loading, dialog, dryRuns, busy, calls, toast, closing, rows>>

Answer ==
  \/ Listed \/ \E s \in Services : PreviewArrives(s)
  \/ \E c \in Calls, ok \in BOOLEAN : CallAnswers(c, ok) \/ LeftCallAnswers(c, ok)
  \/ \E u \in undos, ok \in BOOLEAN :
       ToastUndoAnswers(u, ok) \/ CenterUndoAnswers(u, ok) \/ LeftUndoAnswers(u, ok)

Next ==
  \/ Answer \/ ToastExpires \/ ToastCloses
  \/ Navigate \/ Refresh \/ Understand \/ Cancel \/ Confirm \/ ToastUndo \/ Dismiss
  \/ \E s \in Services : OpenConfirm(s)
  \/ \E c \in Calls : CenterUndo(c)

Spec == Init /\ [][Next]_vars

(***************************************************************************)
(* Properties.                                                             *)
(***************************************************************************)
\* A toast says "Reverted" only after a successful undo of the action it named when Undo
\* was pressed (a later mutation may have put its own message there since), and a row
\* leaves the Undo Center only when its action was undone.
RevertedIsTrue ==
  [][/\ toast' # None => (toast'.done => toast'.undoing \in undone')
     /\ page' = page => (~loading => rows \ rows' \subseteq undone')]_vars

(***************************************************************************)
(* Inductive invariant.                                                    *)
(***************************************************************************)
ToastType == [is : Calls, undoing : Calls \cup {0}, done : BOOLEAN]

TypeOK ==
  /\ toast \in {None} \cup ToastType
  /\ undos \subseteq [call : Calls, by : {"toast", "center", "left"}]
  /\ rows \subseteq Calls /\ undone \subseteq Calls

\* What a toast says stays true while it is there.
ToastIsTrue == toast # None => (toast.done => toast.undoing \in undone)

UndoInv == TypeOK /\ ToastIsTrue
=============================================================================
