--------------------------- MODULE RemoteRequests ---------------------------
(***************************************************************************)
(* The two ways in which an action is asked for from outside the window: a   *)
(* button in the Telegram chat and a command of Claude.  They share nothing  *)
(* but the action runner, so what holds of each holds of both: a behaviour   *)
(* uses one of them.                                                         *)
(***************************************************************************)
EXTENDS TelegramPolling, ClaudeWatcher

VARIABLE channel
vars == <<channel, tgVars, cwVars>>

TypeOK == channel \in {"telegram", "claude"} /\ TgTypeOK /\ CwTypeOK

Init == channel \in {"telegram", "claude"} /\ TgInit /\ CwInit

Next ==
  \/ channel = "telegram" /\ TgNext /\ UNCHANGED <<channel, cwVars>>
  \/ channel = "claude" /\ CwNext /\ UNCHANGED <<channel, tgVars>>

Spec == Init /\ [][Next]_vars

FairSpec ==
  /\ Spec
  /\ channel = "telegram" => TgFairness
  /\ channel = "claude" => CwFairness

\* Nothing is done twice or without approval behind the user's back: see OnlyKnownRepeats
\* for the presses in Telegram and AnswersAreTrue for the commands of Claude.
NothingBehindTheBack == OnlyKnownRepeats /\ AnswersAreTrue

\* Whatever is asked for is dealt with: see PressesAreHandled and CommandsAreAnswered.
RequestsAreAnswered == PressesAreHandled /\ CommandsAreAnswered
=============================================================================
