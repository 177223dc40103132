-------------------------- MODULE TelegramPolling --------------------------
(***************************************************************************)
(* Buttons that the user presses in the Telegram chat, and the polls of the *)
(* Workbench that fetch and handle them (telegramBridge.ts, the callback    *)
(* handler of main.ts).  A poll starts every 30 s, whether or not the       *)
(* handlers of an earlier poll have ended; the offset that confirms updates *)
(* to the server is kept in memory.                                         *)
(*                                                                          *)
(* Updates are numbered 1, 2, ... in the order of the presses.              *)
(***************************************************************************)
EXTENDS Integers, FiniteSets

CONSTANTS
  Presses,      \* bound on presses
  Polls,        \* slots for polls: bounds how many overlap
  MaxTgFaults   \* bound on failed requests and restarts

ASSUME PressAssumption == Presses \in Nat /\ MaxTgFaults \in Nat

VARIABLES
  kind,         \* per update: what the button asks for; "unsent" before the press
  confirmed,    \* the server has dropped the updates up to this one
  lastUpdateId, \* in memory: the last update a poll took up
  poll,         \* per slot: a request, or the loop over the batch it brought
  begun,        \* history: how often the handler of an update began
  ran,          \* history: how often an update made an action run
  behind,       \* history: updates fetched in a batch behind another one
  unconfirmed,  \* history: updates taken up and not confirmed when the app stopped
  tgFaults      \* history: failures so far

tgVars == <<kind, confirmed, lastUpdateId, poll, begun, ran, behind, unconfirmed, tgFaults>>

Updates == 1..Presses
Posted == {u \in Updates : kind[u] # "unsent"}
Kinds == {"unsent", "run", "ask", "confirm", "note"}
Idle == [is |-> "idle"]

RequestType == [is : {"asked"}, offset : 1..Presses + 1]
LoopType == [is : {"loop"}, left : SUBSET Updates, at : 0..Presses,
             stage : {"next", "reply", "action"}]

TgTypeOK ==
  /\ kind \in [Updates -> Kinds]
  /\ confirmed \in 0..Presses /\ lastUpdateId \in 0..Presses
  /\ poll \in [Polls -> {Idle} \cup RequestType \cup LoopType]
  /\ begun \in [Updates -> Nat] /\ ran \in [Updates -> Nat]
  /\ behind \subseteq Updates /\ unconfirmed \subseteq Updates
  /\ tgFaults \in 0..MaxTgFaults

TgInit ==
  /\ kind = [u \in Updates |-> "unsent"]
  /\ confirmed = 0 /\ lastUpdateId = 0
  /\ poll = [p \in Polls |-> Idle]
  /\ begun = [u \in Updates |-> 0] /\ ran = [u \in Updates |-> 0]
  /\ behind = {} /\ unconfirmed = {}
  /\ tgFaults = 0

TgFault == tgFaults < MaxTgFaults /\ tgFaults' = tgFaults + 1

\* The user presses a button: of an alert ("run", or "ask" if the action is destructive), a
\* snooze or dismissal ("note"), or the confirmation of a message that an "ask" made.
Press ==
  \E u \in Updates, k \in Kinds \ {"unsent"} :
    /\ kind[u] = "unsent" /\ \A v \in 1..u - 1 : v \in Posted
    /\ k = "confirm" => \E v \in Posted : kind[v] = "ask" /\ begun[v] > 0
    /\ kind' = [kind EXCEPT ![u] = k]
    /\ UNCHANGED <<confirmed, lastUpdateId, poll, begun, ran, behind, unconfirmed, tgFaults>>

\* pollOnce: getUpdates with the offset after the last update taken up.  A request times out
\* before the next poll is due.
Ask(p) ==
  /\ poll[p] = Idle
  /\ \A q \in Polls : poll[q].is # "asked"
  /\ poll' = [poll EXCEPT ![p] = [is |-> "asked", offset |-> lastUpdateId + 1]]
  /\ UNCHANGED <<kind, confirmed, lastUpdateId, begun, ran, behind, unconfirmed, tgFaults>>

LowestOf(updates) == CHOOSE u \in updates : \A v \in updates : u <= v

\* Mutant: the offset moves past everything the server has.
OffsetPastNewest(u) == Cardinality(Posted)

\* The offset moves before the handler is called, and never back.
OffsetAfter(u) == IF u > lastUpdateId THEN u ELSE lastUpdateId

\* The loop over a batch takes its lowest update up: the offset, and the handler to its
\* first await.
TakeUp(p, batch) ==
  LET u == LowestOf(batch) IN
  /\ lastUpdateId' = OffsetAfter(u)
  /\ begun' = [begun EXCEPT ![u] = @ + 1]
  /\ poll' = [poll EXCEPT ![p] = [is |-> "loop", left |-> batch \ {u}, at |-> u, stage |-> "reply"]]

EndOfPoll(p) == poll' = [poll EXCEPT ![p] = Idle] /\ UNCHANGED <<lastUpdateId, begun>>

\* The server drops what is confirmed and answers with the rest, of which the first is taken
\* up at once - or the request fails.
Fetched(p) ==
  /\ poll[p].is = "asked"
  /\ LET upTo == poll[p].offset - 1
         batch == {u \in Posted : u > confirmed /\ u > upTo} IN
     /\ confirmed' = IF upTo > confirmed THEN upTo ELSE confirmed
     /\ \/ /\ IF batch = {} THEN EndOfPoll(p) ELSE TakeUp(p, batch)
           /\ behind' = IF batch = {} THEN behind ELSE behind \cup (batch \ {LowestOf(batch)})
           /\ UNCHANGED tgFaults
        \/ TgFault /\ EndOfPoll(p) /\ UNCHANGED behind
  /\ UNCHANGED <<kind, ran, unconfirmed>>

\* The next update of the batch, whatever other polls did with it.
TakeNext(p) ==
  /\ poll[p].is = "loop" /\ poll[p].stage = "next"
  /\ IF poll[p].left = {} THEN EndOfPoll(p) ELSE TakeUp(p, poll[p].left)
  /\ UNCHANGED <<kind, confirmed, ran, behind, unconfirmed, tgFaults>>

\* The loop after the handler of an update.
Handled(loop) == [is |-> "loop", left |-> loop.left, at |-> 0, stage |-> "next"]

\* The press is acknowledged; what runs no action ends here: a destructive action sends a
\* confirmation message instead of running.
Reply(p) ==
  /\ poll[p].is = "loop" /\ poll[p].stage = "reply"
  /\ LET u == poll[p].at IN
     IF kind[u] \in {"run", "confirm"}
     THEN /\ poll' = [poll EXCEPT ![p].stage = "action"]
          /\ ran' = [ran EXCEPT ![u] = @ + 1]
     ELSE /\ poll' = [poll EXCEPT ![p] = Handled(@)]
          /\ UNCHANGED ran
  /\ UNCHANGED <<kind, confirmed, lastUpdateId, begun, behind, unconfirmed, tgFaults>>

\* runAction has ended and the message is edited; a handler that throws is caught.
ActionOver(p) ==
  /\ poll[p].is = "loop" /\ poll[p].stage = "action"
  /\ poll' = [poll EXCEPT ![p] = Handled(@)]
  /\ UNCHANGED <<kind, confirmed, lastUpdateId, begun, ran, behind, unconfirmed, tgFaults>>

\* The application stops and is started again.
TgRestart ==
  /\ TgFault
  /\ lastUpdateId' = 0
  /\ poll' = [p \in Polls |-> Idle]
  /\ unconfirmed' = unconfirmed \cup {u \in Updates : u > confirmed /\ begun[u] > 0}
  /\ UNCHANGED <<kind, confirmed, begun, ran, behind>>

TgNext ==
  \/ Press \/ TgRestart
  \/ \E p \in Polls : Ask(p) \/ Fetched(p) \/ TakeNext(p) \/ Reply(p) \/ ActionOver(p)

\* The timer fires, requests and actions end.
TgFairness ==
  /\ WF_tgVars(\E p \in Polls : Ask(p))
  /\ \A p \in Polls : WF_tgVars(Fetched(p) \/ TakeNext(p) \/ Reply(p) \/ ActionOver(p))

\* A press is handled again only if it waited behind another press in a batch, while the
\* next poll fetched it once more, or if the application stopped before the next poll had
\* confirmed it.  No press that a poll takes up at once is ever handled twice.
OnlyKnownRepeats ==
  \A u \in Updates : begun[u] > 1 => u \in behind \cup unconfirmed

\* Every press is taken up, whatever fails and however long earlier handlers take.
PressesAreHandled ==
  \A u \in Updates : kind[u] # "unsent" ~> begun[u] > 0

(***************************************************************************)
(* Inductive invariant.                                                    *)
(***************************************************************************)
\* An update that was taken up, and that the server may only hand out again in the batch of
\* a request with an offset that is too low.
Unrepeatable(u) == begun[u] > 0 /\ u > confirmed /\ u \notin behind \cup unconfirmed

\* The offset in memory is past each of them, and so is the one of the request on its way.
OffsetsArePast ==
  \A u \in Updates : Unrepeatable(u) =>
    /\ u <= lastUpdateId
    /\ \A p \in Polls : poll[p].is = "asked" => u < poll[p].offset

OneRequest == \A p, q \in Polls : poll[p].is = "asked" /\ poll[q].is = "asked" => p = q

\* What a loop has still to take up came behind another update.
LeftIsBehind == \A p \in Polls : poll[p].is = "loop" => poll[p].left \subseteq behind

TgInv == TgTypeOK /\ OffsetsArePast /\ OneRequest /\ LeftIsBehind /\ OnlyKnownRepeats
=============================================================================
