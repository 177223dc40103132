------------------------------ MODULE ReviewPage ------------------------------
(***************************************************************************)
(* The page Weekly Review (WeeklyReview.tsx with useWeeklyReview.ts) and its  *)
(* handlers: a review is a file that a scheduled task writes on Sundays, with  *)
(* one flag file for all of them; what the user makes of its items is in the   *)
(* table weekly_review_states.                                             *)
(*                                                                          *)
(* A review is its number and has one item here, items being apart in the      *)
(* table.  A row with "pending" stands for no row as well.                   *)
(***************************************************************************)
EXTENDS Integers, Sequences, FiniteSets

CONSTANTS
  MaxReviews,      \* bound on the reviews
  MaxReviewClicks  \* bound on what the user does, coming back to the page included

Dates == 1..MaxReviews

VARIABLES
  lastReview,     \* the newest review there is
  pendingFlag,    \* .pending-review is there
  itemStates,     \* weekly_review_states
  reviewVisit,    \* which mount of the page is shown
  pickedDate,     \* pickedDate, or 0
  reviewShown,    \* review: date, state of its item and has_pending_flag; date 0 is null
  listedReviews,  \* availableDates: the newest of them
  reviewLoading,  \* loading
  reviewLoads,    \* calls of load
  stateOrders,    \* calls of setWeeklyReviewItemState and dismissWeeklyReviewFlag
  reviewRuns,     \* actions under way, each with the review and the mount it is for
  given,          \* history: the states the user gave, or was promised for an action
  reviewAstray,   \* history: what is shown may be out of date, see below
  reviewClicks

reviewVars == <<lastReview, pendingFlag, itemStates, reviewVisit, pickedDate, reviewShown,
                listedReviews, reviewLoading, reviewLoads, stateOrders, reviewRuns, given,
                reviewAstray, reviewClicks>>

NoReview == [date |-> 0, state |-> "pending", flag |-> FALSE]
NewLoad(date) == [of |-> reviewVisit', date |-> date, seen |-> NoReview, read |-> FALSE]

\* The page is mounted where there is a review that was not looked at yet.
Init ==
  /\ lastReview = 1 /\ pendingFlag = TRUE
  /\ itemStates = [d \in Dates |-> "pending"]
  /\ reviewVisit = 1 /\ pickedDate = 0 /\ reviewShown = NoReview /\ listedReviews = 0
  /\ reviewLoading = TRUE
  /\ reviewLoads = {[of |-> 1, date |-> 0, seen |-> NoReview, read |-> FALSE]}
  /\ stateOrders = <<>> /\ reviewRuns = {}
  /\ given = {} /\ reviewAstray = FALSE /\ reviewClicks = 0

\* Invoke-WeeklyReview.ps1
ReviewWritten ==
  /\ lastReview < MaxReviews /\ lastReview' = lastReview + 1
  /\ pendingFlag' = TRUE
  /\ UNCHANGED <<itemStates, reviewVisit, pickedDate, reviewShown, listedReviews, reviewLoading,
                 reviewLoads, stateOrders, reviewRuns, given, reviewAstray, reviewClicks>>

(***************************************************************************)
(* Loads.                                                                  *)
(***************************************************************************)
LoadsHere == {l \in reviewLoads : l.of = reviewVisit}

\* Two loads that are under way at once may be answered in any order.
BeginLoad(date) ==
  /\ reviewLoads' = reviewLoads \cup {NewLoad(date)}
  /\ reviewLoading' = TRUE
  /\ reviewAstray' = (LoadsHere # {})

\* api:getWeeklyReview: the review of that date or the newest, its states, and the flag.
ReviewRead(l) ==
  /\ l \in reviewLoads /\ ~l.read
  /\ LET date == IF l.date = 0 THEN lastReview ELSE l.date IN
     reviewLoads' = (reviewLoads \ {l}) \cup
                      {[l EXCEPT !.read = TRUE,
                                 !.seen = [date |-> date, state |-> itemStates[date],
                                           flag |-> pendingFlag]]}
  /\ UNCHANGED <<lastReview, pendingFlag, itemStates, reviewVisit, pickedDate, reviewShown,
                 listedReviews, reviewLoading, stateOrders, reviewRuns, given, reviewAstray,
                 reviewClicks>>

\* The review and the list of dates are there, or the review could not be read.
ReviewArrives(l, ok) ==
  /\ l \in reviewLoads /\ l.read /\ reviewLoads' = reviewLoads \ {l}
  /\ IF l.of = reviewVisit
     THEN /\ reviewShown' = IF ok THEN l.seen ELSE reviewShown
          /\ listedReviews' = lastReview /\ reviewLoading' = FALSE
          /\ reviewAstray' = (reviewAstray \/ ~ok)
     ELSE UNCHANGED <<reviewShown, listedReviews, reviewLoading, reviewAstray>>
  /\ UNCHANGED <<lastReview, pendingFlag, itemStates, reviewVisit, pickedDate, stateOrders,
                 reviewRuns, given, reviewClicks>>

(***************************************************************************)
(* The page.                                                               *)
(***************************************************************************)
OnReview ==
  /\ ~reviewLoading /\ reviewShown.date # 0
  /\ reviewClicks < MaxReviewClicks /\ reviewClicks' = reviewClicks + 1

\* Prev and Next go by the review that is shown; the effect runs if the picked date changes.
PickReview(d) ==
  /\ OnReview /\ d \in {reviewShown.date - 1, reviewShown.date + 1} \cap (1..listedReviews)
  /\ d # pickedDate /\ pickedDate' = d
  /\ reviewVisit' = reviewVisit /\ BeginLoad(d)
  /\ UNCHANGED <<lastReview, pendingFlag, itemStates, reviewShown, listedReviews, stateOrders,
                 reviewRuns, given>>

ItemDone == reviewShown.state \in {"applied", "dismissed"}

\* A call goes with the review that its button was shown for.
Order(is, d, s) == [is |-> is, of |-> reviewVisit, date |-> d, state |-> s]

\* Dismiss and Snooze, or Reset.  An action that is under way does not disable them.
GiveState(s) ==
  /\ OnReview /\ (s = "pending") = ItemDone
  /\ stateOrders' = Append(stateOrders, Order("set", reviewShown.date, s))
  /\ given' = given \cup {<<reviewShown.date, s>>}
  /\ UNCHANGED <<lastReview, pendingFlag, itemStates, reviewVisit, pickedDate, reviewShown,
                 listedReviews, reviewLoading, reviewLoads, reviewRuns, reviewAstray>>

\* "Mark Reviewed": the flag of all reviews.
MarkReviewed ==
  /\ OnReview /\ reviewShown.flag
  /\ stateOrders' = Append(stateOrders, Order("flag", pickedDate, "none"))
  /\ UNCHANGED <<lastReview, pendingFlag, itemStates, reviewVisit, pickedDate, reviewShown,
                 listedReviews, reviewLoading, reviewLoads, reviewRuns, given, reviewAstray>>

\* Fix: one action at a time, per mount.
ApplyItem ==
  /\ OnReview /\ ~ItemDone /\ \A r \in reviewRuns : r.of # reviewVisit
  /\ reviewRuns' = reviewRuns \cup {Order("set", reviewShown.date, "applied")}
  /\ given' = given \cup {<<reviewShown.date, "applied">>}
  /\ UNCHANGED <<lastReview, pendingFlag, itemStates, reviewVisit, pickedDate, reviewShown,
                 listedReviews, reviewLoading, reviewLoads, stateOrders, reviewAstray>>

\* The action ends.  The item counts as applied even if it failed.
Applied(r) ==
  /\ r \in reviewRuns /\ reviewRuns' = reviewRuns \ {r}
  /\ stateOrders' = Append(stateOrders, r)
  /\ UNCHANGED <<lastReview, pendingFlag, itemStates, reviewVisit, pickedDate, reviewShown,
                 listedReviews, reviewLoading, reviewLoads, given, reviewAstray, reviewClicks>>

\* A call is handled, done or failed, and answered; what it answers is not looked at, and the
\* page loads anew.
OrderHandled ==
  /\ stateOrders # <<>> /\ stateOrders' = Tail(stateOrders)
  /\ reviewVisit' = reviewVisit
  /\ LET o == Head(stateOrders) IN
     /\ itemStates' \in IF o.is = "set" THEN {itemStates, [itemStates EXCEPT ![o.date] = o.state]}
                                        ELSE {itemStates}
     /\ pendingFlag' \in IF o.is = "flag" THEN {pendingFlag, FALSE} ELSE {pendingFlag}
     /\ IF o.of = reviewVisit THEN BeginLoad(o.date)
        ELSE reviewAstray' = TRUE /\ UNCHANGED <<reviewLoads, reviewLoading>>
  /\ UNCHANGED <<lastReview, pickedDate, reviewShown, listedReviews, reviewRuns, given,
                 reviewClicks>>

\* The user leaves the page, whenever, and comes back.
ReturnToReview ==
  /\ reviewClicks < MaxReviewClicks /\ reviewClicks' = reviewClicks + 1
  /\ reviewVisit' = reviewVisit + 1
  /\ pickedDate' = 0 /\ reviewShown' = NoReview /\ listedReviews' = 0
  /\ reviewLoading' = TRUE /\ reviewAstray' = FALSE
  /\ reviewLoads' = {NewLoad(0)}
  /\ UNCHANGED <<lastReview, pendingFlag, itemStates, stateOrders, reviewRuns, given>>

LoadStep(l) == ReviewRead(l) \/ \E ok \in BOOLEAN : ReviewArrives(l, ok)

Next ==
  \/ ReviewWritten \/ MarkReviewed \/ ApplyItem \/ OrderHandled \/ ReturnToReview
  \/ \E l \in reviewLoads : LoadStep(l)
  \/ \E d \in Dates : PickReview(d)
  \/ \E s \in {"pending", "dismissed", "snoozed"} : GiveState(s)
  \/ \E r \in reviewRuns : Applied(r)

Spec == Init /\ [][Next]_reviewVars

(***************************************************************************)
(* Properties.                                                             *)
(***************************************************************************)
\* What is stored for a review is what the user made of that very review, though actions
\* run for minutes while the page goes on to other reviews.
StatesGoHome ==
  [][\A d \in Dates : itemStates'[d] # itemStates[d] => <<d, itemStates'[d]>> \in given]_reviewVars

\* Once its calls are answered the page shows the stored state of the review it shows, unless
\* loads overlapped or failed, or a call of an earlier visit was handled since.
ReviewIsTrue ==
  ~reviewLoading /\ LoadsHere = {} /\ stateOrders = <<>> /\ reviewShown.date # 0 /\ ~reviewAstray
    => reviewShown.state = itemStates[reviewShown.date]

(***************************************************************************)
(* Inductive invariant.                                                    *)
(***************************************************************************)
States == {"pending", "dismissed", "snoozed", "applied"}
ReviewType == [date : 0..MaxReviews, state : States, flag : BOOLEAN]
LoadType == [of : Nat, date : 0..MaxReviews, seen : ReviewType, read : BOOLEAN]
CallType == [is : {"set", "flag"}, of : Nat, date : 0..MaxReviews, state : States \cup {"none"}]

TypeOK ==
  /\ lastReview \in Dates /\ pendingFlag \in BOOLEAN /\ itemStates \in [Dates -> States]
  /\ reviewVisit \in Nat /\ pickedDate \in 0..MaxReviews
  /\ reviewShown \in ReviewType /\ listedReviews \in 0..MaxReviews
  /\ reviewLoading \in BOOLEAN /\ reviewLoads \subseteq LoadType
  /\ stateOrders \in Seq(CallType) /\ reviewRuns \subseteq CallType
  /\ given \subseteq Dates \X States
  /\ reviewAstray \in BOOLEAN /\ reviewClicks \in Nat

\* What is on its way to the table, now or when an action ends, is what the user gave.
Promised(o) == o.is = "set" => <<o.date, o.state>> \in given
OrdersAreGiven ==
  /\ \A i \in DOMAIN stateOrders : Promised(stateOrders[i])
  /\ \A r \in reviewRuns : Promised(r)

ReviewInv == TypeOK /\ OrdersAreGiven

\* What a load has read, or the page shows when none is under way, is stored still.
ReviewFollows ==
  ~reviewAstray =>
    /\ \A l \in LoadsHere : l.read => l.seen.state = itemStates[l.seen.date]
    /\ LoadsHere = {} /\ reviewShown.date # 0 => reviewShown.state = itemStates[reviewShown.date]
=============================================================================
