----------------------------- MODULE StatusFeed -----------------------------
(***************************************************************************)
(* From the report of a scan to what the user is told.  The main process    *)
(* keeps the last report it could read (pcdoctorBridge.ts), announces each  *)
(* finding once (notifier.ts), and in quiet hours collects what is not      *)
(* critical in a file that a digest empties in the morning (main.ts).       *)
(*                                                                          *)
(* A notice is a finding of a report or the outcome of an action.  The clock *)
(* is the local hour; the digest is gated by the UTC date.                  *)
(***************************************************************************)
EXTENDS Integers, Sequences, FiniteSets

CONSTANTS
  Findings,    \* findings of severity critical or warning
  Events,      \* notifications of other components, raised at most once each here
  Critical,    \* notices that bypass quiet hours
  Muted,       \* notices whose channels the user switched off
  Readers,     \* slots for reads of the report
  Emitters,    \* slots for loops over the findings of a report: bounds their overlap
  Cap,         \* length of the quiet-hours buffer (100)
  Listed,      \* notices the digest prints (20); it only counts the others
  Hours,       \* hours of a day
  QuietHours, DigestHour,
  UtcMidnight, \* local hour in which the UTC date changes
  MaxReports,  \* bound on scans
  Faults, MaxFaults

Notices == Findings \cup Events
None == "none"

ASSUME CapAssumption == Cap \in Nat \ {0} /\ Listed \in 1..Cap
ASSUME HourAssumption ==
  /\ Hours \in Nat /\ QuietHours \subseteq 0..Hours - 1
  /\ DigestHour \in 0..Hours - 1 /\ UtcMidnight \in 0..Hours - 1
ASSUME NoticeAssumption ==
  Critical \subseteq Notices /\ Findings \cap Events = {} /\ None \notin Notices
ASSUME BoundAssumption == MaxReports \in Nat /\ MaxFaults \in Nat

VARIABLES
  report,     \* latest.json: its number, its findings, whether it can be parsed
  up,         \* the application runs
  reading,    \* per reader: "none", "begun", or the report it has read
  cache,      \* number of the report in _statusCache, 0 for none
  emitter,    \* per loop: findings still to visit, finding whose message is being sent
  seen,       \* table seen_findings
  raised,     \* events so far
  buffer,     \* notifications-buffer.json
  sentToday,  \* last_digest_iso_date is the UTC date of today
  flushed,    \* lastFlushHour is the current hour
  sending,    \* notices of the digest on its way
  telegramOn, \* setting telegram_enabled
  hour,
  told,       \* history: how often the user was told of each notice
  crowded,    \* history: the buffer or the digest did not have room for all
  faults      \* history: failures so far

feed == <<report, reading, cache>>
digest == <<buffer, sentToday, flushed, sending>>
history == <<told, crowded>>
vars == <<feed, up, emitter, seen, raised, digest, telegramOn, hour, history, faults>>

Report == [n : 0..MaxReports, findings : SUBSET Findings, ok : BOOLEAN]

TypeOK ==
  /\ report \in Report
  /\ up \in BOOLEAN
  /\ reading \in [Readers -> {[is |-> "none"], [is |-> "begun"]} \cup [is : {"read"}, r : Report]]
  /\ cache \in 0..MaxReports
  /\ emitter \in [Emitters -> [left : SUBSET Findings, at : Findings \cup {None}]]
  /\ seen \subseteq Findings /\ raised \subseteq Events
  /\ buffer \in Seq(Notices) /\ Len(buffer) <= Cap
  /\ sentToday \in BOOLEAN /\ flushed \in BOOLEAN /\ telegramOn \in BOOLEAN
  /\ sending \subseteq Notices
  /\ hour \in 0..Hours - 1
  /\ told \in [Notices -> Nat]
  /\ crowded \in BOOLEAN
  /\ faults \in 0..MaxFaults

NoRead == [is |-> "none"]
NoLoop == [left |-> {}, at |-> None]

\* The first report is missing until a scan has ended; latest.json is number 0 then.
Init ==
  /\ report = [n |-> 0, findings |-> {}, ok |-> FALSE]
  /\ up = FALSE
  /\ reading = [r \in Readers |-> NoRead]
  /\ cache = 0
  /\ emitter = [e \in Emitters |-> NoLoop]
  /\ seen = {} /\ raised = {}
  /\ buffer = <<>> /\ sentToday = FALSE /\ flushed = FALSE /\ sending = {}
  /\ telegramOn \in BOOLEAN
  /\ hour \in 0..Hours - 1
  /\ told = [n \in Notices |-> 0]
  /\ crowded = FALSE /\ faults = 0

Fault(kind) == kind \in Faults /\ faults < MaxFaults /\ faults' = faults + 1

(***************************************************************************)
(* The notifier.                                                           *)
(***************************************************************************)
Quiet(n) == hour \in QuietHours /\ n \notin Critical

\* Push, then shift while there are more than Cap.
Appended(n) == IF Len(buffer) < Cap THEN Append(buffer, n) ELSE Append(Tail(buffer), n)

\* notify(), up to its await of the Telegram message: the notice is put in the buffer,
\* whose write may fail, or shown at once.
Notify(n) ==
  \/ n \in Muted /\ UNCHANGED <<buffer, told, crowded, faults>>
  \/ /\ n \notin Muted /\ Quiet(n)
     /\ \/ /\ buffer' = Appended(n)
           /\ crowded' = (crowded \/ Len(buffer) = Cap)
           /\ UNCHANGED faults
        \/ Fault("bufferWrite") /\ UNCHANGED <<buffer, crowded>>
        \* A file that cannot be parsed counts as empty and is overwritten.
        \/ Fault("bufferRead") /\ buffer' = <<n>> /\ UNCHANGED crowded
     /\ UNCHANGED told
  \/ /\ n \notin Muted /\ ~Quiet(n)
     /\ told' = [told EXCEPT ![n] = @ + 1]
     /\ UNCHANGED <<buffer, crowded, faults>>

\* The action runner, the forecast and the Autopilot tell the user something.
Raise(n) ==
  /\ up /\ n \notin raised
  /\ raised' = raised \cup {n}
  /\ Notify(n)
  /\ UNCHANGED <<feed, up, emitter, seen, sentToday, flushed, sending, telegramOn, hour>>

Awaits(n) == n \in Critical /\ n \notin Muted /\ telegramOn

\* Mutant: a finding is marked once its message has been sent.
MarksLate(f) == IF Awaits(f) THEN seen ELSE seen \cup {f}

\* A finding is marked as seen before anybody is told.
Marks(f) == seen \cup {f}

\* One turn of emitNewFindingNotifications, up to its next await.
Visit(e) ==
  /\ up /\ emitter[e].at = None
  /\ \E f \in emitter[e].left :
       LET rest == emitter[e].left \ {f} IN
       \/ /\ f \in seen
          /\ emitter' = [emitter EXCEPT ![e].left = rest]
          /\ UNCHANGED <<seen, buffer, told, crowded, faults>>
       \/ /\ f \notin seen
          /\ seen' = Marks(f)
          /\ Notify(f)
          /\ emitter' = [emitter EXCEPT ![e] =
               [left |-> rest, at |-> IF Awaits(f) THEN f ELSE None]]
       \* The table cannot be read or written: the loop ends.
       \/ /\ Fault("database")
          /\ emitter' = [emitter EXCEPT ![e] = NoLoop]
          /\ UNCHANGED <<seen, buffer, told, crowded>>
  /\ UNCHANGED <<feed, up, raised, sentToday, flushed, sending, telegramOn, hour>>

\* The message was sent, or was not: sendTelegramMessage does not throw.
MessageSent(e) ==
  /\ up /\ emitter[e].at # None
  /\ seen' = seen \cup {emitter[e].at}
  /\ emitter' = [emitter EXCEPT ![e].at = None]
  /\ UNCHANGED <<feed, up, raised, digest, telegramOn, hour, history, faults>>

(***************************************************************************)
(* The status cache.                                                       *)
(***************************************************************************)
\* Mutant: every caller reads the report itself.
NoSharing(r) == TRUE

\* _statusRefreshInFlight: a caller joins the read under way.
SingleFlight(r) == \A other \in Readers : reading[other] = NoRead

\* refreshStatusCache, by the poll of every minute, at start-up or after the first scan.
BeginRefresh(r) ==
  /\ up /\ reading[r] = NoRead
  /\ SingleFlight(r)
  /\ reading' = [reading EXCEPT ![r] = [is |-> "begun"]]
  /\ UNCHANGED <<report, cache, up, emitter, seen, raised, digest, telegramOn, hour, history, faults>>

\* The report is copied and read; a read that fails or takes too long leaves the cache.
ReadReport(r) ==
  /\ up /\ reading[r].is = "begun"
  /\ \/ reading' = [reading EXCEPT ![r] = [is |-> "read", r |-> report]] /\ UNCHANGED faults
     \/ reading' = [reading EXCEPT ![r] = NoRead] /\ Fault("read")
  /\ UNCHANGED <<report, cache, up, emitter, seen, raised, digest, telegramOn, hour, history>>

\* It is parsed and mapped, the loop over its findings is started and left behind, and the
\* cache is filled.  A missing or broken report changes nothing.
FinishRefresh(r) ==
  /\ up /\ reading[r].is = "read"
  /\ LET read == reading[r].r IN
     \/ ~read.ok /\ UNCHANGED <<cache, emitter>>
     \/ /\ read.ok
        /\ cache' = read.n
        /\ \E e \in Emitters :
             /\ emitter[e] = NoLoop
             /\ emitter' = [emitter EXCEPT ![e].left = read.findings]
  /\ reading' = [reading EXCEPT ![r] = NoRead]
  /\ UNCHANGED <<report, up, seen, raised, digest, telegramOn, hour, history, faults>>

(***************************************************************************)
(* The digest.                                                             *)
(***************************************************************************)
\* The buffer is cleared, the day is marked, the digest is on its way - if there is a
\* channel for it.  Marking the day may fail after the buffer was cleared.
SendsCleared ==
  /\ buffer # <<>>
  /\ buffer' = <<>>
  /\ \/ /\ sentToday' = TRUE /\ UNCHANGED faults
        /\ sending' = IF telegramOn
                      THEN {buffer[i] : i \in 1..(IF Len(buffer) < Listed THEN Len(buffer) ELSE Listed)}
                      ELSE {}
        /\ crowded' = (crowded \/ Len(buffer) > Listed)
     \/ Fault("database") /\ UNCHANGED <<sentToday, sending, crowded>>

\* Mutant: the buffer is cleared before the day is looked at.
FlushClearsFirst ==
  /\ sending = {}
  /\ \/ sentToday /\ buffer' = <<>> /\ UNCHANGED <<sentToday, sending, crowded, faults>>
     \/ ~sentToday /\ SendsCleared
     \/ ~sentToday /\ buffer = <<>> /\ UNCHANGED <<buffer, sentToday, sending, crowded, faults>>

\* flushBufferedNotifications; a second flush finds the day marked while the digest is sent.
Flush ==
  /\ sending = {}
  /\ \/ (sentToday \/ buffer = <<>>) /\ UNCHANGED <<buffer, sentToday, sending, crowded, faults>>
     \/ ~sentToday /\ SendsCleared
     \/ /\ ~sentToday /\ buffer # <<>> /\ Fault("bufferWrite")
        /\ UNCHANGED <<buffer, sentToday, sending, crowded>>

\* The timer of every minute, which remembers the hour before it flushes.
DigestTimer ==
  /\ up /\ hour = DigestHour /\ ~flushed
  /\ flushed' = TRUE
  /\ Flush
  /\ UNCHANGED <<feed, up, emitter, seen, raised, telegramOn, hour, told>>

\* The button of the Settings page.
FlushNow ==
  /\ up /\ buffer # <<>>
  /\ Flush
  /\ UNCHANGED <<feed, up, emitter, seen, raised, flushed, telegramOn, hour, told>>

\* The digest arrives, or does not.
DigestSent ==
  /\ up /\ sending # {}
  /\ sending' = {}
  /\ \/ told' = [n \in Notices |-> told[n] + (IF n \in sending THEN 1 ELSE 0)] /\ UNCHANGED faults
     \/ Fault("telegram") /\ UNCHANGED told
  /\ UNCHANGED <<feed, up, emitter, seen, raised, buffer, sentToday, flushed, telegramOn, hour, crowded>>

(***************************************************************************)
(* The surroundings.                                                       *)
(***************************************************************************)
\* A scan has ended; its report may be broken.
Scan ==
  /\ report.n < MaxReports
  /\ \E found \in SUBSET Findings :
       \/ report' = [n |-> report.n + 1, findings |-> found, ok |-> TRUE] /\ UNCHANGED faults
       \/ report' = [n |-> report.n + 1, findings |-> found, ok |-> FALSE] /\ Fault("report")
  /\ UNCHANGED <<reading, cache, up, emitter, seen, raised, digest, telegramOn, hour, history>>

Start ==
  /\ ~up /\ up' = TRUE
  /\ UNCHANGED <<feed, emitter, seen, raised, digest, telegramOn, hour, history, faults>>

\* What is in memory is gone, messages on their way with it.
Stop ==
  /\ up /\ Fault("stop")
  /\ up' = FALSE
  /\ reading' = [r \in Readers |-> NoRead] /\ cache' = 0
  /\ emitter' = [e \in Emitters |-> NoLoop]
  /\ flushed' = FALSE /\ sending' = {}
  /\ UNCHANGED <<report, seen, raised, buffer, sentToday, telegramOn, hour, history>>

\* Mutant: lastFlushHour is never reset.
FlushedForEver(next) == flushed

\* lastFlushHour, once the clock shows hour next.
StillFlushed(next) == flushed /\ next = DigestHour

\* The timer fires sixty times in the hour of the digest.
Tick ==
  /\ up /\ hour = DigestHour => flushed
  /\ hour' = (hour + 1) % Hours
  /\ flushed' = StillFlushed(hour')
  /\ sentToday' = (sentToday /\ hour' # UtcMidnight)
  /\ UNCHANGED <<feed, up, emitter, seen, raised, buffer, sending, telegramOn, history, faults>>

Next ==
  \/ \E r \in Readers : BeginRefresh(r) \/ ReadReport(r) \/ FinishRefresh(r)
  \/ \E e \in Emitters : Visit(e) \/ MessageSent(e)
  \/ \E n \in Events : Raise(n)
  \/ DigestTimer \/ FlushNow \/ DigestSent
  \/ Scan \/ Start \/ Stop \/ Tick

Spec == Init /\ [][Next]_vars

\* The user starts the application again, time passes, the timer of the digest fires and
\* the request it makes ends.  Nothing is assumed of scans, reads and findings.
FairSpec ==
  Spec /\ WF_vars(Start) /\ WF_vars(Tick) /\ WF_vars(DigestTimer) /\ WF_vars(DigestSent)

(***************************************************************************)
(* Properties.                                                             *)
(***************************************************************************)
\* Nobody is told anything twice: neither by overlapping loops over two reports with the
\* same finding, nor by a digest that comes again after its buffer could not be cleared
\* (three identical digests in one morning, notifier.ts:135-142).
ToldOnce == \A n \in Notices : told[n] <= 1

\* A finding that was marked as seen is never announced again.  So unless something failed,
\* or there was no room, the user has been told, or the notice waits in the buffer or is on
\* its way - provided there is a channel for the digest.
OnlyFailuresLose ==
  faults = 0 /\ ~crowded /\ telegramOn =>
    \A n \in (seen \cup raised) \ Muted :
      told[n] = 1 \/ n \in sending \/ \E i \in 1..Len(buffer) : buffer[i] = n

\* While the application runs, an older report never replaces a newer one in the cache.
CacheNeverGoesBack == [][up /\ up' => cache' >= cache]_vars

\* The buffer is emptied again and again: neither a buffer that could not be cleared nor a
\* digest by hand in the evening, which marks the UTC date of tomorrow, keeps it for ever.
DigestsComeOut == []<>(buffer = <<>>)

(***************************************************************************)
(* Inductive invariant.                                                    *)
(***************************************************************************)
Buffered(n) == \E i \in 1..Len(buffer) : buffer[i] = n

\* A notice is in one place: the user was told, or it is on its way, or it is in the buffer;
\* and nothing gets there that has not been marked before.
InOnePlace(n) ==
  /\ told[n] <= 1
  /\ n \in sending \/ Buffered(n) => told[n] = 0
  /\ n \in sending => ~Buffered(n)
  /\ told[n] # 0 \/ n \in sending \/ Buffered(n) => n \in seen \cup raised

\* A loop that waits for a message has marked the finding of that message.
LoopsMark == \A e \in Emitters : emitter[e].at # None => emitter[e].at \in seen

\* One read at a time, of a report that is no older than the cache.
ReadsAreFresh ==
  /\ cache <= report.n
  /\ \A r \in Readers :
       /\ reading[r].is = "read" => cache <= reading[r].r.n /\ reading[r].r.n <= report.n
       /\ reading[r] # NoRead => \A other \in Readers \ {r} : reading[other] = NoRead

FeedInv ==
  /\ TypeOK
  /\ \A n \in Notices : InOnePlace(n)
  /\ LoopsMark
  /\ ReadsAreFresh
  /\ OnlyFailuresLose
=============================================================================
