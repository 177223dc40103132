-------------------------- MODULE StatusFeedProofs --------------------------
EXTENDS StatusFeed, TLAPS

USE CapAssumption, HourAssumption, NoticeAssumption, BoundAssumption DEF Notices, None

(* Types, action by action. *)

ReadType == {[is |-> "none"], [is |-> "begun"]} \cup [is : {"read"}, r : Report]
LoopType == [left : SUBSET Findings, at : Findings \cup {None}]

LEMMA BufferTypes ==
  ASSUME buffer \in Seq(Notices), Len(buffer) <= Cap, NEW n \in Notices
  PROVE  /\ Appended(n) \in Seq(Notices) /\ Len(Appended(n)) <= Cap
         /\ <<n>> \in Seq(Notices) /\ Len(<<n>>) <= Cap
<1>1. CASE Len(buffer) < Cap
  BY <1>1 DEF Appended
<1>2. CASE ~(Len(buffer) < Cap)
  <2>1. Tail(buffer) \in Seq(Notices) /\ Len(Tail(buffer)) = Len(buffer) - 1
    BY <1>2
  <2> QED BY <1>2, <2>1 DEF Appended
<1> QED BY <1>1, <1>2

LEMMA NotifyTypes ==
  ASSUME TypeOK, NEW n \in Notices, Notify(n)
  PROVE  /\ buffer' \in Seq(Notices) /\ Len(buffer') <= Cap
         /\ told' \in [Notices -> Nat] /\ crowded' \in BOOLEAN /\ faults' \in 0..MaxFaults
<1>0. /\ buffer \in Seq(Notices) /\ Len(buffer) <= Cap
      /\ told \in [Notices -> Nat] /\ crowded \in BOOLEAN /\ faults \in 0..MaxFaults
  BY Zenon DEF TypeOK
<1>1. buffer' = buffer \/ buffer' = Appended(n) \/ buffer' = <<n>>
  BY Zenon DEF Notify
<1>2. buffer' \in Seq(Notices) /\ Len(buffer') <= Cap
  BY Zenon, <1>0, <1>1, BufferTypes
<1>3. crowded' = crowded \/ crowded' = (crowded \/ Len(buffer) = Cap)
  BY Zenon DEF Notify
<1>4. crowded' \in BOOLEAN
  BY Zenon, <1>0, <1>3
<1>5. told' = told \/ told' = [told EXCEPT ![n] = @ + 1]
  BY Zenon DEF Notify
<1>6. told' \in [Notices -> Nat]
  BY <1>0, <1>5
<1>7. faults' = faults \/ (faults < MaxFaults /\ faults' = faults + 1)
  BY Zenon DEF Notify, Fault
<1>8. faults' \in 0..MaxFaults
  BY <1>0, <1>7
<1> QED BY <1>2, <1>4, <1>6, <1>8

\* What a flush does: nothing, or the buffer is cleared and the digest is on its way.
LEMMA FlushEffect ==
  ASSUME Flush
  PROVE  /\ sending = {}
         /\ faults' = faults \/ (faults < MaxFaults /\ faults' = faults + 1)
         /\ crowded' = crowded \/ crowded' = (crowded \/ Len(buffer) > Listed)
         /\ sentToday' = sentToday \/ sentToday' = TRUE
         /\ \/ UNCHANGED <<buffer, sending>>
            \/ /\ buffer # <<>> /\ buffer' = <<>>
               /\ \/ /\ sending' = IF telegramOn
                                   THEN {buffer[i] : i \in 1..(IF Len(buffer) < Listed THEN Len(buffer) ELSE Listed)}
                                   ELSE {}
                     /\ crowded' = (crowded \/ Len(buffer) > Listed)
                  \/ sending' = sending /\ faults' = faults + 1
<1>1. CASE sentToday \/ buffer = <<>>
  <2>1. \/ UNCHANGED <<buffer, sentToday, sending, crowded, faults>>
        \/ ~sentToday /\ SendsCleared
    BY Zenon, <1>1 DEF Flush
  <2> QED BY Zenon, <1>1, <2>1 DEF Flush, SendsCleared, Fault
<1>2. CASE ~sentToday /\ SendsCleared
  BY Zenon, <1>2 DEF Flush, SendsCleared, Fault
<1>3. CASE Fault("bufferWrite") /\ UNCHANGED <<buffer, sentToday, sending, crowded>>
  BY Zenon, <1>3 DEF Flush, Fault
<1> QED BY Zenon, <1>1, <1>2, <1>3 DEF Flush

LEMMA FlushTypes ==
  ASSUME TypeOK, Flush
  PROVE  /\ buffer' \in Seq(Notices) /\ Len(buffer') <= Cap
         /\ sending' \subseteq Notices
         /\ sentToday' \in BOOLEAN /\ crowded' \in BOOLEAN /\ faults' \in 0..MaxFaults
<1>0. /\ buffer \in Seq(Notices) /\ Len(buffer) <= Cap /\ sending \subseteq Notices
      /\ sentToday \in BOOLEAN /\ crowded \in BOOLEAN /\ faults \in 0..MaxFaults
  BY Zenon DEF TypeOK
<1>1. buffer' \in Seq(Notices) /\ Len(buffer') <= Cap
  <2>1. CASE buffer' = buffer
    BY <1>0, <2>1
  <2>2. CASE buffer' = <<>>
    BY <2>2
  <2> QED BY Zenon, <2>1, <2>2, FlushEffect
<1>2. sending' \subseteq Notices
  <2>1. \A k \in 1..Len(buffer) : {buffer[i] : i \in 1..k} \subseteq Notices
    BY <1>0
  <2>2. buffer # <<>> =>
          (IF Len(buffer) < Listed THEN Len(buffer) ELSE Listed) \in 1..Len(buffer)
    BY <1>0
  <2>3. \/ sending' = sending \/ sending' = {}
        \/ /\ buffer # <<>>
           /\ sending' = {buffer[i] : i \in 1..(IF Len(buffer) < Listed THEN Len(buffer) ELSE Listed)}
    BY Zenon, FlushEffect
  <2> QED BY <1>0, <2>1, <2>2, <2>3
<1>3. sentToday' \in BOOLEAN
  BY Zenon, <1>0, FlushEffect
<1>4. crowded' \in BOOLEAN
  BY Zenon, <1>0, FlushEffect
<1>5. faults' \in 0..MaxFaults
  <2>1. faults' = faults \/ (faults < MaxFaults /\ faults' = faults + 1)
    BY Zenon, FlushEffect
  <2> QED BY <1>0, <2>1
<1> QED BY <1>1, <1>2, <1>3, <1>4, <1>5

LEMMA FeedTypesInit == Init => TypeOK
<1> SUFFICES ASSUME Init PROVE TypeOK
  OBVIOUS
<1>1. report \in Report /\ reading \in [Readers -> ReadType]
  BY DEF Init, Report, ReadType, NoRead
<1>2. emitter \in [Emitters -> LoopType]
  BY DEF Init, LoopType, NoLoop
<1>3. /\ up \in BOOLEAN /\ sentToday \in BOOLEAN /\ flushed \in BOOLEAN /\ telegramOn \in BOOLEAN
      /\ crowded \in BOOLEAN
  BY Zenon DEF Init
<1>4. /\ cache \in 0..MaxReports /\ seen \subseteq Findings /\ raised \subseteq Events
      /\ buffer \in Seq(Notices) /\ Len(buffer) <= Cap /\ sending \subseteq Notices
      /\ hour \in 0..Hours - 1 /\ told \in [Notices -> Nat] /\ faults \in 0..MaxFaults
  BY DEF Init
<1> QED BY <1>1, <1>2, <1>3, <1>4 DEF TypeOK, ReadType, LoopType

LEMMA FeedTypesStep ==
  ASSUME TypeOK, [Next]_vars
  PROVE  TypeOK'
<1>1. ASSUME NEW r \in Readers, BeginRefresh(r) \/ ReadReport(r) \/ FinishRefresh(r) PROVE TypeOK'
  <2>1. reading' \in [Readers -> ReadType]
    BY <1>1, SMTT(30) DEF BeginRefresh, ReadReport, FinishRefresh, TypeOK, ReadType, NoRead
  <2>2. cache' \in 0..MaxReports /\ emitter' \in [Emitters -> LoopType]
    <3>0. cache \in 0..MaxReports /\ reading \in [Readers -> ReadType] /\ emitter \in [Emitters -> LoopType]
      BY Zenon DEF TypeOK, ReadType, LoopType
    <3>1. CASE UNCHANGED <<cache, emitter>>
      BY <3>0, <3>1
    <3>2. CASE FinishRefresh(r) /\ ~UNCHANGED <<cache, emitter>>
      <4>1. /\ reading[r].is = "read" /\ cache' = reading[r].r.n
            /\ \E e \in Emitters : emitter' = [emitter EXCEPT ![e].left = reading[r].r.findings]
        BY Zenon, <3>2 DEF FinishRefresh
      <4>2. reading[r].r \in Report
        BY <3>0, <4>1 DEF ReadType
      <4>3. cache' \in 0..MaxReports /\ reading[r].r.findings \in SUBSET Findings
        BY <4>1, <4>2 DEF Report
      <4>4. emitter' \in [Emitters -> LoopType]
        BY <3>0, <4>1, <4>3 DEF LoopType
      <4> QED BY <4>3, <4>4
    <3> QED BY Zenon, <1>1, <3>1, <3>2 DEF BeginRefresh, ReadReport
  <2>4. faults' \in 0..MaxFaults
    BY <1>1 DEF BeginRefresh, ReadReport, FinishRefresh, TypeOK, Fault
  <2>5. UNCHANGED <<report, up, seen, raised, buffer, sentToday, flushed, sending, telegramOn,
                    hour, told, crowded>>
    BY <1>1 DEF BeginRefresh, ReadReport, FinishRefresh, feed, digest, history
  <2> QED BY Zenon, <2>1, <2>2, <2>4, <2>5 DEF TypeOK, ReadType, LoopType
<1>2. ASSUME NEW e \in Emitters, Visit(e) PROVE TypeOK'
  <2>0. /\ emitter \in [Emitters -> LoopType] /\ seen \subseteq Findings
        /\ faults \in 0..MaxFaults
    BY Zenon DEF TypeOK, LoopType
  <2>1. PICK f \in emitter[e].left :
          \/ /\ emitter' = [emitter EXCEPT ![e].left = emitter[e].left \ {f}]
             /\ UNCHANGED <<seen, buffer, told, crowded, faults>>
          \/ /\ seen' = Marks(f) /\ Notify(f)
             /\ emitter' = [emitter EXCEPT ![e] =
                  [left |-> emitter[e].left \ {f}, at |-> IF Awaits(f) THEN f ELSE None]]
          \/ /\ Fault("database") /\ emitter' = [emitter EXCEPT ![e] = NoLoop]
             /\ UNCHANGED <<seen, buffer, told, crowded>>
    BY Zenon, <1>2 DEF Visit
  <2>2. f \in Findings /\ f \in Notices
    BY <2>0 DEF LoopType
  <2>3. emitter' \in [Emitters -> LoopType]
    BY <2>0, <2>1, <2>2 DEF LoopType, NoLoop
  <2>4. seen' \subseteq Findings
    BY <2>0, <2>1, <2>2 DEF Marks
  <2>5. /\ buffer' \in Seq(Notices) /\ Len(buffer') <= Cap
        /\ told' \in [Notices -> Nat] /\ crowded' \in BOOLEAN /\ faults' \in 0..MaxFaults
    <3>1. CASE Notify(f)
      BY <2>2, <3>1, NotifyTypes
    <3>2. CASE UNCHANGED <<buffer, told, crowded>> /\ (UNCHANGED faults \/ Fault("database"))
      <4>1. faults' \in 0..MaxFaults
        BY <2>0, <3>2 DEF Fault
      <4> QED BY Zenon, <3>2, <4>1 DEF TypeOK
    <3> QED BY Zenon, <2>1, <3>1, <3>2
  <2>6. UNCHANGED <<report, reading, cache, up, raised, sentToday, flushed, sending, telegramOn,
                    hour>>
    BY Zenon, <1>2 DEF Visit, feed
  <2> QED BY Zenon, <2>3, <2>4, <2>5, <2>6 DEF TypeOK, LoopType
<1>3. ASSUME NEW e \in Emitters, MessageSent(e) PROVE TypeOK'
  <2>0. emitter \in [Emitters -> LoopType] /\ seen \subseteq Findings
    BY Zenon DEF TypeOK, LoopType
  <2>1. emitter' \in [Emitters -> LoopType] /\ seen' \subseteq Findings
    BY <1>3, <2>0 DEF MessageSent, LoopType
  <2>2. UNCHANGED <<report, reading, cache, up, raised, buffer, sentToday, flushed, sending,
                    telegramOn, hour, told, crowded, faults>>
    BY Zenon, <1>3 DEF MessageSent, feed, digest, history
  <2> QED BY Zenon, <2>1, <2>2 DEF TypeOK, LoopType
<1>4. ASSUME NEW n \in Events, Raise(n) PROVE TypeOK'
  <2>1. raised' \subseteq Events /\ Notify(n)
    BY <1>4 DEF Raise, TypeOK
  <2>2. UNCHANGED <<report, reading, cache, up, emitter, seen, sentToday, flushed, sending,
                    telegramOn, hour>>
    BY Zenon, <1>4 DEF Raise, feed
  <2>3. /\ buffer' \in Seq(Notices) /\ Len(buffer') <= Cap
        /\ told' \in [Notices -> Nat] /\ crowded' \in BOOLEAN /\ faults' \in 0..MaxFaults
    BY <2>1, NotifyTypes
  <2> QED BY Zenon, <2>1, <2>2, <2>3 DEF TypeOK
<1>5. CASE DigestTimer \/ FlushNow
  <2>1. Flush
    BY <1>5 DEF DigestTimer, FlushNow
  <2>2. flushed' \in BOOLEAN
    BY Zenon, <1>5 DEF DigestTimer, FlushNow, TypeOK
  <2>3. UNCHANGED <<report, reading, cache, up, emitter, seen, raised, telegramOn, hour, told>>
    BY <1>5 DEF DigestTimer, FlushNow, feed
  <2> QED BY Zenon, <2>1, <2>2, <2>3, FlushTypes DEF TypeOK
<1>6. CASE DigestSent
  <2>1. told' \in [Notices -> Nat] /\ sending' = {} /\ faults' \in 0..MaxFaults
    BY <1>6 DEF DigestSent, TypeOK, Fault
  <2>2. UNCHANGED <<report, reading, cache, up, emitter, seen, raised, buffer, sentToday, flushed,
                    telegramOn, hour, crowded>>
    BY <1>6 DEF DigestSent, feed
  <2> QED BY Zenon, <2>1, <2>2 DEF TypeOK
<1>7. CASE Scan
  <2>1. report' \in Report /\ faults' \in 0..MaxFaults
    <3>1. report \in Report /\ faults \in 0..MaxFaults
      BY Zenon DEF TypeOK
    <3>2. report.n < MaxReports /\ (faults' = faults \/ (faults < MaxFaults /\ faults' = faults + 1))
      BY Zenon, <1>7 DEF Scan, Fault
    <3>3. PICK found \in SUBSET Findings, ok \in BOOLEAN :
            report' = [n |-> report.n + 1, findings |-> found, ok |-> ok]
      BY Zenon, <1>7 DEF Scan
    <3>4. report.n + 1 \in 0..MaxReports
      BY <3>1, <3>2 DEF Report
    <3>5. faults' \in 0..MaxFaults
      BY <3>1, <3>2
    <3> QED BY <3>3, <3>4, <3>5 DEF Report
  <2>2. UNCHANGED <<reading, cache, up, emitter, seen, raised, buffer, sentToday, flushed, sending,
                    telegramOn, hour, told, crowded>>
    BY <1>7 DEF Scan, digest, history
  <2> QED BY Zenon, <2>1, <2>2 DEF TypeOK
<1>8. CASE Start
  <2>1. up' = TRUE
    BY <1>8 DEF Start
  <2>2. UNCHANGED <<report, reading, cache, emitter, seen, raised, buffer, sentToday, flushed,
                    sending, telegramOn, hour, told, crowded, faults>>
    BY <1>8 DEF Start, feed, digest, history
  <2> QED BY Zenon, <2>1, <2>2 DEF TypeOK
<1>9. CASE Stop
  <2>1. /\ reading' \in [Readers -> ReadType] /\ emitter' \in [Emitters -> LoopType]
        /\ cache' \in 0..MaxReports /\ faults' \in 0..MaxFaults
    BY <1>9 DEF Stop, Fault, TypeOK, ReadType, LoopType, NoRead, NoLoop
  <2>2. up' = FALSE /\ flushed' = FALSE /\ sending' = {}
    BY <1>9 DEF Stop
  <2>3. UNCHANGED <<report, seen, raised, buffer, sentToday, telegramOn, hour, told, crowded>>
    BY <1>9 DEF Stop, history
  <2> QED BY Zenon, <2>1, <2>2, <2>3 DEF TypeOK, ReadType, LoopType
<1>10. CASE Tick
  <2>1. hour' \in 0..Hours - 1
    BY <1>10 DEF Tick, TypeOK
  <2>2. flushed' \in BOOLEAN /\ sentToday' \in BOOLEAN
    BY Zenon, <1>10 DEF Tick, StillFlushed
  <2>3. UNCHANGED <<report, reading, cache, up, emitter, seen, raised, buffer, sending, telegramOn,
                    told, crowded, faults>>
    BY <1>10 DEF Tick, feed, history
  <2> QED BY Zenon, <2>1, <2>2, <2>3 DEF TypeOK
<1>11. CASE UNCHANGED vars
  BY Zenon, <1>11 DEF vars, feed, digest, history, TypeOK
<1> QED BY <1>1, <1>2, <1>3, <1>4, <1>5, <1>6, <1>7, <1>8, <1>9, <1>10, <1>11 DEF Next

(* Where a notice is. *)

\* What is pushed is in the buffer, nothing else is new in it, and nothing is lost from a
\* buffer with room.
LEMMA PushedIsBuffered ==
  ASSUME buffer \in Seq(Notices), Len(buffer) <= Cap, NEW n \in Notices, buffer' = Appended(n)
  PROVE  /\ Buffered(n)'
         /\ \A m \in Notices : Buffered(m)' => Buffered(m) \/ m = n
         /\ Len(buffer) # Cap => \A m \in Notices : Buffered(m) => Buffered(m)'
<1>1. CASE Len(buffer) < Cap
  <2>1. /\ Len(buffer') = Len(buffer) + 1 /\ buffer'[Len(buffer) + 1] = n
        /\ \A i \in 1..Len(buffer) : buffer'[i] = buffer[i]
    BY <1>1 DEF Appended
  <2> QED BY <2>1 DEF Buffered
<1>2. CASE ~(Len(buffer) < Cap)
  <2>1. Tail(buffer) \in Seq(Notices) /\ Len(Tail(buffer)) = Len(buffer) - 1
    BY <1>2
  <2>2. \A i \in 1..Len(buffer) - 1 : Tail(buffer)[i] = buffer[i + 1]
    BY <1>2
  <2>3. buffer' = Append(Tail(buffer), n)
    BY <1>2 DEF Appended
  <2>4. /\ Len(buffer') = Len(buffer) /\ buffer'[Len(buffer)] = n
        /\ \A i \in 1..Len(buffer) - 1 : buffer'[i] = buffer[i + 1]
    BY <2>1, <2>2, <2>3
  <2>5. Buffered(n)' /\ \A m \in Notices : Buffered(m)' => Buffered(m) \/ m = n
    BY <1>2, <2>4 DEF Buffered
  <2> QED BY <1>2, <2>5
<1> QED BY <1>1, <1>2

\* The effect of notify() on the places: a notice nobody knew of gets into one of them, or is
\* muted or lost to a failure.
LEMMA NotifyPlaces ==
  ASSUME TypeOK, NEW n \in Notices, Notify(n)
  PROVE  /\ \A m \in Notices \ {n} :
              told'[m] = told[m] /\ (Buffered(m)' => Buffered(m))
         /\ told'[n] = told[n] \/ (told'[n] = told[n] + 1 /\ (Buffered(n)' => Buffered(n)))
         /\ faults' # 0
            \/ crowded'
            \/ \A m \in Notices \ {n} : Buffered(m) => Buffered(m)'
         /\ faults' # 0 \/ n \in Muted \/ told'[n] = told[n] + 1 \/ Buffered(n)'
         /\ faults' # 0 \/ faults' = faults
         /\ crowded => crowded'
<1>0. /\ buffer \in Seq(Notices) /\ Len(buffer) <= Cap
      /\ told \in [Notices -> Nat] /\ crowded \in BOOLEAN /\ faults \in 0..MaxFaults
  BY Zenon DEF TypeOK
<1>1. CASE UNCHANGED <<buffer, told, crowded, faults>> /\ n \in Muted
  BY <1>0, <1>1 DEF Buffered
<1>2. CASE buffer' = Appended(n) /\ crowded' = (crowded \/ Len(buffer) = Cap) /\ UNCHANGED <<told,
                                                                                             faults>>
  <2>1. /\ Buffered(n)'
        /\ \A m \in Notices : Buffered(m)' => Buffered(m) \/ m = n
        /\ Len(buffer) # Cap => \A m \in Notices : Buffered(m) => Buffered(m)'
    BY Zenon, <1>0, <1>2, PushedIsBuffered
  <2>2. told' = told /\ faults' = faults
    BY <1>2
  <2>3. (crowded => crowded') /\ (Len(buffer) = Cap => crowded')
    BY Zenon, <1>2
  <2>4. \A m \in Notices \ {n} : Buffered(m)' => Buffered(m)
    BY <2>1
  <2>5. crowded' \/ \A m \in Notices \ {n} : Buffered(m) => Buffered(m)'
    BY <2>1, <2>3
  <2> QED BY Zenon, <2>1, <2>2, <2>3, <2>4, <2>5
<1>3. CASE buffer' \in {buffer, <<n>>} /\ faults' = faults + 1 /\ UNCHANGED <<told, crowded>>
  <2>1. faults' # 0
    BY <1>0, <1>3
  <2>2. \A m \in Notices \ {n} : Buffered(m)' => Buffered(m)
    BY <1>3 DEF Buffered
  <2>3. told' = told
    BY <1>3
  <2>4. crowded => crowded'
    BY Zenon, <1>3
  <2> QED BY Zenon, <2>1, <2>2, <2>3, <2>4
<1>4. CASE told' = [told EXCEPT ![n] = @ + 1] /\ UNCHANGED <<buffer, crowded, faults>>
  BY <1>0, <1>4 DEF Buffered
<1> QED BY Zenon, <1>1, <1>2, <1>3, <1>4 DEF Notify, Fault

\* Both properties of the places, notice by notice: it is in at most one, and in one at least
\* if nothing failed.
IsKept(n) ==
  faults = 0 /\ ~crowded /\ telegramOn /\ n \in (seen \cup raised) \ Muted =>
    told[n] = 1 \/ n \in sending \/ Buffered(n)

InPlace == \A n \in Notices : InOnePlace(n) /\ IsKept(n)

LEMMA KeptIsNotLost == TypeOK => (OnlyFailuresLose <=> \A n \in Notices : IsKept(n))
<1> SUFFICES ASSUME TypeOK PROVE OnlyFailuresLose <=> \A n \in Notices : IsKept(n)
  OBVIOUS
<1>1. seen \cup raised \subseteq Notices
  BY DEF TypeOK
<1> QED BY <1>1 DEF OnlyFailuresLose, IsKept, Buffered

LEMMA NotifyKeeps ==
  ASSUME TypeOK, InPlace, NEW n \in Notices, n \notin seen \cup raised, Notify(n),
         seen' \cup raised' = seen \cup raised \cup {n}, UNCHANGED <<sending, telegramOn>>
  PROVE  InPlace'
<1>0. told \in [Notices -> Nat] /\ faults \in Nat /\ sending \subseteq Notices
  BY DEF TypeOK
<1>1. /\ \A m \in Notices \ {n} : told'[m] = told[m] /\ (Buffered(m)' => Buffered(m))
      /\ told'[n] = told[n] \/ (told'[n] = told[n] + 1 /\ (Buffered(n)' => Buffered(n)))
      /\ faults' # 0 \/ crowded' \/ \A m \in Notices \ {n} : Buffered(m) => Buffered(m)'
      /\ faults' # 0 \/ n \in Muted \/ told'[n] = told[n] + 1 \/ Buffered(n)'
      /\ faults' # 0 \/ faults' = faults
      /\ crowded => crowded'
  BY Zenon, NotifyPlaces
<1>2. told[n] = 0 /\ n \notin sending /\ ~Buffered(n)
  BY <1>0 DEF InPlace, InOnePlace
<1>3. ASSUME NEW m \in Notices, m # n PROVE InOnePlace(m)' /\ IsKept(m)'
  <2>1. InOnePlace(m) /\ IsKept(m)
    BY DEF InPlace
  <2>2. InOnePlace(m)'
    BY <1>1, <1>3, <2>1 DEF InOnePlace
  <2>3. m \in seen' \cup raised' => m \in seen \cup raised
    BY <1>3
  <2>4. faults' = 0 /\ ~crowded' => faults = 0 /\ ~crowded /\ (Buffered(m) => Buffered(m)')
    BY <1>1, <1>3
  <2>5. told'[m] = told[m]
    BY <1>1, <1>3
  <2> QED BY <2>1, <2>2, <2>3, <2>4, <2>5 DEF IsKept
<1>4. InOnePlace(n)'
  BY <1>1, <1>2 DEF InOnePlace
<1>5. IsKept(n)'
  BY <1>1, <1>2 DEF IsKept
<1> QED BY <1>3, <1>4, <1>5 DEF InPlace

\* A step that moves no notice, and only marks what is marked.
LEMMA RestKeeps ==
  ASSUME InPlace, UNCHANGED <<told, buffer, sending, crowded, telegramOn>>,
         seen' \cup raised' = seen \cup raised, faults' = faults \/ faults' # 0
  PROVE  InPlace'
<1> SUFFICES ASSUME NEW m \in Notices PROVE InOnePlace(m)' /\ IsKept(m)'
  BY DEF InPlace
<1>1. InOnePlace(m) /\ IsKept(m)
  BY DEF InPlace
<1> QED BY <1>1 DEF InOnePlace, IsKept, Buffered

\* The digest takes over what is in the buffer.
LEMMA FlushKeeps ==
  ASSUME TypeOK, InPlace, Flush, UNCHANGED <<told, seen, raised, telegramOn>>
  PROVE  InPlace'
<1>0. told \in [Notices -> Nat] /\ buffer \in Seq(Notices) /\ faults \in Nat
  BY DEF TypeOK
<1>1. sending = {} /\ (faults' = faults \/ (faults < MaxFaults /\ faults' = faults + 1))
  BY Zenon, FlushEffect
<1>2. crowded => crowded'
  BY Zenon, FlushEffect
<1> SUFFICES ASSUME NEW m \in Notices PROVE InOnePlace(m)' /\ IsKept(m)'
  BY DEF InPlace
<1>3. InOnePlace(m) /\ IsKept(m)
  BY DEF InPlace
<1>4. CASE UNCHANGED <<buffer, sending>>
  <2>1. Buffered(m)' <=> Buffered(m)
    BY <1>4 DEF Buffered
  <2>2. faults' = 0 => faults = 0
    BY <1>0, <1>1
  <2> QED BY <1>2, <1>3, <1>4, <2>1, <2>2 DEF InOnePlace, IsKept
<1>5. CASE buffer' = <<>> /\ sending' = sending /\ faults' = faults + 1
  <2>1. ~Buffered(m)'
    BY <1>5 DEF Buffered
  <2>2. faults' # 0
    BY <1>0, <1>5
  <2> QED BY <1>3, <1>5, <2>1, <2>2 DEF InOnePlace, IsKept
<1>6. CASE /\ buffer # <<>> /\ buffer' = <<>> /\ crowded' = (crowded \/ Len(buffer) > Listed)
           /\ sending' = IF telegramOn
                         THEN {buffer[i] : i \in 1..(IF Len(buffer) < Listed THEN Len(buffer) ELSE Listed)}
                         ELSE {}
  <2>1. ~Buffered(m)'
    BY <1>6 DEF Buffered
  <2>2. m \in sending' => Buffered(m)
    BY <1>0, <1>6 DEF Buffered
  <2>3. ~crowded' => ~(Len(buffer) > Listed)
    BY Zenon, <1>6
  <2>4. ~crowded' /\ telegramOn /\ Buffered(m) => m \in sending'
    BY <1>0, <1>6, <2>3 DEF Buffered
  <2>5. faults' = 0 => faults = 0
    BY <1>0, <1>1
  <2>6. InOnePlace(m)'
    BY <1>3, <2>1, <2>2 DEF InOnePlace
  <2>7. IsKept(m)'
    BY <1>1, <1>2, <1>3, <2>4, <2>5 DEF IsKept
  <2> QED BY <2>6, <2>7
<1> QED BY Zenon, <1>4, <1>5, <1>6, FlushEffect

\* The digest arrives, or is lost to a failure.
LEMMA DigestKeeps ==
  ASSUME TypeOK, InPlace, DigestSent
  PROVE  InPlace'
<1>0. told \in [Notices -> Nat] /\ faults \in Nat
  BY DEF TypeOK
<1>1. /\ sending' = {}
      /\ \/ told' = [n \in Notices |-> told[n] + (IF n \in sending THEN 1 ELSE 0)] /\ faults' = faults
         \/ faults' = faults + 1 /\ told' = told
      /\ UNCHANGED <<seen, raised, buffer, telegramOn, crowded>>
  BY Zenon DEF DigestSent, Fault
<1> SUFFICES ASSUME NEW m \in Notices PROVE InOnePlace(m)' /\ IsKept(m)'
  BY DEF InPlace
<1>2. InOnePlace(m) /\ IsKept(m)
  BY DEF InPlace
<1>3. Buffered(m)' <=> Buffered(m)
  BY <1>1 DEF Buffered
<1>4. CASE told' = [n \in Notices |-> told[n] + (IF n \in sending THEN 1 ELSE 0)] /\ faults' = faults
  <2>1. told'[m] = told[m] + (IF m \in sending THEN 1 ELSE 0)
    BY <1>4
  <2> QED BY <1>0, <1>1, <1>2, <1>3, <1>4, <2>1 DEF InOnePlace, IsKept
<1>5. CASE faults' = faults + 1 /\ told' = told
  BY <1>0, <1>1, <1>2, <1>3, <1>5 DEF InOnePlace, IsKept
<1> QED BY <1>1, <1>4, <1>5

LEMMA PlacesStep ==
  ASSUME TypeOK, InPlace, LoopsMark, [Next]_vars
  PROVE  InPlace'
<1>0. seen \subseteq Findings /\ raised \subseteq Events /\ faults \in Nat
      /\ emitter \in [Emitters -> LoopType]
  BY DEF TypeOK, LoopType
<1>1. CASE \E r \in Readers : BeginRefresh(r) \/ ReadReport(r) \/ FinishRefresh(r)
  <2>1. UNCHANGED <<told, buffer, sending, crowded, telegramOn, seen, raised>>
    BY <1>1 DEF BeginRefresh, ReadReport, FinishRefresh, digest, history
  <2>2. faults' = faults \/ faults' = faults + 1
    BY <1>1 DEF BeginRefresh, ReadReport, FinishRefresh, Fault
  <2> QED BY <1>0, <2>1, <2>2, RestKeeps
<1>2. ASSUME NEW e \in Emitters, Visit(e) PROVE InPlace'
  <2>1. UNCHANGED <<sending, telegramOn, raised>>
    BY <1>2 DEF Visit
  <2>2. PICK f \in emitter[e].left :
          \/ UNCHANGED <<seen, buffer, told, crowded, faults>>
          \/ f \notin seen /\ seen' = Marks(f) /\ Notify(f)
          \/ Fault("database") /\ UNCHANGED <<seen, buffer, told, crowded>>
    BY Zenon, <1>2 DEF Visit
  <2>3. f \in Findings
    BY <1>0 DEF LoopType
  <2>4. CASE UNCHANGED <<seen, buffer, told, crowded, faults>>
    BY <2>1, <2>4, RestKeeps
  <2>5. CASE f \notin seen /\ seen' = Marks(f) /\ Notify(f)
    <3>1. f \in Notices /\ f \notin seen \cup raised /\ seen' \cup raised' = seen \cup raised \cup {f}
      BY <1>0, <2>1, <2>3, <2>5 DEF Marks
    <3> QED BY <2>1, <2>5, <3>1, NotifyKeeps
  <2>6. CASE Fault("database") /\ UNCHANGED <<seen, buffer, told, crowded>>
    <3>1. faults' # 0
      BY <1>0, <2>6 DEF Fault
    <3> QED BY <2>1, <2>6, <3>1, RestKeeps
  <2> QED BY Zenon, <2>2, <2>4, <2>5, <2>6
<1>3. ASSUME NEW e \in Emitters, MessageSent(e) PROVE InPlace'
  <2>1. seen' = seen
    BY <1>3 DEF MessageSent, LoopsMark
  <2>2. UNCHANGED <<told, buffer, sending, crowded, telegramOn, raised, faults>>
    BY <1>3 DEF MessageSent, digest, history
  <2> QED BY <2>1, <2>2, RestKeeps
<1>4. ASSUME NEW n \in Events, Raise(n) PROVE InPlace'
  <2>1. n \in Notices /\ n \notin seen \cup raised /\ seen' \cup raised' = seen \cup raised \cup {n}
    BY <1>0, <1>4 DEF Raise
  <2>2. Notify(n) /\ UNCHANGED <<sending, telegramOn>>
    BY <1>4 DEF Raise
  <2> QED BY <2>1, <2>2, NotifyKeeps
<1>5. CASE DigestTimer \/ FlushNow
  <2>1. Flush /\ UNCHANGED <<told, seen, raised, telegramOn>>
    BY <1>5 DEF DigestTimer, FlushNow
  <2> QED BY <2>1, FlushKeeps
<1>6. CASE DigestSent
  BY <1>6, DigestKeeps
<1>7. CASE Scan \/ Start \/ Tick \/ UNCHANGED vars
  <2>1. UNCHANGED <<told, buffer, sending, crowded, telegramOn, seen, raised>>
    BY Zenon, <1>7 DEF Scan, Start, Tick, vars, digest, history
  <2>2. faults' = faults \/ faults' = faults + 1
    BY Zenon, <1>7 DEF Scan, Start, Tick, vars, Fault
  <2> QED BY <1>0, <2>1, <2>2, RestKeeps
<1>8. CASE Stop
  <2>1. faults' # 0 /\ sending' = {} /\ UNCHANGED <<told, buffer, seen, raised>>
    BY <1>0, <1>8 DEF Stop, Fault, history
  <2> SUFFICES ASSUME NEW m \in Notices PROVE InOnePlace(m)' /\ IsKept(m)'
    BY DEF InPlace
  <2>2. InOnePlace(m)
    BY DEF InPlace
  <2> QED BY <2>1, <2>2 DEF InOnePlace, IsKept, Buffered
<1> QED BY <1>1, <1>2, <1>3, <1>4, <1>5, <1>6, <1>7, <1>8 DEF Next

(* Loops and reads. *)

LEMMA LoopsStep ==
  ASSUME TypeOK, LoopsMark, [Next]_vars
  PROVE  LoopsMark'
<1>0. emitter \in [Emitters -> LoopType]
  BY DEF TypeOK, LoopType
<1>1. ASSUME NEW e \in Emitters, Visit(e) PROVE LoopsMark'
  <2>1. PICK f \in emitter[e].left :
          \/ emitter' = [emitter EXCEPT ![e].left = emitter[e].left \ {f}] /\ UNCHANGED seen
          \/ /\ seen' = seen \cup {f}
             /\ emitter' = [emitter EXCEPT ![e] =
                  [left |-> emitter[e].left \ {f}, at |-> IF Awaits(f) THEN f ELSE None]]
          \/ emitter' = [emitter EXCEPT ![e] = NoLoop] /\ UNCHANGED seen
    BY Zenon, <1>1 DEF Visit, Marks
  <2> QED BY <1>0, <2>1 DEF LoopsMark, LoopType, NoLoop
<1>2. ASSUME NEW e \in Emitters, MessageSent(e) PROVE LoopsMark'
  BY <1>0, <1>2 DEF MessageSent, LoopsMark, LoopType
<1>3. ASSUME NEW r \in Readers, FinishRefresh(r) PROVE LoopsMark'
  <2>1. \/ emitter' = emitter
        \/ \E e \in Emitters, left \in {reading[r].r.findings} :
             emitter' = [emitter EXCEPT ![e].left = left]
    BY Zenon, <1>3 DEF FinishRefresh
  <2>2. seen' = seen
    BY <1>3 DEF FinishRefresh
  <2> QED BY <1>0, <2>1, <2>2 DEF LoopsMark, LoopType
<1>4. CASE Stop
  BY <1>4 DEF Stop, LoopsMark, NoLoop
<1>5. CASE UNCHANGED <<emitter, seen>>
  BY <1>5 DEF LoopsMark
<1>6. \/ UNCHANGED <<emitter, seen>> \/ Stop
      \/ \E e \in Emitters : Visit(e) \/ MessageSent(e)
      \/ \E r \in Readers : FinishRefresh(r)
  BY Zenon DEF Next, BeginRefresh, ReadReport, Raise, DigestTimer, FlushNow, DigestSent, Scan,
     Start, Tick, vars
<1> QED BY <1>1, <1>2, <1>3, <1>4, <1>5, <1>6

\* A read in progress keeps others from beginning, and what it brings is as new as the cache.
LEMMA FreshStep ==
  ASSUME TypeOK, ReadsAreFresh, [Next]_vars
  PROVE  ReadsAreFresh' /\ (up /\ up' => cache' >= cache)
<1>0. /\ reading \in [Readers -> ReadType] /\ cache \in Nat /\ report \in Report
  BY DEF TypeOK, ReadType
<1>1. ASSUME NEW r \in Readers, BeginRefresh(r) PROVE ReadsAreFresh' /\ cache' = cache
  BY <1>0, <1>1 DEF BeginRefresh, SingleFlight, ReadsAreFresh, NoRead
<1>2. ASSUME NEW r \in Readers, ReadReport(r) PROVE ReadsAreFresh' /\ cache' = cache
  <2>1. /\ reading[r].is = "begun" /\ UNCHANGED <<report, cache>>
        /\ \/ reading' = [reading EXCEPT ![r] = [is |-> "read", r |-> report]]
           \/ reading' = [reading EXCEPT ![r] = NoRead]
    BY Zenon, <1>2 DEF ReadReport
  <2>2. reading[r] # NoRead
    BY <2>1 DEF NoRead
  <2> QED BY <1>0, <2>1, <2>2 DEF ReadsAreFresh, NoRead, Report
<1>3. ASSUME NEW r \in Readers, FinishRefresh(r) PROVE ReadsAreFresh' /\ cache' >= cache
  <2>1. /\ reading[r].is = "read" /\ report' = report
        /\ reading' = [reading EXCEPT ![r] = NoRead]
        /\ cache' = cache \/ cache' = reading[r].r.n
    BY Zenon, <1>3 DEF FinishRefresh
  <2>2. reading[r] # NoRead
    BY <2>1 DEF NoRead
  <2>3. reading[r].r \in Report
    BY <1>0, <2>1 DEF ReadType
  <2>4. cache <= reading[r].r.n /\ reading[r].r.n <= report.n /\ reading[r].r.n \in Nat
    BY <2>1, <2>3 DEF ReadsAreFresh, Report
  <2>5. \A other \in Readers : reading'[other] = NoRead
    BY <1>0, <2>1, <2>2 DEF ReadsAreFresh
  <2>6. cache' >= cache /\ cache' <= report'.n
    BY <1>0, <2>1, <2>4 DEF ReadsAreFresh, Report
  <2> QED BY <2>5, <2>6 DEF ReadsAreFresh, NoRead
<1>4. CASE Scan
  <2>0. PICK found \in SUBSET Findings, ok \in BOOLEAN :
          report' = [n |-> report.n + 1, findings |-> found, ok |-> ok]
    BY Zenon, <1>4 DEF Scan
  <2>1. report'.n = report.n + 1 /\ UNCHANGED <<reading, cache>>
    BY <1>4, <2>0 DEF Scan
  <2>2. \A r \in Readers : reading[r].is = "read" => reading[r].r \in Report
    BY <1>0 DEF ReadType
  <2> QED BY <1>0, <2>1, <2>2 DEF ReadsAreFresh, Report
<1>5. CASE Stop
  <2>1. cache' = 0 /\ report' = report /\ reading' = [r \in Readers |-> NoRead] /\ up' = FALSE
    BY <1>5 DEF Stop
  <2> QED BY <1>0, <2>1 DEF ReadsAreFresh, NoRead, Report
<1>6. CASE UNCHANGED <<report, reading, cache>>
  BY <1>0, <1>6 DEF ReadsAreFresh
<1>7. \/ UNCHANGED <<report, reading, cache>> \/ Scan \/ Stop
      \/ \E r \in Readers : BeginRefresh(r) \/ ReadReport(r) \/ FinishRefresh(r)
  BY Zenon DEF Next, Visit, MessageSent, Raise, DigestTimer, FlushNow, DigestSent, Start, Tick,
     vars, feed
<1> QED BY <1>0, <1>1, <1>2, <1>3, <1>4, <1>5, <1>6, <1>7

(* The theorems. *)

\* The invariant holds before the first start of the application.
THEOREM FeedInit == Init => FeedInv
<1> SUFFICES ASSUME Init PROVE FeedInv
  OBVIOUS
<1>1. TypeOK
  BY FeedTypesInit
<1>2. ASSUME NEW n \in Notices PROVE InOnePlace(n)
  BY DEF Init, InOnePlace, Buffered
<1>3. LoopsMark
  BY DEF Init, LoopsMark, NoLoop
<1>4. ReadsAreFresh
  BY DEF Init, ReadsAreFresh, NoRead
<1>5. OnlyFailuresLose
  BY DEF Init, OnlyFailuresLose
<1> QED BY <1>1, <1>2, <1>3, <1>4, <1>5 DEF FeedInv

\* Every step of the reads, the loops over findings, the notifier, the digest, the clock and
\* the user keeps it, whatever fails.
THEOREM FeedStep == FeedInv /\ [Next]_vars => FeedInv'
<1> SUFFICES ASSUME FeedInv, [Next]_vars PROVE FeedInv'
  OBVIOUS
<1>0. TypeOK /\ LoopsMark /\ ReadsAreFresh /\ OnlyFailuresLose /\ \A n \in Notices : InOnePlace(n)
  BY DEF FeedInv
<1>1. TypeOK'
  BY <1>0, FeedTypesStep
<1>2. InPlace
  BY <1>0, KeptIsNotLost DEF InPlace
<1>3. InPlace'
  BY <1>0, <1>2, PlacesStep
<1>4. OnlyFailuresLose'
  <2>1. seen' \cup raised' \subseteq Notices
    BY <1>1 DEF TypeOK
  <2> QED BY <1>3, <2>1 DEF InPlace, OnlyFailuresLose, IsKept, Buffered
<1>5. LoopsMark' /\ ReadsAreFresh'
  BY <1>0, LoopsStep, FreshStep
<1>6. \A n \in Notices : InOnePlace(n)'
  BY <1>3 DEF InPlace
<1> QED BY <1>1, <1>4, <1>5, <1>6 DEF FeedInv

\* So it holds throughout.
THEOREM FeedInvariance == Spec => []FeedInv
  BY FeedInit, FeedStep, PTL DEF Spec

\* The report, the cache, the loops, the buffer and the digest stay within their types; among
\* others, the buffer of quiet hours never grows beyond its cap.
THEOREM FeedTypes == Spec => []TypeOK
<1>1. FeedInv => TypeOK
  BY DEF FeedInv
<1> QED BY <1>1, FeedInvariance, PTL

\* Nobody is told anything twice (notifier.ts): a finding is marked before anybody is told, so
\* overlapping loops over two reports do not announce it twice, and the buffer is cleared
\* before the digest is sent, so a digest never comes again.
THEOREM ToldAtMostOnce == Spec => []ToldOnce
<1>1. FeedInv => ToldOnce
  BY DEF FeedInv, InOnePlace, ToldOnce
<1> QED BY <1>1, FeedInvariance, PTL

\* Marking a finding before telling the user loses it only to failures: unless something failed
\* or there was no room in the buffer or in the digest, the user was told, or the notice
\* waits.
THEOREM NothingIsLost == Spec => []OnlyFailuresLose
<1>1. FeedInv => OnlyFailuresLose
  BY DEF FeedInv
<1> QED BY <1>1, FeedInvariance, PTL

\* The status cache never goes back (refreshStatusCache in pcdoctorBridge.ts): callers share the
\* read in progress, so no older report is put in place of a newer one, however long a read
\* takes.
THEOREM CacheIsMonotone == Spec => CacheNeverGoesBack
<1>1. FeedInv /\ [Next]_vars => (up /\ up' => cache' >= cache)
  BY FreshStep DEF FeedInv
<1> QED BY <1>1, FeedInvariance, PTL DEF Spec, CacheNeverGoesBack
=============================================================================
