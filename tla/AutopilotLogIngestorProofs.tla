--------------------- MODULE AutopilotLogIngestorProofs ---------------------
EXTENDS AutopilotLogIngestor, TLAPS

(* What the steps do, variable by variable. *)

\* A drain of file d inserts the lines up to where it stops, and marks what it leaves.
DrainsTo(d, offset, to) ==
  /\ to \in StartOffset(d, offset)..Len(log[d])
  /\ Insert(Inserted(d, StartOffset(d, offset), to))

\* History only grows, and every line of file d after `from' that is not malformed, and the
\* half-written one, is marked.
Marks(d, from) ==
  /\ history' \in [Lines -> SUBSET {"failed", "cut", "down"}]
  /\ \A l \in Lines : history[l] \subseteq history'[l]
  /\ \A i \in (from + 1)..Len(log[d]) :
       log[d][i] \in malformed \/ history'[log[d][i]] \cap {"failed", "cut"} # {}
  /\ partial.day = d => history'[partial.line] \cap {"failed", "cut"} # {}

LEMMA StartType ==
  ASSUME log \in [Days -> Seq(Lines)], NEW d \in Days, NEW offset \in Nat
  PROVE  StartOffset(d, offset) \in 0..Len(log[d])
BY DEF StartOffset

LEMMA PartialType == TypeOK => partial = NoPartial \/ partial \in [day : Days, line : Lines]
<1> SUFFICES ASSUME TypeOK, partial # NoPartial PROVE partial \in [day : Days, line : Lines]
  OBVIOUS
<1>1. partial \in [day : Days, line : 1..written] /\ written \in 0..MaxLines
  BY DEF TypeOK
<1>2. 1..written \subseteq Lines
  BY <1>1, BoundAssumption DEF Lines
<1> QED BY <1>1, <1>2

LEMMA MarkFailedEffect ==
  ASSUME log \in [Days -> Seq(Lines)], history \in [Lines -> SUBSET {"failed", "cut", "down"}],
         partial = NoPartial \/ partial \in [day : Days, line : Lines],
         NEW d \in Days, NEW from \in 0..Len(log[d]), MarkFailed(d, from)
  PROVE  Marks(d, from)
<1> DEFINE rest == ({log[d][i] : i \in (from + 1)..Len(log[d])} \ malformed)
                     \cup {l \in Lines : partial = [day |-> d, line |-> l]}
<1>1. history' = [l \in Lines |-> IF l \in rest THEN history[l] \cup {"failed"} ELSE history[l]]
  BY DEF MarkFailed
<1>2. \A i \in (from + 1)..Len(log[d]) :
         log[d][i] \in Lines /\ (log[d][i] \in malformed \/ log[d][i] \in rest)
  OBVIOUS
<1>3. partial.day = d => partial.line \in rest /\ partial.line \in Lines
  BY DEF NoPartial, Days
<1> HIDE DEF rest
<1> QED BY <1>1, <1>2, <1>3 DEF Marks

LEMMA MarkCutEffect ==
  ASSUME log \in [Days -> Seq(Lines)], history \in [Lines -> SUBSET {"failed", "cut", "down"}],
         partial = NoPartial \/ partial \in [day : Days, line : Lines],
         NEW d \in Days, MarkCut(d)
  PROVE  Marks(d, Len(log[d]))
<1>0. \A i \in (Len(log[d]) + 1)..Len(log[d]) : FALSE
  <2>1. Len(log[d]) \in Nat
    OBVIOUS
  <2> QED BY <2>1
<1>1. CASE partial.day = d
  <2>1. partial.line \in Lines
    BY <1>1 DEF NoPartial, Days
  <2>2. history' = [history EXCEPT ![partial.line] = @ \cup {"cut"}]
    BY <1>1 DEF MarkCut
  <2> QED BY <1>0, <2>1, <2>2 DEF Marks
<1>2. CASE partial.day # d
  <2>1. history' = history
    BY <1>2 DEF MarkCut
  <2> QED BY <1>0, <1>2, <2>1 DEF Marks
<1> QED BY <1>1, <1>2

LEMMA DrainEffect ==
  ASSUME TypeOK, NEW d \in Days, NEW offset \in Nat, NEW newOffset, Drain(d, offset, newOffset)
  PROVE  /\ DrainsTo(d, offset, newOffset) /\ Marks(d, newOffset)
         /\ UNCHANGED faults \/ Fault("insert")
<1>1. /\ log \in [Days -> Seq(Lines)] /\ history \in [Lines -> SUBSET {"failed", "cut", "down"}]
      /\ partial = NoPartial \/ partial \in [day : Days, line : Lines]
  BY PartialType DEF TypeOK
<1> DEFINE from == StartOffset(d, offset)
<1>2. from \in 0..Len(log[d])
  BY <1>1, StartType
<1>3. CASE /\ newOffset = Len(log[d]) /\ Insert(Inserted(d, from, Len(log[d])))
           /\ MarkCut(d) /\ NoFault
  <2>1. Marks(d, newOffset)
    BY <1>1, <1>3, MarkCutEffect
  <2>2. newOffset \in from..Len(log[d])
    BY <1>2, <1>3
  <2> QED BY <1>3, <2>1, <2>2 DEF DrainsTo, NoFault
<1>4. ASSUME NEW stop \in MayBreakAt(d, from), Fault("insert"), newOffset = OffsetAfterHalt(stop),
             Insert(Inserted(d, from, stop)), MarkFailed(d, stop)
      PROVE  DrainsTo(d, offset, newOffset) /\ Marks(d, newOffset)
  <2>1. stop \in from..Len(log[d]) /\ newOffset = stop /\ stop \in 0..Len(log[d])
    BY <1>1, <1>2, <1>4 DEF MayBreakAt, OffsetAfterHalt
  <2> QED BY <1>1, <1>4, <2>1, MarkFailedEffect DEF DrainsTo
<1> QED BY <1>3, <1>4 DEF Drain

\* Rows are only added, one for each well-formed line that is passed.
LEMMA InsertEffect ==
  ASSUME log \in [Days -> Seq(Lines)], rows \in [Lines -> Nat], NEW d \in Days,
         NEW from \in Nat, NEW to \in from..Len(log[d]), Insert(Inserted(d, from, to))
  PROVE  /\ rows' \in [Lines -> Nat]
         /\ \A l \in Lines :
              \/ rows'[l] = rows[l]
              \/ rows'[l] = rows[l] + 1 /\ \E i \in (from + 1)..to : l = log[d][i]
         /\ \A i \in (from + 1)..to : log[d][i] \in malformed \/ rows'[log[d][i]] > 0
<1>1. \A i \in (from + 1)..to : log[d][i] \in Lines
  OBVIOUS
<1>2. rows' = [l \in Lines |-> IF l \in Inserted(d, from, to) THEN rows[l] + 1 ELSE rows[l]]
  BY DEF Insert
<1>3. \A l \in Inserted(d, from, to) : \E i \in (from + 1)..to : l = log[d][i]
  BY DEF Inserted
<1>4. \A i \in (from + 1)..to : log[d][i] \in malformed \/ log[d][i] \in Inserted(d, from, to)
  BY DEF Inserted
<1> QED BY <1>1, <1>2, <1>3, <1>4

\* Everything a pass writes has its type.
LEMMA PassTypeStep ==
  ASSUME TypeOK, [Next]_vars
  PROVE  pass' \in [Passes -> PassType]
<1>0. /\ pass \in [Passes -> PassType] /\ today \in 0..MaxDay /\ checkpoint \in Positions
      /\ MaxDay \in Nat /\ MaxLines \in Nat
  BY BoundAssumption DEF TypeOK, Days
<1>1. ASSUME NEW p \in Passes, BeginPass(p) PROVE pass' \in [Passes -> PassType]
  <2>1. ReadCheckpoint \in Positions /\ StartOfToday \in Positions
    BY <1>0 DEF ReadCheckpoint, StartOfToday, Positions
  <2>2. PICK cp \in Positions : StartsFrom(p, cp)
    BY <1>1, <2>1 DEF BeginPass
  <2>3. FirstStep(cp) \in {"prior", "current"}
    BY DEF FirstStep
  <2> DEFINE offset == IF cp.date = today THEN cp.offset ELSE 0
  <2>4. offset \in 0..MaxLines
    BY <1>0 DEF Positions
  <2>5. pass' = [pass EXCEPT ![p] = [pc |-> FirstStep(cp), cp |-> cp, day |-> today,
                                     date |-> today, offset |-> offset]]
    BY <2>2 DEF StartsFrom
  <2> HIDE DEF offset
  <2> QED BY <1>0, <2>3, <2>4, <2>5 DEF PassType
<1>2. ASSUME NEW p \in Passes, NEW pc \in {"current", "save"},
             pass' = [pass EXCEPT ![p].pc = pc]
      PROVE  pass' \in [Passes -> PassType]
  BY <1>0, <1>2 DEF PassType
<1>3. ASSUME NEW p \in Passes, NEW newOffset \in 0..MaxLines,
             pass' = [pass EXCEPT ![p] =
                        [@ EXCEPT !.pc = "savePrior",
                                  !.cp = [date |-> pass[p].cp.date, offset |-> newOffset]]]
      PROVE  pass' \in [Passes -> PassType]
  <2> DEFINE cp == [date |-> pass[p].cp.date, offset |-> newOffset]
  <2>1. cp \in Positions
    BY <1>0 DEF PassType, Positions
  <2>2. pass' = [pass EXCEPT ![p] = [@ EXCEPT !.pc = "savePrior", !.cp = cp]]
    BY <1>3
  <2> HIDE DEF cp
  <2>3. [pass[p] EXCEPT !.pc = "savePrior", !.cp = cp] \in PassType
    BY <1>0, <2>1 DEF PassType
  <2> QED BY <1>0, <2>2, <2>3
<1>4. ASSUME NEW p \in Passes, NEW newOffset \in 0..MaxLines,
             pass' = [pass EXCEPT ![p] = [@ EXCEPT !.pc = "save", !.offset = newOffset]]
      PROVE  pass' \in [Passes -> PassType]
  BY <1>0, <1>4 DEF PassType
<1>5. Idle \in PassType
  BY <1>0 DEF Idle, NoCheckpoint, PassType, Positions
<1>6. ASSUME NEW p \in Passes, PassStep(p) PROVE pass' \in [Passes -> PassType]
  <2>1. CASE DrainPrior(p)
    BY <1>2, <1>3, <2>1 DEF DrainPrior
  <2>2. CASE SavePrior(p)
    BY <1>2, <2>2 DEF SavePrior
  <2>3. CASE DrainCurrent(p)
    BY <1>2, <1>4, <2>3 DEF DrainCurrent
  <2>4. CASE Save(p)
    BY <1>0, <1>5, <2>4 DEF Save
  <2> QED BY <1>6, <2>1, <2>2, <2>3, <2>4 DEF PassStep
<1>7. CASE World \/ StartApp
  BY <1>0, <1>7 DEF World, Midnight, AppendLine, AppendPart, AppendRest, Truncate, StartApp
<1>8. CASE Quit \/ Crash
  BY <1>5, <1>8 DEF Quit, Crash, Down
<1> QED BY <1>0, <1>1, <1>6, <1>7, <1>8 DEF Next, vars

(* The files *)

\* The files after line l was appended to the one of day d.
Appended(d, l) == log' = [log EXCEPT ![d] = Append(@, l)]

LEMMA AppendEffect ==
  ASSUME log \in [Days -> Seq(Lines)], NEW d \in Days, NEW l \in Lines, Appended(d, l)
  PROVE  /\ log' \in [Days -> Seq(Lines)]
         /\ Len(log'[d]) = Len(log[d]) + 1 /\ log'[d][Len(log[d]) + 1] = l
         /\ \A e \in Days \ {d} : log'[e] = log[e]
         /\ \A i \in 1..Len(log[d]) : log'[d][i] = log[d][i]
<1>1. log[d] \in Seq(Lines)
  OBVIOUS
<1>2. log'[d] = Append(log[d], l)
  BY DEF Appended
<1>3. Append(log[d], l) \in Seq(Lines)
  BY <1>1
<1>4. log' \in [Days -> Seq(Lines)]
  BY <1>3 DEF Appended
<1>5. /\ Len(Append(log[d], l)) = Len(log[d]) + 1
      /\ Append(log[d], l)[Len(log[d]) + 1] = l
      /\ \A i \in 1..Len(log[d]) : Append(log[d], l)[i] = log[d][i]
  BY <1>1
<1>6. \A e \in Days \ {d} : log'[e] = log[e]
  BY DEF Appended
<1> QED BY <1>2, <1>4, <1>5, <1>6

\* The world's steps, with the line that a file gets.
LEMMA WorldEffect ==
  ASSUME TypeOK, LinesInv, World
  PROVE  \/ UNCHANGED <<log, written, malformed, partial, truncated>> /\ today' = today + 1
         \/ /\ UNCHANGED <<today, partial, truncated>> /\ partial = NoPartial
            /\ written' = written + 1 /\ written < MaxLines
            /\ malformed' = malformed \/ malformed' = malformed \cup {written + 1}
            /\ Appended(today, written + 1)
         \/ /\ UNCHANGED <<today, log, malformed, truncated>> /\ partial = NoPartial
            /\ written' = written + 1 /\ written < MaxLines
            /\ partial' = [day |-> today, line |-> written + 1]
         \/ /\ UNCHANGED <<today, written, malformed, truncated>> /\ partial # NoPartial
            /\ partial' = NoPartial /\ Appended(partial.day, partial.line)
         \/ \E d \in Days : /\ UNCHANGED <<today, written, malformed, partial>>
                            /\ log' = [log EXCEPT ![d] = <<>>]
                            /\ truncated' = truncated \cup {d} /\ partial.day # d
<1>1. CASE Midnight
  BY <1>1 DEF Midnight, auxVars
<1>2. CASE AppendLine
  BY <1>2 DEF AppendLine, Appended
<1>3. CASE AppendPart
  BY <1>3 DEF AppendPart
<1>4. CASE AppendRest
  BY <1>4 DEF AppendRest, Appended, auxVars
<1>5. ASSUME NEW d \in Days, Truncate(d)
      PROVE  /\ UNCHANGED <<today, written, malformed, partial>>
             /\ log' = [log EXCEPT ![d] = <<>>]
             /\ truncated' = truncated \cup {d} /\ partial.day # d
  BY <1>5 DEF Truncate
<1> QED BY <1>1, <1>2, <1>3, <1>4, <1>5 DEF World

LEMMA Entries ==
  ASSUME log \in [Days -> Seq(Lines)], NEW d \in Days
  PROVE  Len(log[d]) \in Nat /\ \A i \in 1..Len(log[d]) : log[d][i] \in Nat \ {0}
<1>1. log[d] \in Seq(Lines)
  OBVIOUS
<1>2. \A i \in 1..Len(log[d]) : log[d][i] \in Lines
  BY <1>1
<1> QED BY <1>1, <1>2 DEF Lines

InOrderNext(last) ==
  \A d \in Days : \A i \in 1..Len(log'[d]) : i <= log'[d][i] /\ log'[d][i] <= last

\* A new last line keeps the files in order.
LEMMA AppendOrder ==
  ASSUME log \in [Days -> Seq(Lines)], NEW d \in Days, NEW l \in Lines, Appended(d, l),
         InOrder(l - 1), OnePlace
  PROVE  InOrderNext(l) /\ OnePlace'
<1>l. l \in Nat \ {0}
  BY DEF Lines
<1>1. Len(log[d]) + 1 <= l
  <2>1. CASE Len(log[d]) = 0
    BY <1>l, <2>1
  <2>2. CASE Len(log[d]) # 0
    <3>1. Len(log[d]) \in 1..Len(log[d]) /\ log[d][Len(log[d])] \in Nat /\ Len(log[d]) \in Nat
      BY <2>2, Entries
    <3>2. Len(log[d]) <= log[d][Len(log[d])] /\ log[d][Len(log[d])] <= l - 1
      BY <3>1 DEF InOrder
    <3> QED BY <1>l, <3>1, <3>2
  <2> QED BY <2>1, <2>2
<1>2. ASSUME NEW e \in Days, NEW i \in 1..Len(log'[e])
      PROVE  \/ i \in 1..Len(log[e]) /\ log'[e][i] = log[e][i] /\ log[e][i] < l
                /\ i <= log[e][i] /\ log[e][i] \in Nat
             \/ e = d /\ i = Len(log[d]) + 1 /\ log'[e][i] = l
  <2>1. CASE e # d
    BY <1>l, <2>1, AppendEffect, Entries DEF InOrder
  <2>2. CASE e = d /\ i = Len(log[d]) + 1
    BY <2>2, AppendEffect
  <2>3. CASE e = d /\ i # Len(log[d]) + 1
    <3>1. i \in 1..Len(log[d])
      BY <2>3, AppendEffect, Entries
    <3> QED BY <1>l, <2>3, <3>1, AppendEffect, Entries DEF InOrder
  <2> QED BY <2>1, <2>2, <2>3
<1>3. InOrderNext(l)
  <2> SUFFICES ASSUME NEW e \in Days, NEW i \in 1..Len(log'[e])
               PROVE  i <= log'[e][i] /\ log'[e][i] <= l
    BY DEF InOrderNext
  <2>1. CASE i <= log[e][i] /\ log[e][i] \in Nat /\ log[e][i] < l /\ log'[e][i] = log[e][i]
    BY <1>l, <2>1
  <2>2. CASE i = Len(log[d]) + 1 /\ log'[e][i] = l
    BY <1>l, <1>1, <2>2
  <2> QED BY <1>2, <2>1, <2>2
<1>4. OnePlace'
  <2> SUFFICES ASSUME NEW e \in Days, NEW i \in 1..Len(log'[e]), NEW f \in Days,
                      NEW j \in 1..Len(log'[f]), log'[e][i] = log'[f][j]
               PROVE  e = f /\ i = j
    BY DEF OnePlace
  <2> DEFINE Old(g, k) == k \in 1..Len(log[g]) /\ log'[g][k] = log[g][k] /\ log[g][k] < l
             New(g, k) == g = d /\ k = Len(log[d]) + 1 /\ log'[g][k] = l
  <2>1. (Old(e, i) \/ New(e, i)) /\ (Old(f, j) \/ New(f, j))
    BY <1>2
  <2>2. CASE Old(e, i) /\ Old(f, j)
    <3>1. i \in 1..Len(log[e]) /\ j \in 1..Len(log[f]) /\ log[e][i] = log[f][j]
      BY <2>2
    <3> QED BY <3>1 DEF OnePlace
  <2>3. CASE New(e, i) /\ New(f, j)
    BY <2>3
  <2>4. ~(l < l)
    BY <1>l
  <2> QED BY <2>1, <2>2, <2>3, <2>4
<1> QED BY <1>3, <1>4

LEMMA LinesTypes ==
  TypeOK => /\ log \in [Days -> Seq(Lines)] /\ written \in 0..MaxLines /\ today \in Days
            /\ partial = NoPartial \/ partial \in [day : Days, line : Lines]
            /\ partial = NoPartial \/ partial \in [day : Days, line : 1..written]
            /\ malformed \subseteq 1..written /\ truncated \subseteq Days
BY PartialType DEF TypeOK

LEMMA LinesStep ==
  ASSUME TypeOK, LinesInv, [Next]_vars
  PROVE  /\ today' \in Days /\ log' \in [Days -> Seq(Lines)] /\ written' \in 0..MaxLines
         /\ malformed' \subseteq 1..written'
         /\ partial' = NoPartial \/ partial' \in [day : Days, line : 1..written']
         /\ truncated' \subseteq Days
         /\ LinesInv'
<1>0. /\ log \in [Days -> Seq(Lines)] /\ written \in 0..MaxLines /\ today \in Days
      /\ written \in Nat /\ today \in Nat /\ MaxLines \in Nat
      /\ partial = NoPartial \/ partial \in [day : Days, line : 1..written]
      /\ malformed \subseteq 1..written /\ truncated \subseteq Days
  BY LinesTypes, BoundAssumption DEF Days
<1> DEFINE Goal == /\ today' \in Days /\ log' \in [Days -> Seq(Lines)]
                   /\ written' \in 0..MaxLines /\ malformed' \subseteq 1..written'
                   /\ partial' = NoPartial \/ partial' \in [day : Days, line : 1..written']
                   /\ truncated' \subseteq Days /\ LinesInv'
<1>1. ASSUME NEW p \in Passes, BeginPass(p) \/ PassStep(p)
      PROVE  UNCHANGED <<worldVars, truncated>>
  BY <1>1 DEF BeginPass, PassStep, DrainPrior, SavePrior, DrainCurrent, Save, auxVars
<1>2. ASSUME Quit \/ Crash \/ StartApp PROVE UNCHANGED <<worldVars, truncated>>
  BY <1>2 DEF Quit, Crash, StartApp, auxVars
<1>3. ASSUME UNCHANGED <<worldVars, truncated>> PROVE Goal
  BY <1>0, <1>3 DEF worldVars, LinesInv, InOrder, OnePlace
<1>4. ASSUME UNCHANGED <<log, written, malformed, partial, truncated>>, today' = today + 1,
             today' \in Days
      PROVE  Goal
  <2>1. LinesInv'
    <3>1. partial # NoPartial => partial.day <= today + 1
      BY <1>0 DEF LinesInv, Days
    <3> QED BY <1>4, <3>1 DEF LinesInv, InOrder, OnePlace
  <2> QED BY <1>0, <1>4, <2>1
<1>5. ASSUME UNCHANGED <<today, partial, truncated>>, partial = NoPartial,
             written' = written + 1, written < MaxLines,
             malformed' = malformed \/ malformed' = malformed \cup {written + 1},
             Appended(today, written + 1)
      PROVE  Goal
  <2>1. written + 1 \in Lines /\ (written + 1) - 1 = written
    BY <1>0, <1>5 DEF Lines
  <2>2. InOrder((written + 1) - 1) /\ OnePlace
    BY <1>5, <2>1 DEF LinesInv
  <2>3. InOrderNext(written + 1) /\ OnePlace'
    BY <1>0, <1>5, <2>1, <2>2, AppendOrder
  <2>4. log' \in [Days -> Seq(Lines)]
    BY <1>0, <1>5, <2>1, AppendEffect
  <2>5. LinesInv'
    BY <1>5, <2>3 DEF LinesInv, InOrder, InOrderNext
  <2>6. malformed' \subseteq 1..written'
    <3>1. 1..written \subseteq 1..written' /\ written + 1 \in 1..written'
      BY <1>0, <1>5
    <3> QED BY <1>0, <1>5, <3>1
  <2>7. written' \in 0..MaxLines
    BY <1>0, <1>5
  <2> QED BY <1>0, <1>5, <2>4, <2>5, <2>6, <2>7
<1>6. ASSUME UNCHANGED <<today, log, malformed, truncated>>, partial = NoPartial,
             written' = written + 1, written < MaxLines,
             partial' = [day |-> today, line |-> written + 1]
      PROVE  Goal
  <2>1. malformed' \subseteq 1..written' /\ written' \in 0..MaxLines
    BY <1>0, <1>6
  <2>2. partial' \in [day : Days, line : 1..written'] /\ partial' # NoPartial
    BY <1>0, <1>6 DEF NoPartial
  <2>3. InOrderNext(written' - 1) /\ OnePlace'
    <3>1. written' - 1 = written
      BY <1>0, <1>6
    <3> QED BY <1>6, <3>1 DEF LinesInv, InOrder, InOrderNext, OnePlace
  <2>4. LinesInv'
    BY <1>0, <1>6, <2>2, <2>3 DEF LinesInv, InOrder, InOrderNext
  <2> QED BY <1>0, <1>6, <2>1, <2>2, <2>4
<1>7. ASSUME UNCHANGED <<today, written, malformed, truncated>>, partial # NoPartial,
             partial' = NoPartial, Appended(partial.day, partial.line)
      PROVE  Goal
  <2>1. partial.day \in Days /\ partial.line \in Lines /\ partial.line = written
    BY <1>7, PartialType DEF LinesInv
  <2>2. InOrder(partial.line - 1) /\ OnePlace
    BY <1>7, <2>1 DEF LinesInv
  <2>3. InOrderNext(written) /\ OnePlace'
    BY <1>0, <1>7, <2>1, <2>2, AppendOrder
  <2>4. log' \in [Days -> Seq(Lines)]
    BY <1>0, <1>7, <2>1, AppendEffect
  <2>5. LinesInv'
    BY <1>7, <2>3 DEF LinesInv, InOrder, InOrderNext
  <2> QED BY <1>0, <1>7, <2>4, <2>5
<1>8. ASSUME NEW d \in Days, UNCHANGED <<today, written, malformed, partial>>,
             log' = [log EXCEPT ![d] = <<>>], truncated' = truncated \cup {d}
      PROVE  Goal
  <2>1. log' \in [Days -> Seq(Lines)] /\ truncated' \subseteq Days
    BY <1>0, <1>8
  <2>2. \A e \in Days : e # d => log'[e] = log[e]
    BY <1>0, <1>8
  <2>3. \A i \in 1..Len(log'[d]) : FALSE
    BY <1>0, <1>8
  <2>4. InOrder(IF partial = NoPartial THEN written ELSE written - 1)'
    BY <1>8, <2>2, <2>3 DEF LinesInv, InOrder
  <2>5. OnePlace'
    BY <2>2, <2>3 DEF LinesInv, OnePlace
  <2> QED BY <1>0, <1>8, <2>1, <2>4, <2>5 DEF LinesInv
<1>9. ASSUME World PROVE Goal
  <2>1. today' = today + 1 => today' \in Days
    <3>1. today' = today \/ (today < MaxDay /\ today' = today + 1)
      BY <1>9 DEF World, Midnight, AppendLine, AppendPart, AppendRest, Truncate
    <3> QED BY <1>0, <3>1, BoundAssumption DEF Days
  <2> HIDE DEF Goal
  <2> QED BY <1>4, <1>5, <1>6, <1>7, <1>8, <1>9, <2>1, WorldEffect
<1> QED BY <1>1, <1>2, <1>3, <1>9 DEF Next, vars, worldVars

(* The passes *)

\* One pass runs at a time.
LEMMA OnePass ==
  ASSUME CursorInv, NEW p \in Passes, pass[p].pc # "idle", NEW q \in Passes, pass[q].pc # "idle"
  PROVE  p = q
BY DEF CursorInv, PassInv

LEMMA NoneInFlight ==
  ASSUME CursorInv, inFlight = NoPass, NEW p \in Passes
  PROVE  pass[p].pc = "idle"
BY PassAssumption DEF CursorInv, PassInv

\* What each step of pass p makes of the pass, of _inFlight and of the checkpoint.
BeginsFrom(p, cp) ==
  /\ inFlight = NoPass /\ inFlight' = p
  /\ pass'[p].pc = FirstStep(cp) /\ pass'[p].cp = cp
  /\ pass'[p].day = today /\ pass'[p].date = today
  /\ pass'[p].offset = IF cp.date = today THEN cp.offset ELSE 0
  /\ UNCHANGED <<worldVars, rows, checkpoint, visited, truncated>>

Begins(p) == BeginsFrom(p, ReadCheckpoint) /\ UNCHANGED <<faults, lostPlaces, unread>>

\* The pass begins without having read the checkpoint there is.
Misses(p) ==
  /\ BeginsFrom(p, StartOfToday) /\ checkpoint # NoCheckpoint
  /\ Fault("checkpointRead") /\ lostPlaces' = lostPlaces + 1
  /\ unread' = unread \cup ({checkpoint.date} \ {today})

GoesTo(p, pc, cp, offset) ==
  /\ pass'[p].pc = pc /\ pass'[p].cp = cp /\ pass'[p].offset = offset
  /\ pass'[p].day = pass[p].day /\ pass'[p].date = pass[p].date
  /\ inFlight' = inFlight

Writes(cp) == checkpoint' = cp /\ visited' = visited \cup {cp.date}

LEMMA BeginEffect ==
  ASSUME pass \in [Passes -> PassType], NEW p \in Passes, BeginPass(p)
  PROVE  (Begins(p) \/ Misses(p)) /\ \A q \in Passes \ {p} : pass'[q] = pass[q]
<1>1. ASSUME NEW cp, StartsFrom(p, cp)
      PROVE  BeginsFrom(p, cp) /\ \A q \in Passes \ {p} : pass'[q] = pass[q]
  BY <1>1 DEF BeginPass, MayBegin, StartsFrom, BeginsFrom
<1> QED BY <1>1 DEF BeginPass, Begins, Misses

LEMMA DrainPriorEffect ==
  ASSUME TypeOK, NEW p \in Passes, DrainPrior(p)
  PROVE  /\ pass[p].pc = "prior" /\ UNCHANGED <<worldVars, checkpoint, visited, truncated,
                                                lostPlaces>>
         /\ \A q \in Passes \ {p} : pass'[q] = pass[q]
         /\ \/ \E to \in 0..MaxLines :
                 /\ Drain(pass[p].cp.date, pass[p].cp.offset, to)
                 /\ GoesTo(p, "savePrior", [date |-> pass[p].cp.date, offset |-> to], pass[p].offset)
            \/ /\ DrainThrows(pass[p].cp.date, pass[p].cp.offset)
               /\ GoesTo(p, "current", pass[p].cp, pass[p].offset)
<1>0. pass \in [Passes -> PassType]
  BY DEF TypeOK
<1>1. /\ pass[p].pc = "prior" /\ UNCHANGED <<worldVars, checkpoint, visited, truncated, lostPlaces>>
      /\ inFlight' = inFlight
  BY DEF DrainPrior
<1>2. ASSUME NEW to \in 0..MaxLines,
             pass' = [pass EXCEPT ![p] =
                        [@ EXCEPT !.pc = "savePrior",
                                  !.cp = [date |-> pass[p].cp.date, offset |-> to]]]
      PROVE  /\ \A q \in Passes \ {p} : pass'[q] = pass[q]
             /\ GoesTo(p, "savePrior", [date |-> pass[p].cp.date, offset |-> to], pass[p].offset)
  BY <1>0, <1>1, <1>2 DEF GoesTo, PassType
<1>3. ASSUME pass' = [pass EXCEPT ![p].pc = "current"]
      PROVE  /\ \A q \in Passes \ {p} : pass'[q] = pass[q]
             /\ GoesTo(p, "current", pass[p].cp, pass[p].offset)
  BY <1>0, <1>1, <1>3 DEF GoesTo, PassType
<1> QED BY <1>1, <1>2, <1>3 DEF DrainPrior

LEMMA SavePriorEffect ==
  ASSUME TypeOK, NEW p \in Passes, SavePrior(p)
  PROVE  /\ pass[p].pc = "savePrior" /\ UNCHANGED <<worldVars, truncated, rows, history>>
         /\ \A q \in Passes \ {p} : pass'[q] = pass[q]
         /\ GoesTo(p, "current", pass[p].cp, pass[p].offset)
         /\ \/ Writes(pass[p].cp) /\ UNCHANGED <<lostPlaces, faults>>
            \/ Fault("save") /\ lostPlaces' = lostPlaces + 1 /\ UNCHANGED <<checkpoint, visited>>
<1>0. pass \in [Passes -> PassType]
  BY DEF TypeOK
<1>1. /\ pass[p].pc = "savePrior" /\ UNCHANGED <<worldVars, truncated, rows, history>>
      /\ inFlight' = inFlight /\ pass' = [pass EXCEPT ![p].pc = "current"]
  BY DEF SavePrior
<1>2. /\ \A q \in Passes \ {p} : pass'[q] = pass[q]
      /\ GoesTo(p, "current", pass[p].cp, pass[p].offset)
  BY <1>0, <1>1 DEF GoesTo, PassType
<1> QED BY <1>1, <1>2 DEF SavePrior, WriteCheckpoint, WriteFails, PriorCheckpoint, Writes, NoFault

LEMMA DrainCurrentEffect ==
  ASSUME TypeOK, NEW p \in Passes, DrainCurrent(p)
  PROVE  /\ pass[p].pc = "current" /\ UNCHANGED <<worldVars, checkpoint, visited, truncated,
                                                  lostPlaces>>
         /\ \A q \in Passes \ {p} : pass'[q] = pass[q]
         /\ \/ \E to \in 0..MaxLines : /\ Drain(pass[p].day, pass[p].offset, to)
                                       /\ GoesTo(p, "save", pass[p].cp, to)
            \/ /\ DrainThrows(pass[p].day, pass[p].offset)
               /\ GoesTo(p, "save", pass[p].cp, pass[p].offset)
<1>0. pass \in [Passes -> PassType]
  BY DEF TypeOK
<1>1. /\ pass[p].pc = "current" /\ UNCHANGED <<worldVars, checkpoint, visited, truncated,
                                               lostPlaces>>
      /\ inFlight' = inFlight
  BY DEF DrainCurrent
<1>2. ASSUME NEW to \in 0..MaxLines,
             pass' = [pass EXCEPT ![p] = [@ EXCEPT !.pc = "save", !.offset = to]]
      PROVE  (\A q \in Passes \ {p} : pass'[q] = pass[q]) /\ GoesTo(p, "save", pass[p].cp, to)
  BY <1>0, <1>1, <1>2 DEF GoesTo, PassType
<1>3. ASSUME pass' = [pass EXCEPT ![p].pc = "save"]
      PROVE  /\ \A q \in Passes \ {p} : pass'[q] = pass[q]
             /\ GoesTo(p, "save", pass[p].cp, pass[p].offset)
  BY <1>0, <1>1, <1>3 DEF GoesTo, PassType
<1> QED BY <1>1, <1>2, <1>3 DEF DrainCurrent

LEMMA SaveEffect ==
  ASSUME TypeOK, NEW p \in Passes, Save(p)
  PROVE  /\ pass[p].pc = "save" /\ UNCHANGED <<worldVars, truncated, rows, history>>
         /\ pass' = [pass EXCEPT ![p] = Idle] /\ inFlight' = NoPass
         /\ \/ /\ NextCheckpoint(p) = pass[p].cp
               /\ UNCHANGED <<checkpoint, visited, lostPlaces, faults>>
            \/ /\ NextCheckpoint(p) # pass[p].cp
               /\ Writes(NextCheckpoint(p)) /\ UNCHANGED <<lostPlaces, faults>>
            \/ Fault("save") /\ lostPlaces' = lostPlaces + 1 /\ UNCHANGED <<checkpoint, visited>>
BY DEF Save, WriteCheckpoint, WriteFails, Writes, NextCheckpoint, PassOver, NoFault

\* Whatever ends the application ends its passes.
LEMMA DownEffect ==
  ASSUME Quit \/ Crash
  PROVE  /\ UNCHANGED <<worldVars, checkpoint, visited, truncated, history>> /\ inFlight' = NoPass
         /\ pass' = [p \in Passes |-> Idle]
BY DEF Quit, Crash, Down, auxVars

LEMMA CursorTypes ==
  TypeOK => /\ checkpoint \in Positions /\ pass \in [Passes -> PassType]
            /\ today \in Nat \ {0} /\ visited \subseteq Days
            /\ inFlight \in Passes \cup {NoPass}
            /\ \A p \in Passes : /\ pass[p] \in PassType /\ pass[p].cp \in Positions
                                 /\ pass[p].day \in Nat /\ pass[p].offset \in Nat
                                 /\ pass[p].cp.date \in Nat /\ pass[p].cp.offset \in Nat
            /\ checkpoint.date \in Nat /\ checkpoint.offset \in Nat
BY BoundAssumption, SMTT(30) DEF TypeOK, Days, PassType, Positions

\* When one pass moves, the invariant is about that pass.
LEMMA CursorLocal ==
  ASSUME TypeOK, CursorInv, NEW p \in Passes, inFlight \in {NoPass, p},
         \A q \in Passes \ {p} : pass'[q] = pass[q],
         pass'[p].pc # "idle" => PassInv(p)',
         checkpoint'.date <= today', checkpoint' # NoCheckpoint => checkpoint'.date \in visited',
         visited' \subseteq 1..checkpoint'.date
  PROVE  CursorInv'
<1> SUFFICES ASSUME NEW q \in Passes, pass'[q].pc # "idle" PROVE PassInv(q)'
  BY DEF CursorInv
<1>1. CASE q = p
  BY <1>1
<1>2. CASE q # p
  <2>1. pass[q].pc # "idle"
    BY <1>2
  <2>2. inFlight = q
    BY <2>1 DEF CursorInv, PassInv
  <2> QED BY <1>2, <2>2, PassAssumption
<1> QED BY <1>1, <1>2

LEMMA CursorStep ==
  ASSUME TypeOK, CursorInv, RowsInv, [Next]_vars
  PROVE  CursorInv'
<1>0. /\ checkpoint.date \in Nat /\ today \in Nat \ {0} /\ checkpoint.date <= today
      /\ checkpoint \in Positions /\ visited \subseteq 1..checkpoint.date
      /\ checkpoint # NoCheckpoint => checkpoint.date \in visited
      /\ pass \in [Passes -> PassType]
  BY CursorTypes DEF CursorInv
<1>1. ASSUME UNCHANGED <<checkpoint, visited, inFlight, pass, rows, lostPlaces>>,
             today' = today \/ today' = today + 1
      PROVE  CursorInv'
  <2>1. ASSUME NEW p \in Passes, pass[p].pc # "idle" PROVE PassInv(p)'
    <3>1. PassInv(p) /\ pass[p].day \in Nat
      BY <2>1, CursorTypes DEF CursorInv
    <3> QED BY <1>0, <1>1, <3>1 DEF PassInv, Misread
  <2> QED BY <1>0, <1>1, <2>1 DEF CursorInv
<1>2. ASSUME World \/ StartApp
      PROVE  /\ UNCHANGED <<checkpoint, visited, inFlight, pass, rows, lostPlaces>>
             /\ today' = today \/ today' = today + 1
  BY <1>2 DEF World, Midnight, AppendLine, AppendPart, AppendRest, Truncate, StartApp, worldVars,
     auxVars
<1>3. CASE Quit \/ Crash
  <2>1. \A p \in Passes : pass'[p].pc = "idle"
    BY <1>3, DownEffect DEF Idle
  <2> QED BY <1>0, <1>3, <2>1, DownEffect DEF CursorInv, worldVars
<1>4. ASSUME NEW p \in Passes, BeginPass(p) PROVE CursorInv'
  <2>1. \A q \in Passes \ {p} : pass'[q] = pass[q]
    BY <1>0, <1>4, BeginEffect
  <2>2. ASSUME NEW cp, BeginsFrom(p, cp)
        PROVE  /\ inFlight = NoPass /\ inFlight' = p /\ today' = today /\ checkpoint' = checkpoint
               /\ visited' = visited /\ rows' = rows
               /\ pass'[p].cp = cp /\ pass'[p].day = today /\ pass'[p].date = today
               /\ pass'[p].offset = IF cp.date = today THEN cp.offset ELSE 0
               /\ pass'[p].pc = IF cp.date # today THEN "prior" ELSE "current"
    BY <2>2 DEF BeginsFrom, worldVars, FirstStep
  <2>3. ASSUME Begins(p) PROVE CursorInv'
    <3>1. ReadCheckpoint.date # today =>
            ReadCheckpoint = checkpoint /\ checkpoint.date \in 1..(today - 1)
      BY <1>0 DEF ReadCheckpoint, StartOfToday
    <3>2. ReadCheckpoint.date = today =>
            \/ ReadCheckpoint = checkpoint
            \/ /\ checkpoint = NoCheckpoint /\ ReadCheckpoint.offset = 0
               /\ checkpoint.date # today
      BY <1>0 DEF ReadCheckpoint, StartOfToday, NoCheckpoint
    <3>3. BeginsFrom(p, ReadCheckpoint)
      BY <2>3 DEF Begins
    <3>4. PassInv(p)'
      <4>1. CASE ReadCheckpoint.date # today
        BY <1>0, <2>2, <3>1, <3>3, <4>1 DEF PassInv
      <4>2. CASE ReadCheckpoint.date = today
        BY <1>0, <2>2, <3>2, <3>3, <4>2 DEF PassInv
      <4> QED BY <4>1, <4>2
    <3> QED BY <1>0, <2>1, <2>2, <3>3, <3>4, CursorLocal
  <2>4. ASSUME Misses(p) PROVE CursorInv'
    <3>1. BeginsFrom(p, StartOfToday) /\ lostPlaces' = lostPlaces + 1
      BY <2>4 DEF Misses
    <3>2. StartOfToday.date = today /\ StartOfToday.offset = 0
      BY DEF StartOfToday
    <3>3. \A l \in Lines : rows'[l] <= lostPlaces'
      <4>1. \A l \in Lines : rows[l] <= 1 + lostPlaces
        BY DEF RowsInv
      <4>2. rows \in [Lines -> Nat] /\ lostPlaces \in Nat
        BY DEF TypeOK
      <4> QED BY <2>2, <3>1, <4>1, <4>2
    <3>4. pass'[p].cp = [date |-> pass'[p].day, offset |-> 0] /\ pass'[p].offset = 0
      BY <2>2, <3>1, <3>2 DEF StartOfToday
    <3>5. Misread(pass[p])'
      BY <3>3, <3>4 DEF Misread
    <3>6. pass'[p].pc = "current"
      BY <2>2, <3>1, <3>2
    <3>7. PassInv(p)'
      BY <1>0, <2>2, <3>1, <3>5, <3>6 DEF PassInv
    <3> QED BY <1>0, <2>1, <2>2, <3>1, <3>7, CursorLocal
  <2> QED BY <1>0, <1>4, <2>3, <2>4, BeginEffect
<1>5. ASSUME NEW p \in Passes, pass[p].pc # "idle"
      PROVE  /\ PassInv(p) /\ inFlight = p /\ pass[p].day \in Nat /\ pass[p].day <= today
             /\ pass[p].date = pass[p].day /\ checkpoint.date <= pass[p].day
             /\ pass[p].day # 0
  BY <1>5, CursorTypes DEF CursorInv, PassInv
<1>6. ASSUME NEW p \in Passes, DrainPrior(p) PROVE CursorInv'
  <2>1. /\ pass[p].pc = "prior" /\ (\A q \in Passes \ {p} : pass'[q] = pass[q])
        /\ UNCHANGED <<today, checkpoint, visited>>
        /\ \/ \E to : GoesTo(p, "savePrior", [date |-> pass[p].cp.date, offset |-> to], pass[p].offset)
           \/ GoesTo(p, "current", pass[p].cp, pass[p].offset)
    BY <1>6, DrainPriorEffect DEF worldVars
  <2>2. PassInv(p) /\ inFlight = p
    BY <1>5, <2>1
  <2>3. CASE GoesTo(p, "current", pass[p].cp, pass[p].offset)
    <3>1. PassInv(p)'
      BY <1>0, <2>1, <2>2, <2>3 DEF PassInv, GoesTo
    <3> QED BY <1>0, <2>1, <2>2, <3>1, CursorLocal
  <2>4. ASSUME NEW to,
               GoesTo(p, "savePrior", [date |-> pass[p].cp.date, offset |-> to], pass[p].offset)
        PROVE  CursorInv'
    <3>1. PassInv(p)'
      BY <1>0, <2>1, <2>2, <2>4 DEF PassInv, GoesTo
    <3> QED BY <1>0, <2>1, <2>2, <3>1, CursorLocal
  <2> QED BY <2>1, <2>3, <2>4
<1>7. ASSUME NEW p \in Passes, SavePrior(p) PROVE CursorInv'
  <2>1. /\ pass[p].pc = "savePrior" /\ (\A q \in Passes \ {p} : pass'[q] = pass[q])
        /\ today' = today /\ GoesTo(p, "current", pass[p].cp, pass[p].offset)
        /\ Writes(pass[p].cp) \/ UNCHANGED <<checkpoint, visited>>
    BY <1>7, SavePriorEffect DEF worldVars
  <2>2. PassInv(p) /\ inFlight = p
    BY <1>5, <2>1
  <2>3. pass[p].cp.date = checkpoint.date /\ checkpoint.date >= 1
    BY <2>1, <2>2 DEF PassInv
  <2>4. checkpoint'.date = checkpoint.date
    BY <2>1, <2>3 DEF Writes
  <2>5. PassInv(p)'
    BY <1>0, <2>1, <2>2, <2>3, <2>4 DEF PassInv, GoesTo
  <2>6. /\ visited' \subseteq 1..checkpoint'.date
        /\ checkpoint' # NoCheckpoint => checkpoint'.date \in visited'
    BY <1>0, <2>1, <2>3, <2>4 DEF Writes
  <2> QED BY <1>0, <2>1, <2>2, <2>4, <2>5, <2>6, CursorLocal
<1>8. ASSUME NEW p \in Passes, DrainCurrent(p) PROVE CursorInv'
  <2>1. /\ pass[p].pc = "current" /\ (\A q \in Passes \ {p} : pass'[q] = pass[q])
        /\ UNCHANGED <<today, checkpoint, visited>>
        /\ \E to : GoesTo(p, "save", pass[p].cp, to)
    BY <1>8, DrainCurrentEffect DEF worldVars
  <2>2. PassInv(p) /\ inFlight = p
    BY <1>5, <2>1
  <2>3. PassInv(p)'
    <3>1. pass[p].cp.date = pass[p].day =>
            \/ pass[p].cp = checkpoint
            \/ checkpoint = NoCheckpoint /\ pass[p].cp.offset = 0
            \/ pass[p].cp.offset = 0
      BY <2>1, <2>2 DEF PassInv, Misread
    <3> QED BY <1>0, <2>1, <2>2, <3>1 DEF PassInv, GoesTo
  <2> QED BY <1>0, <2>1, <2>2, <2>3, CursorLocal
<1>9. ASSUME NEW p \in Passes, Save(p) PROVE CursorInv'
  <2>1. /\ pass[p].pc = "save" /\ pass' = [pass EXCEPT ![p] = Idle] /\ today' = today
        /\ Writes(NextCheckpoint(p)) \/ UNCHANGED <<checkpoint, visited>>
    BY <1>9, SaveEffect DEF worldVars
  <2>2. /\ PassInv(p) /\ inFlight = p /\ pass[p].day \in 1..today
        /\ pass[p].date = pass[p].day /\ checkpoint.date <= pass[p].day
    BY <1>0, <1>5, <2>1
  <2>3. (\A q \in Passes \ {p} : pass'[q] = pass[q]) /\ pass'[p].pc = "idle"
    BY <1>0, <2>1 DEF Idle
  <2>4. /\ checkpoint'.date <= today' /\ visited' \subseteq 1..checkpoint'.date
        /\ checkpoint' # NoCheckpoint => checkpoint'.date \in visited'
    <3>1. CASE Writes(NextCheckpoint(p))
      <4>1. checkpoint'.date = pass[p].day /\ visited' = visited \cup {pass[p].day}
        BY <2>2, <3>1 DEF Writes, NextCheckpoint
      <4>2. 1..checkpoint.date \subseteq 1..pass[p].day /\ pass[p].day \in 1..pass[p].day
        BY <1>0, <2>2
      <4>3. pass[p].day <= today'
        BY <1>0, <2>1, <2>2
      <4>4. visited' \subseteq 1..pass[p].day /\ pass[p].day \in visited'
        BY <1>0, <4>1, <4>2
      <4> QED BY <4>1, <4>3, <4>4
    <3>2. CASE UNCHANGED <<checkpoint, visited>>
      BY <1>0, <2>1, <3>2
    <3> QED BY <2>1, <3>1, <3>2
  <2> QED BY <1>0, <2>2, <2>3, <2>4, CursorLocal
<1> QED
  BY <1>1, <1>2, <1>3, <1>4, <1>6, <1>7, <1>8, <1>9 DEF Next, PassStep, vars

\* Where a pass drains, and from where, at each of its two drains.
DrainPoint(p) ==
  IF pass[p].pc = "prior" THEN pass[p].cp
                          ELSE [date |-> pass[p].day, offset |-> pass[p].offset]

LEMMA DrainPointType ==
  ASSUME TypeOK, CursorInv, NEW p \in Passes, pass[p].pc \in {"prior", "current"}
  PROVE  DrainPoint(p).date \in Days /\ DrainPoint(p).offset \in Nat
<1>1. PassInv(p)
  BY DEF CursorInv
<1>2. /\ pass[p].day \in 1..today
      /\ pass[p].pc = "prior" => pass[p].cp.date \in 1..(pass[p].day - 1)
      /\ pass[p].cp.offset \in Nat /\ pass[p].offset \in Nat
  BY <1>1, CursorTypes DEF PassInv
<1>3. 1..today \subseteq Days /\ today \in Nat
  BY BoundAssumption DEF TypeOK, Days
<1>4. 1..(pass[p].day - 1) \subseteq 1..today
  BY <1>2, <1>3
<1> QED BY <1>2, <1>3, <1>4 DEF DrainPoint

\* A crash inserts some lines of the drain in progress, and counts as a lost save if it does
\* or if a checkpoint was to be written.
LEMMA CrashEffect ==
  ASSUME TypeOK, CursorInv, Crash
  PROVE  \E p \in Passes :
           /\ inFlight = p /\ pass[p].pc # "idle" /\ Fault("crash")
           /\ \/ /\ pass[p].pc \in {"prior", "current"}
                 /\ \E to : DrainsTo(DrainPoint(p).date, DrainPoint(p).offset, to)
                 /\ lostPlaces' = lostPlaces + 1 \/ (lostPlaces' = lostPlaces /\ rows' = rows)
              \/ lostPlaces' = lostPlaces + 1 /\ rows' = rows
<1>1. inFlight \in Passes /\ pass[inFlight].pc # "idle" /\ Fault("crash")
  BY DEF Crash, TypeOK
<1> DEFINE p == inFlight
           from == StartOffset(DrainPoint(p).date, DrainPoint(p).offset)
           did(to) == Inserted(DrainPoint(p).date, from, to)
<1>2. \/ /\ pass[p].pc \in {"prior", "current"}
         /\ \E stop \in from..Len(log[DrainPoint(p).date]) :
              /\ Insert(did(stop))
              /\ lostPlaces' = lostPlaces + (IF did(stop) = {} THEN 0 ELSE 1)
      \/ lostPlaces' = lostPlaces + 1 /\ rows' = rows
  BY DEF Crash, DrainPoint
<1>3. CASE lostPlaces' = lostPlaces + 1 /\ rows' = rows
  BY <1>1, <1>3
<1>4. ASSUME pass[p].pc \in {"prior", "current"},
             NEW stop \in from..Len(log[DrainPoint(p).date]), Insert(did(stop)),
             lostPlaces' = lostPlaces + (IF did(stop) = {} THEN 0 ELSE 1)
      PROVE  /\ DrainsTo(DrainPoint(p).date, DrainPoint(p).offset, stop)
             /\ lostPlaces' = lostPlaces + 1 \/ (lostPlaces' = lostPlaces /\ rows' = rows)
  <2>1. DrainsTo(DrainPoint(p).date, DrainPoint(p).offset, stop)
    BY <1>4 DEF DrainsTo
  <2>2. lostPlaces \in Int /\ rows \in [Lines -> Nat]
    BY DEF TypeOK
  <2>3. did(stop) = {} => rows' = rows
    BY <1>4, <2>2 DEF Insert
  <2> QED BY <1>4, <2>1, <2>2, <2>3
<1> QED BY <1>1, <1>2, <1>3, <1>4

LEMMA DrainThrowsEffect ==
  ASSUME TypeOK, NEW d \in Days, NEW offset \in Nat, DrainThrows(d, offset)
  PROVE  Fault("read") /\ rows' = rows /\ Marks(d, StartOffset(d, offset))
<1>1. /\ log \in [Days -> Seq(Lines)] /\ history \in [Lines -> SUBSET {"failed", "cut", "down"}]
  BY DEF TypeOK
<1>2. StartOffset(d, offset) \in 0..Len(log[d])
  BY <1>1, StartType
<1> QED BY <1>1, <1>2, PartialType, MarkFailedEffect DEF DrainThrows

\* What a step does to the rows: it drains from a point in one of the two ways, or adds none.
LEMMA RowsEffect ==
  ASSUME TypeOK, CursorInv, [Next]_vars
  PROVE  \/ rows' = rows
         \/ \E p \in Passes : /\ pass[p].pc \in {"prior", "current"}
                              /\ \E to : DrainsTo(DrainPoint(p).date, DrainPoint(p).offset, to)
<1>1. ASSUME NEW p \in Passes, DrainPrior(p)
      PROVE  \/ rows' = rows
             \/ /\ pass[p].pc \in {"prior", "current"}
                /\ \E to : DrainsTo(DrainPoint(p).date, DrainPoint(p).offset, to)
  <2>1. pass[p].pc = "prior"
    BY <1>1 DEF DrainPrior
  <2>2. DrainPoint(p) = pass[p].cp /\ pass[p].cp.date \in Days /\ pass[p].cp.offset \in Nat
    BY <2>1, DrainPointType DEF DrainPoint
  <2> QED BY <1>1, <2>1, <2>2, DrainPriorEffect, DrainEffect, DrainThrowsEffect
<1>2. ASSUME NEW p \in Passes, DrainCurrent(p)
      PROVE  \/ rows' = rows
             \/ /\ pass[p].pc \in {"prior", "current"}
                /\ \E to : DrainsTo(DrainPoint(p).date, DrainPoint(p).offset, to)
  <2>1. pass[p].pc = "current"
    BY <1>2 DEF DrainCurrent
  <2>2. /\ DrainPoint(p).date = pass[p].day /\ DrainPoint(p).offset = pass[p].offset
        /\ pass[p].day \in Days /\ pass[p].offset \in Nat
    BY <2>1, DrainPointType DEF DrainPoint
  <2> QED BY <1>2, <2>1, <2>2, DrainCurrentEffect, DrainEffect, DrainThrowsEffect
<1>3. ASSUME NEW p \in Passes, BeginPass(p) \/ SavePrior(p) \/ Save(p) PROVE rows' = rows
  BY <1>3 DEF BeginPass, SavePrior, Save
<1>4. CASE World \/ Quit \/ StartApp
  BY <1>4 DEF World, Midnight, AppendLine, AppendPart, AppendRest, Truncate, Quit, StartApp
<1>5. CASE Crash
  BY <1>5, CrashEffect
<1> QED BY <1>1, <1>2, <1>3, <1>4, <1>5 DEF Next, PassStep, vars

LEMMA RowsGrow ==
  ASSUME TypeOK, CursorInv, [Next]_vars
  PROVE  rows' \in [Lines -> Nat] /\ \A l \in Lines : rows[l] <= rows'[l]
<1>0. rows \in [Lines -> Nat] /\ log \in [Days -> Seq(Lines)]
  BY DEF TypeOK
<1>1. ASSUME NEW d \in Days, NEW offset \in Nat, NEW to, DrainsTo(d, offset, to)
      PROVE  rows' \in [Lines -> Nat] /\ \A l \in Lines : rows[l] <= rows'[l]
  <2>1. StartOffset(d, offset) \in Nat /\ to \in StartOffset(d, offset)..Len(log[d])
    BY <1>0, <1>1, StartType DEF DrainsTo
  <2>2. /\ rows' \in [Lines -> Nat]
        /\ \A l \in Lines : rows'[l] = rows[l] \/ rows'[l] = rows[l] + 1
    BY <1>0, <1>1, <2>1, InsertEffect DEF DrainsTo
  <2>3. ASSUME NEW l \in Lines PROVE rows[l] <= rows'[l]
    <3>1. rows[l] \in Nat
      BY <1>0
    <3>2. rows'[l] = rows[l] \/ rows'[l] = rows[l] + 1
      BY <2>2
    <3> QED BY <3>1, <3>2
  <2> QED BY <2>2, <2>3
<1> QED BY <1>0, <1>1, RowsEffect, DrainPointType

LEMMA HistoryGrows ==
  ASSUME TypeOK, CursorInv, [Next]_vars
  PROVE  /\ history' \in [Lines -> SUBSET {"failed", "cut", "down"}]
         /\ \A l \in 1..written : history[l] \subseteq history'[l]
<1>0. /\ history \in [Lines -> SUBSET {"failed", "cut", "down"}]
      /\ written \in Nat /\ 1..written \subseteq Lines
  BY BoundAssumption DEF TypeOK, Lines
<1>1. ASSUME NEW p \in Passes, DrainPrior(p) PROVE \E d, k : Marks(d, k)
  <2>1. pass[p].pc = "prior"
    BY <1>1 DEF DrainPrior
  <2>2. pass[p].cp.date \in Days /\ pass[p].cp.offset \in Nat
    BY <2>1, DrainPointType DEF DrainPoint
  <2> QED BY <1>1, <2>2, DrainPriorEffect, DrainEffect, DrainThrowsEffect
<1>2. ASSUME NEW p \in Passes, DrainCurrent(p) PROVE \E d, k : Marks(d, k)
  <2>1. pass[p].pc = "current"
    BY <1>2 DEF DrainCurrent
  <2>2. pass[p].day \in Days /\ pass[p].offset \in Nat
    BY <2>1, DrainPointType DEF DrainPoint
  <2> QED BY <1>2, <2>2, DrainCurrentEffect, DrainEffect, DrainThrowsEffect
<1>3. ASSUME NEW p \in Passes, BeginPass(p) \/ SavePrior(p) \/ Save(p) PROVE history' = history
  BY <1>3 DEF BeginPass, SavePrior, Save, auxVars
<1>4. CASE AppendLine \/ AppendPart
  <2>1. history' = [history EXCEPT ![written + 1] = IF up THEN {} ELSE {"down"}]
    BY <1>4 DEF AppendLine, AppendPart, Begun
  <2>2. \A l \in 1..written : history'[l] = history[l]
    BY <1>0, <2>1
  <2>3. history' \in [Lines -> SUBSET {"failed", "cut", "down"}]
    BY <1>0, <2>1
  <2> QED BY <2>2, <2>3
<1>5. ASSUME Midnight \/ AppendRest \/ (\E d \in Days : Truncate(d)) \/ Quit \/ Crash \/ StartApp
      PROVE  history' = history
  BY <1>5 DEF Midnight, AppendRest, Truncate, Quit, Crash, StartApp, auxVars
<1> QED BY <1>0, <1>1, <1>2, <1>3, <1>4, <1>5 DEF Next, PassStep, World, vars, Marks

LEMMA CountersStep ==
  ASSUME TypeOK, CursorInv, [Next]_vars
  PROVE  /\ faults' \in 0..MaxFaults /\ lostPlaces' \in 0..faults' /\ lostPlaces <= lostPlaces'
<1>0. faults \in 0..MaxFaults /\ lostPlaces \in 0..faults /\ MaxFaults \in Nat
  BY BoundAssumption, SMTT(30) DEF TypeOK
<1>1. ASSUME NEW p \in Passes, DrainPrior(p) \/ DrainCurrent(p)
      PROVE  lostPlaces' = lostPlaces /\ (faults' = faults \/ \E k : Fault(k))
  BY <1>1 DEF DrainPrior, DrainCurrent, Drain, DrainThrows, NoFault
<1>2. ASSUME NEW p \in Passes, SavePrior(p) \/ Save(p)
      PROVE  \/ UNCHANGED <<lostPlaces, faults>>
             \/ lostPlaces' = lostPlaces + 1 /\ \E k : Fault(k)
  BY <1>2, SavePriorEffect, SaveEffect
<1>3. ASSUME NEW p \in Passes, BeginPass(p)
      PROVE  \/ UNCHANGED <<lostPlaces, faults>>
             \/ lostPlaces' = lostPlaces + 1 /\ \E k : Fault(k)
  BY <1>3 DEF BeginPass
<1>4. ASSUME World \/ Quit \/ StartApp
      PROVE  lostPlaces' = lostPlaces /\ (faults' = faults \/ \E k : Fault(k))
  BY <1>4 DEF World, Midnight, AppendLine, AppendPart, AppendRest, Truncate, Quit, StartApp, auxVars
<1>5. ASSUME Crash
      PROVE  (lostPlaces' = lostPlaces \/ lostPlaces' = lostPlaces + 1) /\ \E k : Fault(k)
  BY <1>5, CrashEffect
<1>6. ASSUME NEW k, Fault(k) PROVE faults < MaxFaults /\ faults' = faults + 1
  BY <1>6 DEF Fault
<1> QED BY <1>0, <1>1, <1>2, <1>3, <1>4, <1>5, <1>6 DEF Next, PassStep, vars

LEMMA InFlightStep ==
  ASSUME TypeOK, CursorInv, [Next]_vars
  PROVE  inFlight' \in {p \in Passes : pass'[p].pc # "idle"} \cup {NoPass} /\ up' \in BOOLEAN
<1>0. /\ inFlight \in {p \in Passes : pass[p].pc # "idle"} \cup {NoPass} /\ up \in BOOLEAN
      /\ pass \in [Passes -> PassType]
  BY DEF TypeOK
<1>1. ASSUME NEW p \in Passes, BeginPass(p)
      PROVE  inFlight' = p /\ pass'[p].pc # "idle" /\ up' = up
  BY <1>0, <1>1, BeginEffect DEF BeginPass, Begins, Misses, BeginsFrom, FirstStep
<1>2. ASSUME NEW p \in Passes, pass'[p].pc # "idle", inFlight' = inFlight,
             \A q \in Passes \ {p} : pass'[q] = pass[q]
      PROVE  inFlight' \in {q \in Passes : pass'[q].pc # "idle"} \cup {NoPass}
  BY <1>0, <1>2
<1>3. ASSUME NEW p \in Passes, PassStep(p)
      PROVE  inFlight' \in {q \in Passes : pass'[q].pc # "idle"} \cup {NoPass} /\ up' = up
  <2>1. up' = up
    BY <1>3 DEF PassStep, DrainPrior, SavePrior, DrainCurrent, Save
  <2>2. CASE DrainPrior(p)
    BY <1>2, <2>1, <2>2, DrainPriorEffect DEF GoesTo
  <2>3. CASE SavePrior(p)
    BY <1>2, <2>1, <2>3, SavePriorEffect DEF GoesTo
  <2>4. CASE DrainCurrent(p)
    BY <1>2, <2>1, <2>4, DrainCurrentEffect DEF GoesTo
  <2>5. CASE Save(p)
    BY <2>1, <2>5, SaveEffect
  <2> QED BY <1>3, <2>2, <2>3, <2>4, <2>5 DEF PassStep
<1>4. CASE World \/ StartApp
  BY <1>0, <1>4 DEF World, Midnight, AppendLine, AppendPart, AppendRest, Truncate, StartApp
<1>5. CASE Quit \/ Crash
  BY <1>5 DEF Quit, Crash, Down
<1> QED BY <1>0, <1>1, <1>3, <1>4, <1>5 DEF Next, vars

LEMMA CheckpointTypeStep ==
  ASSUME TypeOK, CursorInv, [Next]_vars
  PROVE  checkpoint' \in Positions
<1>0. checkpoint \in Positions /\ pass \in [Passes -> PassType]
  BY DEF TypeOK
<1>1. ASSUME NEW p \in Passes
      PROVE  pass[p].cp \in Positions /\ NextCheckpoint(p) \in Positions
  BY <1>0 DEF PassType, Positions, NextCheckpoint
<1>2. ASSUME NEW p \in Passes, PassStep(p)
      PROVE  checkpoint' \in {checkpoint, pass[p].cp, NextCheckpoint(p)}
  BY <1>2, SavePriorEffect, SaveEffect DEF PassStep, DrainPrior, DrainCurrent, Writes
<1>3. ASSUME World \/ StartApp \/ Quit \/ Crash \/ (\E p \in Passes : BeginPass(p))
      PROVE  checkpoint' = checkpoint
  BY <1>3 DEF World, Midnight, AppendLine, AppendPart, AppendRest, Truncate, StartApp, Quit,
              Crash, BeginPass
<1> QED BY <1>0, <1>1, <1>2, <1>3 DEF Next, vars

\* The days that could not be read stay so.
LEMMA UnreadStep ==
  ASSUME TypeOK, CursorInv, [Next]_vars
  PROVE  unread \subseteq unread' /\ unread' \subseteq Days
<1>0. unread \subseteq Days
  BY DEF TypeOK
<1>1. ASSUME NEW p \in Passes, BeginPass(p) PROVE unread \subseteq unread' /\ unread' \subseteq Days
  <2>1. CASE UNCHANGED unread
    BY <1>0, <2>1
  <2>2. CASE checkpoint # NoCheckpoint /\ unread' = unread \cup ({checkpoint.date} \ {today})
    <3>1. checkpoint.date \in Days
      BY <2>2 DEF CursorInv, TypeOK
    <3> QED BY <1>0, <2>2, <3>1
  <2> QED BY <1>1, <2>1, <2>2 DEF BeginPass
<1>2. ASSUME World \/ Quit \/ Crash \/ StartApp \/ (\E p \in Passes : PassStep(p)) \/ UNCHANGED vars
      PROVE  unread' = unread
  BY <1>2 DEF World, Midnight, AppendLine, AppendPart, AppendRest, Truncate, Quit, Crash, StartApp,
     PassStep, DrainPrior, SavePrior, DrainCurrent, Save, auxVars, vars
<1> QED BY <1>0, <1>1, <1>2 DEF Next

LEMMA IngestTypeStep ==
  ASSUME TypeOK, LinesInv, CursorInv, RowsInv, [Next]_vars
  PROVE  TypeOK'
<1>1. visited' \subseteq Days
  <2>1. visited' \subseteq 1..checkpoint'.date /\ checkpoint'.date <= today'
    BY CursorStep DEF CursorInv
  <2>2. today' \in 1..MaxDay /\ MaxDay \in Nat /\ checkpoint'.date \in Nat
    BY LinesStep, CheckpointTypeStep, BoundAssumption DEF Days, Positions
  <2> QED BY <2>1, <2>2 DEF Days
<1> QED
  BY <1>1, LinesStep, CursorStep, PassTypeStep, InFlightStep, CheckpointTypeStep, RowsGrow,
     HistoryGrows, CountersStep, UnreadStep DEF TypeOK

(* The rows *)

LEMMA RowsTypes ==
  TypeOK => /\ log \in [Days -> Seq(Lines)] /\ rows \in [Lines -> Nat] /\ lostPlaces \in Nat
            /\ written \in Nat
BY DEF TypeOK

DrainFrom(p) == StartOffset(DrainPoint(p).date, DrainPoint(p).offset)

LEMMA DrainInserts ==
  ASSUME TypeOK, CursorInv, NEW p \in Passes, pass[p].pc \in {"prior", "current"},
         NEW to, DrainsTo(DrainPoint(p).date, DrainPoint(p).offset, to)
  PROVE  /\ DrainPoint(p).date \in Days /\ DrainFrom(p) \in Nat
         /\ to \in Nat /\ DrainFrom(p) <= to /\ to <= Len(log[DrainPoint(p).date])
         /\ \A i \in (DrainFrom(p) + 1)..to :
              i \in 1..Len(log[DrainPoint(p).date]) /\ i > DrainFrom(p)
         /\ \A l \in Lines :
              \/ rows'[l] = rows[l]
              \/ /\ rows'[l] = rows[l] + 1
                 /\ \E i \in (DrainFrom(p) + 1)..to : l = log[DrainPoint(p).date][i]
         /\ \A i \in (DrainFrom(p) + 1)..to :
              \/ log[DrainPoint(p).date][i] \in malformed
              \/ rows'[log[DrainPoint(p).date][i]] > 0
<1>0. log \in [Days -> Seq(Lines)] /\ rows \in [Lines -> Nat]
  BY RowsTypes
<1>1. PICK d \in Days, offset \in Nat : d = DrainPoint(p).date /\ offset = DrainPoint(p).offset
  BY DrainPointType
<1>2. PICK from \in 0..Len(log[d]) : from = StartOffset(d, offset)
  BY <1>0, StartType
<1>3. Len(log[d]) \in Nat
  BY <1>0, Entries
<1>4. to \in from..Len(log[d]) /\ Insert(Inserted(d, from, to)) /\ from \in Nat
  BY <1>1, <1>2, <1>3 DEF DrainsTo
<1>5. \A i \in (from + 1)..to : i \in 1..Len(log[d]) /\ i > from
  BY <1>3, <1>4
<1>6. /\ \A l \in Lines : \/ rows'[l] = rows[l]
                          \/ rows'[l] = rows[l] + 1 /\ \E i \in (from + 1)..to : l = log[d][i]
      /\ \A i \in (from + 1)..to : log[d][i] \in malformed \/ rows'[log[d][i]] > 0
  BY <1>0, <1>4, InsertEffect
<1>7. to \in Nat /\ from <= to /\ to <= Len(log[d])
  BY <1>3, <1>4
<1> QED BY <1>1, <1>2, <1>4, <1>5, <1>6, <1>7 DEF DrainFrom

\* A line in a file is neither half-written nor to come.
LEMMA LinesAreOld ==
  ASSUME TypeOK, LinesInv, NEW d \in Days, NEW i \in 1..Len(log[d])
  PROVE  log[d][i] \in Lines /\ log[d][i] <= written /\ log[d][i] # partial.line
<1>1. log \in [Days -> Seq(Lines)] /\ written \in Nat
  BY DEF TypeOK
<1>2. log[d][i] \in Nat \ {0} /\ log[d][i] \in Lines
  <2>1. log[d] \in Seq(Lines)
    BY <1>1
  <2> QED BY <2>1, Entries, <1>1
<1>3. CASE partial = NoPartial
  BY <1>1, <1>2, <1>3 DEF LinesInv, InOrder, NoPartial
<1>4. CASE partial # NoPartial
  BY <1>1, <1>2, <1>4 DEF LinesInv, InOrder
<1> QED BY <1>3, <1>4

\* What a drain inserts was ahead of the checkpoint, or the pass could not read that one and a
\* place is lost.
LEMMA DrainIsAhead ==
  ASSUME TypeOK, LinesInv, CursorInv, RowsInv, NEW p \in Passes,
         pass[p].pc \in {"prior", "current"}
  PROVE  Covers(checkpoint) /\ Covers(DrainPoint(p))
<1>1. \A q \in Passes : ~Saving(q)
  BY OnePass DEF Saving
<1>2. PassInv(p) /\ checkpoint.date \in Nat /\ pass[p].day \in Nat
  BY CursorTypes DEF CursorInv
<1>3. Covers(checkpoint)
  BY <1>1 DEF RowsInv
<1>4. \A d \in Days : d \in Nat
  BY DEF Days
<1>5. CASE \A l \in Lines : rows[l] <= lostPlaces
  <2>1. \A d \in Days : \A i \in 1..Len(log[d]) : log[d][i] \in Lines
    BY LinesAreOld
  <2> QED BY <1>3, <1>5, <2>1 DEF Covers
<1>6. CASE ~(pass[p].pc = "current" /\ Misread(pass[p]))
  <2>1. DrainPoint(p).date = checkpoint.date => DrainPoint(p).offset = checkpoint.offset
    BY <1>2, <1>6 DEF PassInv, DrainPoint
  <2>2. DrainPoint(p).date >= checkpoint.date /\ DrainPoint(p).date \in Nat
    BY <1>2 DEF PassInv, DrainPoint
  <2>3. \A d \in Days : \A i \in 1..Len(log[d]) :
          ~AheadOf(checkpoint, d, i) => ~AheadOf(DrainPoint(p), d, i)
    BY <1>2, <1>4, <2>1, <2>2 DEF AheadOf
  <2> QED BY <1>3, <2>3 DEF Covers
<1> QED BY <1>5, <1>6 DEF Misread

LEMMA RowsBound ==
  ASSUME TypeOK, LinesInv, CursorInv, RowsInv, [Next]_vars
  PROVE  \A l \in Lines : rows'[l] <= 1 + lostPlaces
<1>0. /\ log \in [Days -> Seq(Lines)] /\ rows \in [Lines -> Nat] /\ lostPlaces \in Nat
  BY RowsTypes
<1> SUFFICES ASSUME NEW l \in Lines PROVE rows'[l] <= 1 + lostPlaces
  OBVIOUS
<1>1. rows[l] \in Nat /\ rows[l] <= 1 + lostPlaces
  BY <1>0 DEF RowsInv
<1>2. CASE rows' = rows
  BY <1>0, <1>1, <1>2
<1>3. ASSUME NEW p \in Passes, pass[p].pc \in {"prior", "current"},
             NEW to, DrainsTo(DrainPoint(p).date, DrainPoint(p).offset, to)
      PROVE  rows'[l] <= 1 + lostPlaces
  <2>1. \/ rows'[l] = rows[l]
        \/ /\ rows'[l] = rows[l] + 1
           /\ \E i \in (DrainFrom(p) + 1)..to : l = log[DrainPoint(p).date][i]
    BY <1>3, DrainInserts
  <2>2. ASSUME NEW i \in (DrainFrom(p) + 1)..to, l = log[DrainPoint(p).date][i]
        PROVE  rows[l] <= lostPlaces
    <3>1. /\ i \in 1..Len(log[DrainPoint(p).date]) /\ i > DrainFrom(p)
          /\ DrainPoint(p).date \in Days
      BY <1>3, DrainInserts
    <3>2. AheadOf(DrainPoint(p), DrainPoint(p).date, i)
      BY <3>1 DEF AheadOf, DrainFrom
    <3> QED BY <1>3, <2>2, <3>1, <3>2, DrainIsAhead DEF Covers
  <2> QED BY <1>0, <1>1, <2>1, <2>2
<1> QED BY <1>2, <1>3, RowsEffect

\* What a step does to the lines that were begun.
LEMMA WrittenStep ==
  ASSUME TypeOK, LinesInv, [Next]_vars
  PROVE  /\ written' = written \/ written' = written + 1
         /\ partial'.line \in {0, partial.line, written + 1}
<1>1. CASE World
  BY <1>1, WorldEffect DEF NoPartial
<1>2. ASSUME NEW p \in Passes, BeginPass(p) \/ PassStep(p) PROVE UNCHANGED worldVars
  BY <1>2 DEF BeginPass, PassStep, DrainPrior, SavePrior, DrainCurrent, Save
<1>3. ASSUME Quit \/ Crash \/ StartApp PROVE UNCHANGED worldVars
  BY <1>3 DEF Quit, Crash, StartApp
<1> QED BY <1>1, <1>2, <1>3 DEF Next, vars, worldVars

LEMMA RowsZero ==
  ASSUME TypeOK, LinesInv, CursorInv, RowsInv, [Next]_vars
  PROVE  \A l \in Lines : (l > written' \/ l = partial'.line) => rows'[l] = 0
<1>0. /\ log \in [Days -> Seq(Lines)] /\ rows \in [Lines -> Nat] /\ written \in Nat
      /\ \A l \in Lines : l \in Nat \ {0}
  BY RowsTypes DEF Lines
<1> SUFFICES ASSUME NEW l \in Lines, l > written' \/ l = partial'.line PROVE rows'[l] = 0
  OBVIOUS
<1>1. l > written \/ l = partial.line
  BY <1>0, WrittenStep
<1>2. rows[l] = 0
  BY <1>1 DEF RowsInv
<1>3. ASSUME NEW p \in Passes, pass[p].pc \in {"prior", "current"},
             NEW to, DrainsTo(DrainPoint(p).date, DrainPoint(p).offset, to)
      PROVE  rows'[l] = rows[l]
  <2>1. rows'[l] = rows[l] \/ \E i \in (DrainFrom(p) + 1)..to : l = log[DrainPoint(p).date][i]
    BY <1>3, DrainInserts
  <2>2. ASSUME NEW i \in (DrainFrom(p) + 1)..to, l = log[DrainPoint(p).date][i] PROVE FALSE
    <3>1. i \in 1..Len(log[DrainPoint(p).date]) /\ DrainPoint(p).date \in Days
      BY <1>3, DrainInserts
    <3>2. log[DrainPoint(p).date][i] <= written /\ log[DrainPoint(p).date][i] # partial.line
      BY <3>1, LinesAreOld
    <3> QED BY <1>0, <1>1, <2>2, <3>2
  <2> QED BY <2>1, <2>2
<1> QED BY <1>2, <1>3, RowsEffect

\* Covers(cp) after the step, for a position cp of before it.
CoversNext(cp) ==
  \A d \in Days : \A i \in 1..Len(log'[d]) :
    \/ rows'[log'[d][i]] <= lostPlaces'
    \/ ~(d > cp.date \/ (d = cp.date /\ i > (IF cp.offset > Len(log'[d]) THEN 0 ELSE cp.offset)))

LEMMA CoversSame ==
  ASSUME NEW cp, Covers(cp), UNCHANGED <<log, rows, lostPlaces>>
  PROVE  CoversNext(cp)
BY DEF Covers, CoversNext, AheadOf, StartOffset

\* After one more lost save nothing is ahead of the bound.
LEMMA CoversLost ==
  ASSUME TypeOK, LinesInv, CursorInv, RowsInv, [Next]_vars, lostPlaces' = lostPlaces + 1, NEW cp
  PROVE  CoversNext(cp)
<1>1. log' \in [Days -> Seq(Lines)]
  BY LinesStep
<1>2. ASSUME NEW d \in Days, NEW i \in 1..Len(log'[d]) PROVE rows'[log'[d][i]] <= lostPlaces'
  <2>1. log'[d] \in Seq(Lines)
    BY <1>1
  <2>2. log'[d][i] \in Lines
    BY <2>1
  <2>3. rows'[log'[d][i]] <= 1 + lostPlaces
    BY <2>2, RowsBound
  <2> QED BY <2>3, RowsTypes
<1> QED BY <1>2 DEF CoversNext

LEMMA CoversWorld ==
  ASSUME TypeOK, LinesInv, RowsInv, World, NEW cp \in Positions, Covers(cp),
         UNCHANGED <<rows, lostPlaces>>
  PROVE  CoversNext(cp)
<1>0. /\ log \in [Days -> Seq(Lines)] /\ lostPlaces \in Nat /\ cp.offset \in Nat /\ today \in Days
      /\ partial = NoPartial \/ partial \in [day : Days, line : Lines]
      /\ \A d \in Days : Len(log[d]) \in Nat
  BY RowsTypes, LinesTypes, Entries DEF Positions
<1>1. ASSUME NEW d \in Days, NEW i \in 1..Len(log[d]), log'[d][i] = log[d][i],
             Len(log'[d]) \in Nat, Len(log[d]) <= Len(log'[d])
      PROVE  \/ rows'[log'[d][i]] <= lostPlaces'
             \/ ~(d > cp.date \/ (d = cp.date /\ i > (IF cp.offset > Len(log'[d]) THEN 0 ELSE cp.offset)))
  BY <1>0, <1>1 DEF Covers, AheadOf, StartOffset
<1>2. ASSUME NEW d \in Days, NEW l \in Lines, rows[l] = 0, Appended(d, l) PROVE CoversNext(cp)
  <2> SUFFICES ASSUME NEW e \in Days, NEW i \in 1..Len(log'[e])
               PROVE  \/ rows'[log'[e][i]] <= lostPlaces'
                      \/ ~(e > cp.date \/ (e = cp.date /\ i > (IF cp.offset > Len(log'[e]) THEN 0 ELSE cp.offset)))
    BY DEF CoversNext
  <2>1. CASE e # d
    <3>1. log'[e] = log[e]
      BY <1>0, <1>2, <2>1, AppendEffect
    <3>2. i \in 1..Len(log[e]) /\ log'[e][i] = log[e][i] /\ Len(log'[e]) \in Nat
          /\ Len(log[e]) <= Len(log'[e])
      BY <1>0, <3>1
    <3> QED BY <1>1, <3>2
  <2>2. CASE e = d /\ i \in 1..Len(log[d])
    <3>1. log'[d][i] = log[d][i] /\ Len(log'[d]) = Len(log[d]) + 1
      BY <1>0, <1>2, <2>2, AppendEffect
    <3> QED BY <1>0, <1>1, <2>2, <3>1
  <2>3. CASE e = d /\ i \notin 1..Len(log[d])
    <3>1. i = Len(log[d]) + 1 /\ log'[d][Len(log[d]) + 1] = l
      BY <1>0, <1>2, <2>3, AppendEffect
    <3> QED BY <1>0, <1>2, <2>3, <3>1
  <2> QED BY <2>1, <2>2, <2>3
<1>3. CASE log' = log
  BY <1>3, CoversSame
<1>4. CASE partial = NoPartial /\ written < MaxLines /\ Appended(today, written + 1)
  <2>1. written + 1 \in Lines /\ written + 1 > written
    BY <1>4, LinesTypes, RowsTypes, BoundAssumption DEF Lines
  <2>2. rows[written + 1] = 0
    BY <2>1 DEF RowsInv
  <2> QED BY <1>0, <1>2, <1>4, <2>1, <2>2
<1>5. CASE partial # NoPartial /\ Appended(partial.day, partial.line)
  <2>1. partial.day \in Days /\ partial.line \in Lines
    BY <1>0, <1>5
  <2>2. rows[partial.line] = 0
    BY <2>1 DEF RowsInv
  <2> QED BY <1>2, <1>5, <2>1, <2>2
<1>6. ASSUME NEW d \in Days, log' = [log EXCEPT ![d] = <<>>] PROVE CoversNext(cp)
  <2>1. \A e \in Days : e # d => log'[e] = log[e]
    BY <1>0, <1>6
  <2>2. \A i \in 1..Len(log'[d]) : FALSE
    BY <1>0, <1>6
  <2> QED BY <2>1, <2>2 DEF Covers, CoversNext, AheadOf, StartOffset
<1> QED BY <1>3, <1>4, <1>5, <1>6, WorldEffect

LEMMA CoversDrain ==
  ASSUME TypeOK, LinesInv, CursorInv, RowsInv, NEW p \in Passes,
         pass[p].pc \in {"prior", "current"},
         NEW to, DrainsTo(DrainPoint(p).date, DrainPoint(p).offset, to), UNCHANGED <<log,
                                                                                     lostPlaces>>
  PROVE  CoversNext([date |-> DrainPoint(p).date, offset |-> to])
<1> DEFINE day == DrainPoint(p).date
<1>0. /\ day \in Days /\ to \in Nat /\ DrainFrom(p) <= to /\ to <= Len(log[day])
      /\ DrainFrom(p) \in Nat /\ lostPlaces \in Nat
      /\ Len(log[day]) \in Nat
  BY DrainInserts, RowsTypes, Entries
<1> SUFFICES ASSUME NEW d \in Days, NEW i \in 1..Len(log[d]),
                    d > day \/ (d = day /\ i > to)
             PROVE  rows'[log[d][i]] <= lostPlaces
  BY <1>0 DEF CoversNext
<1>1. log[d][i] \in Lines
  BY LinesAreOld
<1>2. rows'[log[d][i]] = rows[log[d][i]]
  <2>1. ASSUME NEW j \in (DrainFrom(p) + 1)..to, log[d][i] = log[day][j] PROVE FALSE
    <3>1. j \in 1..Len(log[day])
      BY DrainInserts
    <3>2. d = day /\ i = j
      BY <1>0, <2>1, <3>1 DEF LinesInv, OnePlace
    <3> QED BY <1>0, <2>1, <3>2 DEF Days
  <2> QED BY <1>1, <2>1, DrainInserts
<1>3. AheadOf(DrainPoint(p), d, i)
  BY <1>0 DEF AheadOf, DrainFrom
<1>4. rows[log[d][i]] <= lostPlaces
  BY <1>3, DrainIsAhead DEF Covers
<1> QED BY <1>2, <1>4

\* RowsInv over the checkpoints that are to be written.
Due ==
  /\ (\A p \in Passes : ~Saving(p)') => CoversNext(checkpoint')
  /\ \A p \in Passes : Saving(p)' => CoversNext(ToSave(p)')

LEMMA DueCovers ==
  ASSUME Due
  PROVE  /\ (\A p \in Passes : ~Saving(p)') => Covers(checkpoint)'
         /\ \A p \in Passes : Saving(p)' => Covers(ToSave(p))'
BY DEF Due, CoversNext, Covers, AheadOf, StartOffset

\* Only the pass that moves can have something to save after its step.
LEMMA DueLocal ==
  ASSUME CursorInv, NEW p \in Passes, inFlight \in {NoPass, p},
         \A q \in Passes \ {p} : pass'[q] = pass[q],
         ~Saving(p)' => CoversNext(checkpoint'), Saving(p)' => CoversNext(ToSave(p)')
  PROVE  Due
<1>1. ASSUME NEW q \in Passes \ {p} PROVE ~Saving(q)'
  <2>1. pass'[q].pc = "idle"
    BY PassAssumption DEF CursorInv, PassInv
  <2> QED BY <2>1 DEF Saving
<1> QED BY <1>1 DEF Due

LEMMA DueStep ==
  ASSUME TypeOK, LinesInv, CursorInv, RowsInv, [Next]_vars
  PROVE  Due
<1>0. ASSUME NEW p \in Passes, pass[p].pc # "idle" PROVE PassInv(p) /\ inFlight = p
  BY <1>0 DEF CursorInv, PassInv
<1>1. ASSUME lostPlaces' = lostPlaces + 1 PROVE Due
  BY <1>1, CoversLost DEF Due
<1>2. ASSUME \A p \in Passes : ~Saving(p), UNCHANGED <<log, rows, lostPlaces>>
      PROVE  CoversNext(checkpoint)
  BY <1>2, CoversSame DEF RowsInv
<1>3. ASSUME NEW p \in Passes, pass[p].pc \in {"prior", "current"}
      PROVE  \A q \in Passes : ~Saving(q)
  BY <1>3, OnePass DEF Saving
<1>4. ASSUME NEW p \in Passes, DrainPrior(p) PROVE Due
  <2>1. /\ pass[p].pc = "prior" /\ UNCHANGED <<log, checkpoint, lostPlaces>>
        /\ \A q \in Passes \ {p} : pass'[q] = pass[q]
    BY <1>4, DrainPriorEffect DEF worldVars
  <2>2. /\ DrainPoint(p) = pass[p].cp /\ pass[p].cp.date \in Days /\ pass[p].cp.offset \in Nat
        /\ inFlight = p
    BY <1>0, <2>1, DrainPointType DEF DrainPoint
  <2>3. CASE /\ DrainThrows(pass[p].cp.date, pass[p].cp.offset)
             /\ GoesTo(p, "current", pass[p].cp, pass[p].offset)
    <3>1. rows' = rows
      BY <2>2, <2>3, DrainThrowsEffect
    <3>2. CoversNext(checkpoint') /\ ~Saving(p)'
      BY <1>2, <1>3, <2>1, <2>3, <3>1 DEF Saving, GoesTo
    <3> QED BY <2>1, <2>2, <3>2, DueLocal
  <2>4. ASSUME NEW to \in 0..MaxLines, Drain(pass[p].cp.date, pass[p].cp.offset, to),
               GoesTo(p, "savePrior", [date |-> pass[p].cp.date, offset |-> to], pass[p].offset)
        PROVE  Due
    <3>1. DrainsTo(DrainPoint(p).date, DrainPoint(p).offset, to)
      BY <2>2, <2>4, DrainEffect
    <3>2. CoversNext([date |-> pass[p].cp.date, offset |-> to])
      BY <2>1, <2>2, <3>1, CoversDrain
    <3>3. Saving(p)' /\ ToSave(p)' = [date |-> pass[p].cp.date, offset |-> to]
      BY <2>4 DEF Saving, ToSave, GoesTo
    <3> QED BY <2>1, <2>2, <3>2, <3>3, DueLocal
  <2> QED BY <1>4, <2>3, <2>4, DrainPriorEffect
<1>5. ASSUME NEW p \in Passes, SavePrior(p) PROVE Due
  <2>1. /\ pass[p].pc = "savePrior" /\ UNCHANGED <<log, rows>>
        /\ \A q \in Passes \ {p} : pass'[q] = pass[q]
        /\ GoesTo(p, "current", pass[p].cp, pass[p].offset)
        /\ \/ checkpoint' = pass[p].cp /\ lostPlaces' = lostPlaces
           \/ lostPlaces' = lostPlaces + 1
    BY <1>5, SavePriorEffect DEF worldVars, Writes
  <2>2. CASE checkpoint' = pass[p].cp /\ lostPlaces' = lostPlaces
    <3>1. Covers(pass[p].cp)
      BY <2>1 DEF RowsInv, Saving, ToSave
    <3>2. CoversNext(checkpoint') /\ ~Saving(p)'
      BY <2>1, <2>2, <3>1, CoversSame DEF Saving, GoesTo
    <3> QED BY <1>0, <2>1, <3>2, DueLocal
  <2> QED BY <1>1, <2>1, <2>2
<1>6. ASSUME NEW p \in Passes, DrainCurrent(p) PROVE Due
  <2>1. /\ pass[p].pc = "current" /\ UNCHANGED <<log, checkpoint, lostPlaces>>
        /\ \A q \in Passes \ {p} : pass'[q] = pass[q]
    BY <1>6, DrainCurrentEffect DEF worldVars
  <2>2. /\ DrainPoint(p) = [date |-> pass[p].day, offset |-> pass[p].offset]
        /\ pass[p].day \in Days /\ pass[p].offset \in Nat /\ inFlight = p
        /\ PassInv(p) /\ pass[p].date = pass[p].day
    BY <1>0, <2>1, DrainPointType DEF DrainPoint, PassInv
  <2>3. ASSUME rows' = rows PROVE CoversNext(checkpoint')
    BY <1>2, <1>3, <2>1, <2>3
  <2>4. CASE /\ DrainThrows(pass[p].day, pass[p].offset)
             /\ GoesTo(p, "save", pass[p].cp, pass[p].offset)
    <3>1. rows' = rows
      BY <2>2, <2>4, DrainThrowsEffect
    <3>2. Covers(DrainPoint(p))
      BY <2>1, DrainIsAhead
    <3>3. CoversNext(DrainPoint(p))
      BY <2>1, <3>1, <3>2, CoversSame
    <3>4. ToSave(p)' = DrainPoint(p)
      BY <2>2, <2>4 DEF ToSave, NextCheckpoint, GoesTo
    <3> QED BY <2>1, <2>2, <2>3, <3>1, <3>3, <3>4, DueLocal
  <2>5. ASSUME NEW to \in 0..MaxLines, Drain(pass[p].day, pass[p].offset, to),
               GoesTo(p, "save", pass[p].cp, to)
        PROVE  Due
    <3>1. DrainsTo(DrainPoint(p).date, DrainPoint(p).offset, to)
      BY <2>2, <2>5, DrainEffect
    <3>2. CoversNext([date |-> pass[p].day, offset |-> to])
      BY <2>1, <2>2, <3>1, CoversDrain
    <3>3. ToSave(p)' = [date |-> pass[p].day, offset |-> to]
      BY <2>2, <2>5 DEF ToSave, NextCheckpoint, GoesTo
    <3>4. ASSUME ~Saving(p)' PROVE rows' = rows
      <4>1. [date |-> pass[p].day, offset |-> to] = pass[p].cp
        BY <2>2, <2>5, <3>4 DEF Saving, NextCheckpoint, GoesTo
      <4>2. pass[p].cp.date = pass[p].day /\ pass[p].cp.offset = to
        BY <4>1
      <4>3. pass[p].offset = to
        <5>1. Misread(pass[p]) \/ pass[p].offset = (IF checkpoint.date = pass[p].day THEN checkpoint.offset ELSE 0)
          BY <2>1, <2>2 DEF PassInv
        <5>2. \/ pass[p].cp = checkpoint
              \/ checkpoint = NoCheckpoint /\ pass[p].cp.offset = 0
              \/ Misread(pass[p])
          BY <2>1, <2>2, <4>2 DEF PassInv
        <5>3. Misread(pass[p]) => pass[p].cp.offset = 0 /\ pass[p].offset = 0
          BY DEF Misread
        <5> QED BY <4>2, <5>1, <5>2, <5>3 DEF NoCheckpoint
      <4>4. /\ DrainFrom(p) <= to /\ to <= Len(log[pass[p].day]) /\ to \in Nat
            /\ DrainFrom(p) \in Nat /\ Len(log[pass[p].day]) \in Nat
        <5>1. DrainPoint(p).date = pass[p].day
          BY <2>2
        <5>2. Len(log[pass[p].day]) \in Nat
          BY <2>2, RowsTypes, Entries
        <5> QED BY <2>1, <3>1, <5>1, <5>2, DrainInserts
      <4>5. DrainFrom(p) = to
        BY <2>2, <4>3, <4>4 DEF DrainFrom, StartOffset
      <4>6. \A l \in Lines : rows'[l] = rows[l]
        BY <2>1, <3>1, <4>4, <4>5, DrainInserts
      <4> QED BY <4>6, RowsTypes, RowsGrow
    <3> QED BY <2>1, <2>2, <2>3, <3>2, <3>3, <3>4, DueLocal
  <2> QED BY <1>6, <2>4, <2>5, DrainCurrentEffect
<1>7. ASSUME NEW p \in Passes, Save(p) PROVE Due
  <2>1. /\ pass[p].pc = "save" /\ UNCHANGED <<log, rows>>
        /\ pass' = [pass EXCEPT ![p] = Idle]
        /\ \/ NextCheckpoint(p) = pass[p].cp /\ UNCHANGED <<checkpoint, lostPlaces>>
           \/ /\ NextCheckpoint(p) # pass[p].cp
              /\ checkpoint' = NextCheckpoint(p) /\ lostPlaces' = lostPlaces
           \/ lostPlaces' = lostPlaces + 1
    BY <1>7, SaveEffect DEF worldVars, Writes
  <2>2. (\A q \in Passes \ {p} : pass'[q] = pass[q]) /\ ~Saving(p)'
    BY <2>1, CursorTypes DEF Saving, Idle
  <2>3. CASE NextCheckpoint(p) = pass[p].cp /\ UNCHANGED <<checkpoint, lostPlaces>>
    <3>1. \A q \in Passes : ~Saving(q)
      BY <2>1, <2>3, OnePass DEF Saving
    <3> QED BY <1>0, <1>2, <2>1, <2>2, <2>3, <3>1, DueLocal
  <2>4. CASE /\ NextCheckpoint(p) # pass[p].cp
             /\ checkpoint' = NextCheckpoint(p) /\ lostPlaces' = lostPlaces
    <3>1. Covers(NextCheckpoint(p))
      BY <2>1, <2>4 DEF RowsInv, Saving, ToSave
    <3>2. CoversNext(checkpoint')
      BY <2>1, <2>4, <3>1, CoversSame
    <3> QED BY <1>0, <2>1, <2>2, <3>2, DueLocal
  <2> QED BY <1>1, <2>1, <2>3, <2>4
<1>8. ASSUME NEW p \in Passes, BeginPass(p) PROVE Due
  <2>0. Begins(p) \/ Misses(p)
    BY <1>8, BeginEffect, CursorTypes
  <2>1. /\ inFlight = NoPass /\ UNCHANGED <<log, rows, checkpoint>>
        /\ \A q \in Passes \ {p} : pass'[q] = pass[q]
        /\ pass'[p].pc \in {"prior", "current"}
    BY <1>8, <2>0, BeginEffect, CursorTypes DEF Begins, Misses, BeginsFrom, worldVars, FirstStep
  <2>2. \A q \in Passes : ~Saving(q)
    BY <2>1, NoneInFlight DEF Saving
  <2>3. ~Saving(p)'
    BY <2>1 DEF Saving
  <2>4. CASE lostPlaces' = lostPlaces
    BY <1>2, <2>1, <2>2, <2>3, <2>4, DueLocal
  <2> QED BY <1>1, <2>0, <2>4 DEF Begins, Misses
<1>9. ASSUME World PROVE Due
  <2>1. UNCHANGED <<checkpoint, pass, rows, lostPlaces>>
    BY <1>9 DEF World, Midnight, AppendLine, AppendPart, AppendRest, Truncate, auxVars
  <2>2. checkpoint \in Positions /\ \A p \in Passes : ToSave(p) \in Positions
    BY CursorTypes DEF ToSave, NextCheckpoint, PassType, Positions
  <2>3. \A p \in Passes : (Saving(p)' <=> Saving(p)) /\ ToSave(p)' = ToSave(p)
    BY <2>1 DEF Saving, ToSave, NextCheckpoint
  <2> QED BY <1>9, <2>1, <2>2, <2>3, CoversWorld DEF Due, RowsInv
<1>10. ASSUME UNCHANGED <<log, checkpoint, pass, rows, lostPlaces>> PROVE Due
  <2>1. \A p \in Passes : (Saving(p)' <=> Saving(p)) /\ ToSave(p)' = ToSave(p)
    BY <1>10 DEF Saving, ToSave, NextCheckpoint
  <2> QED BY <1>10, <2>1, CoversSame DEF Due, RowsInv
<1>11. ASSUME Quit \/ Crash PROVE Due
  <2>1. \A p \in Passes : ~Saving(p)'
    BY <1>11, DownEffect DEF Idle, Saving
  <2>2. UNCHANGED <<log, checkpoint>>
    BY <1>11, DownEffect DEF worldVars
  <2>3. CASE Quit
    <3>1. (\A q \in Passes : ~Saving(q)) /\ UNCHANGED <<rows, lostPlaces>>
      BY <2>3, NoneInFlight DEF Quit, Saving, auxVars
    <3> QED BY <1>2, <2>1, <2>2, <3>1 DEF Due
  <2>4. CASE Crash
    <3>1. ASSUME NEW p \in Passes, pass[p].pc \in {"prior", "current"}, lostPlaces' = lostPlaces,
                 rows' = rows
          PROVE  Due
      BY <1>2, <1>3, <2>1, <2>2, <3>1 DEF Due
    <3> QED BY <1>1, <2>4, <3>1, CrashEffect
  <2> QED BY <1>11, <2>3, <2>4
<1>12. ASSUME StartApp PROVE UNCHANGED <<log, checkpoint, pass, rows, lostPlaces>>
  BY <1>12 DEF StartApp, worldVars, auxVars
<1> QED
  BY <1>4, <1>5, <1>6, <1>7, <1>8, <1>9, <1>10, <1>11, <1>12 DEF Next, PassStep, vars

LEMMA RowsStep ==
  ASSUME TypeOK, LinesInv, CursorInv, RowsInv, [Next]_vars
  PROVE  RowsInv'
<1>1. ASSUME NEW l \in Lines PROVE rows'[l] <= 1 + lostPlaces'
  <2>1. rows'[l] <= 1 + lostPlaces /\ rows'[l] \in Nat /\ lostPlaces \in Nat
        /\ lostPlaces' \in Int /\ lostPlaces <= lostPlaces'
    BY RowsBound, RowsGrow, RowsTypes, CountersStep
  <2> QED BY <2>1
<1> QED BY <1>1, RowsZero, DueStep, DueCovers DEF RowsInv

(* The checkpoint is honest. *)

HonestNext(d, k) ==
  d \in Days \ truncated' =>
    /\ k <= Len(log'[d])
    /\ \A i \in 1..k : log'[d][i] \in malformed' \/ rows'[log'[d][i]] > 0

\* The lines of a file stay where they are until it is emptied.
LEMMA FileStep ==
  ASSUME TypeOK, LinesInv, [Next]_vars, NEW d \in Days, d \notin truncated'
  PROVE  /\ d \notin truncated /\ Len(log[d]) \in Nat /\ Len(log'[d]) \in Nat
         /\ malformed \subseteq malformed'
         /\ Len(log[d]) <= Len(log'[d])
         /\ \A i \in 1..Len(log[d]) : log'[d][i] = log[d][i]
         /\ d < today => \/ Len(log'[d]) = Len(log[d]) /\ (partial'.day = d => partial' = partial)
                         \/ /\ partial.day = d /\ partial' = NoPartial
                            /\ Len(log'[d]) = Len(log[d]) + 1
                            /\ log'[d][Len(log[d]) + 1] = partial.line
<1>0. /\ log \in [Days -> Seq(Lines)] /\ Len(log[d]) \in Nat /\ d \in Nat /\ today \in Days
      /\ partial = NoPartial \/ partial \in [day : Days, line : Lines]
      /\ written \in 0..MaxLines
  BY LinesTypes, Entries DEF Days
<1>1. ASSUME UNCHANGED <<log, malformed, partial, truncated>>
      PROVE  /\ d \notin truncated /\ Len(log'[d]) \in Nat /\ malformed \subseteq malformed'
             /\ log' = log /\ partial' = partial
  BY <1>0, <1>1
<1>2. ASSUME NEW e \in Days, NEW l \in Lines, Appended(e, l)
      PROVE  /\ Len(log'[d]) \in Nat /\ Len(log[d]) <= Len(log'[d])
             /\ \A i \in 1..Len(log[d]) : log'[d][i] = log[d][i]
             /\ e # d => log'[d] = log[d]
             /\ e = d => Len(log'[d]) = Len(log[d]) + 1 /\ log'[d][Len(log[d]) + 1] = l
  <2>1. CASE e = d
    BY <1>0, <1>2, <2>1, AppendEffect
  <2>2. CASE e # d
    BY <1>0, <1>2, <2>2, AppendEffect
  <2> QED BY <2>1, <2>2
<1>3. CASE UNCHANGED <<log, malformed, partial, truncated>>
  BY <1>0, <1>1, <1>3
<1>4. CASE /\ UNCHANGED <<today, partial, truncated>> /\ partial = NoPartial
           /\ written' = written + 1 /\ written < MaxLines
           /\ malformed' = malformed \/ malformed' = malformed \cup {written + 1}
           /\ Appended(today, written + 1)
  <2>1. written + 1 \in Lines
    BY <1>0, <1>4, BoundAssumption DEF Lines
  <2>2. d < today => log'[d] = log[d]
    BY <1>0, <1>2, <1>4, <2>1
  <2> QED BY <1>0, <1>2, <1>4, <2>1, <2>2
<1>5. CASE /\ UNCHANGED <<today, log, malformed, truncated>> /\ partial = NoPartial
           /\ partial' = [day |-> today, line |-> written + 1]
  BY <1>0, <1>5 DEF Days
<1>6. CASE /\ UNCHANGED <<today, written, malformed, truncated>> /\ partial # NoPartial
           /\ partial' = NoPartial /\ Appended(partial.day, partial.line)
  <2>1. partial.day \in Days /\ partial.line \in Lines /\ NoPartial.day \notin Days
    BY <1>0, <1>6 DEF NoPartial, Days
  <2> QED BY <1>0, <1>2, <1>6, <2>1
<1>7. ASSUME NEW e \in Days, UNCHANGED <<today, written, malformed, partial>>,
             log' = [log EXCEPT ![e] = <<>>], truncated' = truncated \cup {e}
      PROVE  d # e /\ log'[d] = log[d] /\ d \notin truncated
  BY <1>0, <1>7
<1>8. ASSUME NEW p \in Passes, BeginPass(p) \/ PassStep(p)
      PROVE  UNCHANGED <<log, malformed, partial, truncated>>
  BY <1>8 DEF BeginPass, PassStep, DrainPrior, SavePrior, DrainCurrent, Save, worldVars, auxVars
<1>9. ASSUME Quit \/ Crash \/ StartApp PROVE UNCHANGED <<log, malformed, partial, truncated>>
  BY <1>9 DEF Quit, Crash, StartApp, worldVars, auxVars
<1>10. CASE World
  BY <1>0, <1>3, <1>4, <1>5, <1>6, <1>7, <1>10, WorldEffect
<1> QED BY <1>3, <1>8, <1>9, <1>10 DEF Next, vars

LEMMA HonestKept ==
  ASSUME TypeOK, LinesInv, CursorInv, [Next]_vars, NEW d, NEW k \in Nat, Honest(d, k)
  PROVE  HonestNext(d, k)
<1> SUFFICES ASSUME d \in Days, d \notin truncated'
             PROVE  /\ k <= Len(log'[d])
                    /\ \A i \in 1..k : log'[d][i] \in malformed' \/ rows'[log'[d][i]] > 0
  BY DEF HonestNext
<1>1. /\ d \notin truncated /\ Len(log[d]) \in Nat /\ Len(log'[d]) \in Nat
      /\ malformed \subseteq malformed' /\ Len(log[d]) <= Len(log'[d])
      /\ \A i \in 1..Len(log[d]) : log'[d][i] = log[d][i]
  BY FileStep
<1>2. k <= Len(log[d]) /\ \A i \in 1..k : log[d][i] \in malformed \/ rows[log[d][i]] > 0
  BY <1>1 DEF Honest
<1>3. ASSUME NEW i \in 1..k PROVE log'[d][i] \in malformed' \/ rows'[log'[d][i]] > 0
  <2>1. i \in 1..Len(log[d]) /\ log'[d][i] = log[d][i] /\ log[d][i] \in Lines
    BY <1>1, <1>2, LinesAreOld
  <2>2. rows[log[d][i]] \in Nat /\ rows'[log[d][i]] \in Nat /\ rows[log[d][i]] <= rows'[log[d][i]]
    BY <2>1, RowsTypes, RowsGrow
  <2> QED BY <1>1, <1>2, <2>1, <2>2
<1> QED BY <1>1, <1>2, <1>3

LEMMA HonestDrain ==
  ASSUME TypeOK, LinesInv, CursorInv, [Next]_vars, NEW p \in Passes,
         pass[p].pc \in {"prior", "current"},
         Honest(DrainPoint(p).date, DrainPoint(p).offset),
         NEW to, DrainsTo(DrainPoint(p).date, DrainPoint(p).offset, to),
         UNCHANGED <<log, malformed, truncated>>
  PROVE  HonestNext(DrainPoint(p).date, to)
<1> DEFINE d == DrainPoint(p).date
           k == DrainPoint(p).offset
<1>0. d \in Days /\ k \in Nat
  BY DrainPointType
<1> SUFFICES ASSUME d \notin truncated
             PROVE  to <= Len(log[d]) /\ \A i \in 1..to : log[d][i] \in malformed \/ rows'[log[d][i]] > 0
  BY DEF HonestNext
<1>1. k <= Len(log[d]) /\ DrainFrom(p) = k
  BY <1>0, RowsTypes, Entries DEF Honest, DrainFrom, StartOffset
<1>2. HonestNext(d, k)
  BY <1>0, HonestKept
<1>3. \A i \in 1..k : log[d][i] \in malformed \/ rows'[log[d][i]] > 0
  BY <1>0, <1>2 DEF HonestNext
<1>4. /\ to \in Nat /\ to <= Len(log[d])
      /\ \A i \in (k + 1)..to : log[d][i] \in malformed \/ rows'[log[d][i]] > 0
  BY <1>1, DrainInserts
<1> QED BY <1>0, <1>3, <1>4

LEMMA HonestStep ==
  ASSUME TypeOK, LinesInv, CursorInv, HonestInv, [Next]_vars
  PROVE  HonestInv'
<1>0. /\ checkpoint.offset \in Nat /\ pass \in [Passes -> PassType] /\ today \in Days
      /\ \A p \in Passes : pass[p].cp.offset \in Nat /\ pass[p].offset \in Nat
  BY CursorTypes DEF TypeOK
<1>1. HonestNext(checkpoint.date, checkpoint.offset)
  BY <1>0, HonestKept DEF HonestInv
<1>2. ASSUME NEW p \in Passes
      PROVE  /\ HonestNext(pass[p].cp.date, pass[p].cp.offset)
             /\ HonestNext(pass[p].day, pass[p].offset)
  BY <1>0, HonestKept DEF HonestInv
<1> DEFINE Good(p) == /\ HonestNext(pass'[p].cp.date, pass'[p].cp.offset)
                      /\ HonestNext(pass'[p].day, pass'[p].offset)
<1>3. SUFFICES HonestNext(checkpoint'.date, checkpoint'.offset) /\ \A p \in Passes : Good(p)
  BY <1>3 DEF HonestInv, Honest, HonestNext
<1>4. ASSUME NEW p \in Passes, Good(p), \A q \in Passes \ {p} : pass'[q] = pass[q]
      PROVE  \A q \in Passes : Good(q)
  BY <1>2, <1>4
<1>5. ASSUME NEW p \in Passes, pass'[p] = Idle PROVE Good(p)
  BY <1>5 DEF Idle, NoCheckpoint, HonestNext, Days
<1>6. ASSUME NEW p \in Passes, BeginPass(p)
      PROVE  checkpoint' = checkpoint /\ \A q \in Passes : Good(q)
  <2>1. (Begins(p) \/ Misses(p)) /\ \A q \in Passes \ {p} : pass'[q] = pass[q]
    BY <1>0, <1>6, BeginEffect
  <2>2. HonestNext(today, 0)
    BY <1>0, HonestKept, RowsTypes, Entries DEF Honest
  <2>3. /\ HonestNext(ReadCheckpoint.date, ReadCheckpoint.offset)
        /\ HonestNext(StartOfToday.date, StartOfToday.offset)
    BY <1>1, <2>2 DEF ReadCheckpoint, StartOfToday
  <2>4. PICK cp : BeginsFrom(p, cp) /\ HonestNext(cp.date, cp.offset)
    BY <2>1, <2>3 DEF Begins, Misses
  <2>5. Good(p)
    BY <2>2, <2>4 DEF BeginsFrom
  <2> QED BY <1>4, <2>1, <2>4, <2>5 DEF BeginsFrom
<1>7. ASSUME NEW p \in Passes, DrainPrior(p)
      PROVE  checkpoint' = checkpoint /\ \A q \in Passes : Good(q)
  <2>1. /\ pass[p].pc = "prior" /\ UNCHANGED <<log, malformed, truncated, checkpoint>>
        /\ \A q \in Passes \ {p} : pass'[q] = pass[q]
    BY <1>7, DrainPriorEffect DEF worldVars
  <2>2. DrainPoint(p) = pass[p].cp /\ pass[p].cp.date \in Days /\ pass[p].cp.offset \in Nat
    BY <2>1, DrainPointType DEF DrainPoint
  <2>3. CASE GoesTo(p, "current", pass[p].cp, pass[p].offset)
    BY <1>2, <1>4, <2>1, <2>3 DEF GoesTo
  <2>4. ASSUME NEW to \in 0..MaxLines, Drain(pass[p].cp.date, pass[p].cp.offset, to),
               GoesTo(p, "savePrior", [date |-> pass[p].cp.date, offset |-> to], pass[p].offset)
        PROVE  \A q \in Passes : Good(q)
    <3>1. DrainsTo(DrainPoint(p).date, DrainPoint(p).offset, to)
      BY <2>2, <2>4, DrainEffect
    <3>2. HonestNext(pass[p].cp.date, to)
      BY <2>1, <2>2, <3>1, HonestDrain DEF HonestInv
    <3>3. Good(p)
      BY <1>2, <2>4, <3>2 DEF GoesTo
    <3> QED BY <1>4, <2>1, <3>3
  <2> QED BY <1>7, <2>1, <2>3, <2>4, DrainPriorEffect
<1>8. ASSUME NEW p \in Passes, SavePrior(p)
      PROVE  /\ HonestNext(checkpoint'.date, checkpoint'.offset)
             /\ \A q \in Passes : Good(q)
  <2>1. /\ \A q \in Passes \ {p} : pass'[q] = pass[q]
        /\ GoesTo(p, "current", pass[p].cp, pass[p].offset)
        /\ checkpoint' = pass[p].cp \/ checkpoint' = checkpoint
    BY <1>8, SavePriorEffect DEF Writes
  <2>2. Good(p)
    BY <1>2, <2>1 DEF GoesTo
  <2> QED BY <1>1, <1>2, <1>4, <2>1, <2>2
<1>9. ASSUME NEW p \in Passes, DrainCurrent(p)
      PROVE  checkpoint' = checkpoint /\ \A q \in Passes : Good(q)
  <2>1. /\ pass[p].pc = "current" /\ UNCHANGED <<log, malformed, truncated, checkpoint>>
        /\ \A q \in Passes \ {p} : pass'[q] = pass[q]
    BY <1>9, DrainCurrentEffect DEF worldVars
  <2>2. /\ DrainPoint(p).date = pass[p].day /\ DrainPoint(p).offset = pass[p].offset
        /\ pass[p].day \in Days /\ pass[p].offset \in Nat
    BY <2>1, DrainPointType DEF DrainPoint
  <2>3. CASE GoesTo(p, "save", pass[p].cp, pass[p].offset)
    BY <1>2, <1>4, <2>1, <2>3 DEF GoesTo
  <2>4. ASSUME NEW to \in 0..MaxLines, Drain(pass[p].day, pass[p].offset, to),
               GoesTo(p, "save", pass[p].cp, to)
        PROVE  \A q \in Passes : Good(q)
    <3>1. DrainsTo(DrainPoint(p).date, DrainPoint(p).offset, to)
      BY <2>2, <2>4, DrainEffect
    <3>2. HonestNext(pass[p].day, to)
      BY <2>1, <2>2, <3>1, HonestDrain DEF HonestInv
    <3>3. Good(p)
      BY <1>2, <2>4, <3>2 DEF GoesTo
    <3> QED BY <1>4, <2>1, <3>3
  <2> QED BY <1>9, <2>1, <2>3, <2>4, DrainCurrentEffect
<1>10. ASSUME NEW p \in Passes, Save(p)
       PROVE  /\ HonestNext(checkpoint'.date, checkpoint'.offset)
              /\ \A q \in Passes : Good(q)
  <2>1. /\ pass[p].pc = "save" /\ pass' = [pass EXCEPT ![p] = Idle]
        /\ checkpoint' = NextCheckpoint(p) \/ checkpoint' = checkpoint
    BY <1>10, SaveEffect DEF Writes
  <2>2. (\A q \in Passes \ {p} : pass'[q] = pass[q]) /\ pass'[p] = Idle
    BY <1>0, <2>1
  <2>3. pass[p].date = pass[p].day
    BY <2>1 DEF CursorInv, PassInv
  <2>4. HonestNext(NextCheckpoint(p).date, NextCheckpoint(p).offset)
    BY <1>2, <2>3 DEF NextCheckpoint
  <2> QED BY <1>1, <1>4, <1>5, <2>1, <2>2, <2>4
<1>11. ASSUME Quit \/ Crash PROVE checkpoint' = checkpoint /\ \A q \in Passes : Good(q)
  BY <1>5, <1>11, DownEffect
<1>12. ASSUME World \/ StartApp \/ UNCHANGED vars PROVE UNCHANGED <<checkpoint, pass>>
  BY <1>12 DEF World, Midnight, AppendLine, AppendPart, AppendRest, Truncate, StartApp, vars,
     auxVars
<1>13. ASSUME UNCHANGED <<checkpoint, pass>>
       PROVE  HonestNext(checkpoint'.date, checkpoint'.offset) /\ \A p \in Passes : Good(p)
  BY <1>1, <1>2, <1>13
<1> HIDE DEF Good
<1> QED
  BY <1>1, <1>6, <1>7, <1>8, <1>9, <1>10, <1>11, <1>12, <1>13 DEF Next, PassStep

(* No day is left behind. *)

SettledLine(l) == l \in malformed' \/ rows'[l] > 0 \/ history'[l] \cap {"failed", "cut"} # {}

SettledNext(d) ==
  d \notin truncated' \cup unread' =>
    /\ \A i \in 1..Len(log'[d]) : SettledLine(log'[d][i])
    /\ partial'.day = d => SettledLine(partial'.line)

LEMMA SettledKept ==
  ASSUME TypeOK, CursorInv, [Next]_vars, NEW l \in Lines, l <= written, malformed \subseteq malformed',
         Settled(l)
  PROVE  SettledLine(l)
<1>1. rows[l] \in Nat /\ rows'[l] \in Nat /\ rows[l] <= rows'[l]
  BY RowsTypes, RowsGrow
<1>2. history[l] \subseteq history'[l]
  BY HistoryGrows, RowsTypes DEF Lines
<1> QED BY <1>1, <1>2 DEF Settled, SettledLine

LEMMA SettledDayKept ==
  ASSUME TypeOK, LinesInv, CursorInv, [Next]_vars, NEW d \in Days, d < today, SettledDay(d)
  PROVE  SettledNext(d)
<1> SUFFICES ASSUME d \notin truncated', d \notin unread'
             PROVE  /\ \A i \in 1..Len(log'[d]) : SettledLine(log'[d][i])
                    /\ partial'.day = d => SettledLine(partial'.line)
  BY DEF SettledNext
<1>1. /\ d \notin truncated /\ Len(log[d]) \in Nat /\ malformed \subseteq malformed'
      /\ \A i \in 1..Len(log[d]) : log'[d][i] = log[d][i]
      /\ \/ Len(log'[d]) = Len(log[d]) /\ (partial'.day = d => partial' = partial)
         \/ /\ partial.day = d /\ partial' = NoPartial
            /\ Len(log'[d]) = Len(log[d]) + 1
            /\ log'[d][Len(log[d]) + 1] = partial.line
  BY FileStep
<1>2. ASSUME NEW i \in 1..Len(log[d]) PROVE SettledLine(log'[d][i])
  <2>1. log[d][i] \in Lines /\ log[d][i] <= written
    BY LinesAreOld
  <2>2. Settled(log[d][i])
    BY <1>1, UnreadStep DEF SettledDay
  <2> QED BY <1>1, <2>1, <2>2, SettledKept
<1>3. ASSUME partial.day = d PROVE SettledLine(partial.line)
  <2>1. partial # NoPartial
    BY <1>3 DEF NoPartial, Days
  <2>2. partial.line \in Lines /\ partial.line <= written
    BY <2>1, LinesTypes, RowsTypes DEF LinesInv
  <2> QED BY <1>1, <1>3, <2>2, SettledKept, UnreadStep DEF SettledDay
<1>4. ASSUME NEW i \in 1..Len(log'[d]), i \notin 1..Len(log[d]) PROVE SettledLine(log'[d][i])
  <2>1. i = Len(log[d]) + 1 /\ partial.day = d /\ log'[d][i] = partial.line
    BY <1>1, <1>4
  <2> QED BY <1>3, <2>1
<1>5. NoPartial.day # d
  BY DEF NoPartial, Days
<1> QED BY <1>1, <1>2, <1>3, <1>4, <1>5

\* A drain of a file settles it: what it does not insert, it marks.
LEMMA DrainSettles ==
  ASSUME NEW d \in Days, NEW k \in Nat, HonestNext(d, k), Marks(d, k), TypeOK,
         UNCHANGED <<log, malformed, partial, truncated>>
  PROVE  SettledNext(d)
<1>1. Len(log[d]) \in Nat
  BY RowsTypes, Entries
<1> SUFFICES ASSUME d \notin truncated
             PROVE  /\ \A i \in 1..Len(log[d]) : SettledLine(log[d][i])
                    /\ partial.day = d => SettledLine(partial.line)
  BY DEF SettledNext
<1>2. ASSUME NEW i \in 1..Len(log[d]) PROVE SettledLine(log[d][i])
  <2>1. CASE i <= k
    <3>1. i \in 1..k
      BY <1>1, <2>1
    <3> QED BY <3>1 DEF HonestNext, SettledLine
  <2>2. CASE ~(i <= k)
    <3>1. i \in (k + 1)..Len(log[d])
      BY <1>1, <2>2
    <3> QED BY <3>1 DEF Marks, SettledLine
  <2> QED BY <2>1, <2>2
<1> QED BY <1>2 DEF Marks, SettledLine

LEMMA RolloverStep ==
  ASSUME TypeOK, LinesInv, CursorInv, HonestInv, RolloverInv, [Next]_vars
  PROVE  RolloverInv'
<1> DEFINE Past == \A d \in visited' : d < checkpoint'.date => SettledNext(d)
           Left(p) == pass'[p].pc \in {"savePrior", "current", "save"}
                        /\ checkpoint'.date \in visited' /\ checkpoint'.date < pass'[p].day =>
                          SettledNext(checkpoint'.date)
<1>0. /\ checkpoint.date \in Nat /\ checkpoint.date <= today /\ today \in Nat
      /\ visited \subseteq Days /\ visited \subseteq 1..checkpoint.date
      /\ pass \in [Passes -> PassType] /\ Days \subseteq Nat
  BY CursorTypes DEF CursorInv, Days
<1>1. SUFFICES Past /\ \A p \in Passes : Left(p)
  BY <1>1 DEF RolloverInv, SettledDay, Settled, SettledNext, SettledLine
<1>2. ASSUME NEW d \in visited, d < checkpoint.date PROVE SettledNext(d)
  BY <1>0, <1>2, SettledDayKept DEF RolloverInv
<1>3. ASSUME UNCHANGED <<checkpoint, visited>> PROVE Past
  BY <1>2, <1>3
<1>4. ASSUME NEW p \in Passes, pass[p].pc # "idle"
      PROVE  PassInv(p) /\ pass[p].day \in Nat /\ pass[p].day <= today
             /\ checkpoint.date <= pass[p].day /\ pass[p].date = pass[p].day
  BY <1>4, CursorTypes DEF CursorInv, PassInv
<1>5. ASSUME NEW p \in Passes, pass[p].pc \in {"savePrior", "current", "save"},
             checkpoint.date \in visited, checkpoint.date < pass[p].day
      PROVE  SettledNext(checkpoint.date)
  <2>1. SettledDay(checkpoint.date)
    BY <1>5 DEF RolloverInv
  <2>2. checkpoint.date < today /\ checkpoint.date \in Days
    BY <1>0, <1>4, <1>5
  <2> QED BY <2>1, <2>2, SettledDayKept
<1>6. ASSUME NEW p \in Passes, Left(p), \A q \in Passes \ {p} : pass'[q] = pass[q],
             checkpoint'.date = checkpoint.date, visited' = visited
      PROVE  \A q \in Passes : Left(q)
  BY <1>5, <1>6
<1>7. ASSUME NEW p \in Passes, BeginPass(p) PROVE Past /\ \A q \in Passes : Left(q)
  <2>1. /\ Begins(p) \/ Misses(p)
        /\ (\A q \in Passes \ {p} : pass'[q] = pass[q]) /\ UNCHANGED <<checkpoint, visited>>
        /\ pass'[p].day = today
    BY <1>0, <1>7, BeginEffect DEF Begins, Misses, BeginsFrom
  <2>2. Left(p)
    <3> SUFFICES ASSUME pass'[p].pc \in {"savePrior", "current", "save"},
                        checkpoint.date \in visited, checkpoint.date < today
                 PROVE  SettledNext(checkpoint.date)
      BY <2>1
    <3>1. checkpoint # NoCheckpoint
      BY <1>0 DEF NoCheckpoint
    <3>2. CASE Begins(p)
      <4>1. pass'[p].pc = "prior"
        BY <1>0, <3>1, <3>2 DEF Begins, BeginsFrom, FirstStep, ReadCheckpoint
      <4> QED BY <4>1
    <3>3. CASE Misses(p)
      <4>1. checkpoint.date \in unread'
        BY <1>0, <3>3 DEF Misses
      <4> QED BY <4>1 DEF SettledNext
    <3> QED BY <2>1, <3>2, <3>3
  <2> QED BY <1>3, <1>6, <2>1, <2>2
<1>8. ASSUME NEW p \in Passes, DrainPrior(p) PROVE Past /\ \A q \in Passes : Left(q)
  <2>1. /\ pass[p].pc = "prior" /\ UNCHANGED <<log, malformed, partial, truncated, checkpoint,
                                               visited>>
        /\ \A q \in Passes \ {p} : pass'[q] = pass[q]
    BY <1>8, DrainPriorEffect DEF worldVars
  <2>2. /\ DrainPoint(p) = pass[p].cp /\ pass[p].cp.date \in Days /\ pass[p].cp.offset \in Nat
        /\ pass[p].cp.date = checkpoint.date
    BY <1>4, <2>1, DrainPointType DEF DrainPoint, PassInv
  <2>3. CASE DrainThrows(pass[p].cp.date, pass[p].cp.offset)
    <3>1. Marks(pass[p].cp.date, StartOffset(pass[p].cp.date, pass[p].cp.offset))
      BY <2>2, <2>3, DrainThrowsEffect
    <3>2. HonestNext(pass[p].cp.date, pass[p].cp.offset)
      BY <2>2, HonestKept DEF HonestInv
    <3>3. pass[p].cp.date \notin truncated =>
            StartOffset(pass[p].cp.date, pass[p].cp.offset) = pass[p].cp.offset
      <4>1. Len(log[pass[p].cp.date]) \in Nat
        BY <2>2, RowsTypes, Entries
      <4> QED BY <2>1, <2>2, <3>2, <4>1 DEF HonestNext, StartOffset
    <3>4. SettledNext(pass[p].cp.date)
      <4>1. CASE pass[p].cp.date \in truncated
        BY <2>1, <4>1 DEF SettledNext
      <4>2. CASE pass[p].cp.date \notin truncated
        BY <2>1, <2>2, <3>1, <3>2, <3>3, <4>2, DrainSettles
      <4> QED BY <4>1, <4>2
    <3>5. Left(p)
      BY <2>1, <2>2, <3>4
    <3> QED BY <1>3, <1>6, <2>1, <3>5
  <2>4. ASSUME NEW to \in 0..MaxLines, Drain(pass[p].cp.date, pass[p].cp.offset, to)
        PROVE  Past /\ \A q \in Passes : Left(q)
    <3>1. DrainsTo(DrainPoint(p).date, DrainPoint(p).offset, to) /\ Marks(pass[p].cp.date, to)
      BY <2>2, <2>4, DrainEffect
    <3>2. HonestNext(pass[p].cp.date, to)
      BY <2>1, <2>2, <3>1, HonestDrain DEF HonestInv
    <3>3. SettledNext(pass[p].cp.date)
      BY <2>1, <2>2, <3>1, <3>2, DrainSettles
    <3>4. Left(p)
      BY <2>1, <2>2, <3>3
    <3> QED BY <1>3, <1>6, <2>1, <3>4
  <2> QED BY <1>8, <2>3, <2>4, DrainPriorEffect
<1>9. ASSUME NEW p \in Passes, SavePrior(p) PROVE Past /\ \A q \in Passes : Left(q)
  <2>1. /\ pass[p].pc = "savePrior" /\ GoesTo(p, "current", pass[p].cp, pass[p].offset)
        /\ \A q \in Passes \ {p} : pass'[q] = pass[q]
        /\ Writes(pass[p].cp) \/ UNCHANGED <<checkpoint, visited>>
    BY <1>9, SavePriorEffect
  <2>2. pass[p].cp.date = checkpoint.date /\ checkpoint.date # 0
    BY <1>4, <2>1 DEF PassInv
  <2>3. checkpoint.date \in visited
    BY <2>2 DEF CursorInv, NoCheckpoint
  <2>4. checkpoint'.date = checkpoint.date /\ visited' = visited
    BY <2>1, <2>2, <2>3 DEF Writes
  <2>5. Left(p)
    BY <1>5, <2>1, <2>4 DEF GoesTo
  <2> QED BY <1>2, <1>6, <2>1, <2>4, <2>5
<1>10. ASSUME NEW p \in Passes, DrainCurrent(p) PROVE Past /\ \A q \in Passes : Left(q)
  <2>1. /\ pass[p].pc = "current" /\ UNCHANGED <<checkpoint, visited>>
        /\ (\A q \in Passes \ {p} : pass'[q] = pass[q]) /\ pass'[p].day = pass[p].day
    BY <1>10, DrainCurrentEffect DEF GoesTo
  <2>2. Left(p)
    BY <1>5, <2>1
  <2> QED BY <1>3, <1>6, <2>1, <2>2
<1>11. ASSUME NEW p \in Passes, Save(p) PROVE Past /\ \A q \in Passes : Left(q)
  <2>1. /\ pass[p].pc = "save" /\ pass' = [pass EXCEPT ![p] = Idle]
        /\ Writes(NextCheckpoint(p)) \/ UNCHANGED <<checkpoint, visited>>
    BY <1>11, SaveEffect
  <2>2. pass'[p].pc = "idle" /\ \A q \in Passes \ {p} : pass'[q] = pass[q]
    BY <1>0, <2>1 DEF Idle
  <2>3. \A q \in Passes : Left(q)
    <3>1. \A q \in Passes \ {p} : pass[q].pc = "idle"
      BY <2>1, OnePass
    <3> QED BY <2>2, <3>1
  <2>4. CASE Writes(NextCheckpoint(p))
    <3>1. checkpoint'.date = pass[p].day /\ visited' = visited \cup {pass[p].day}
      BY <1>4, <2>1, <2>4 DEF Writes, NextCheckpoint
    <3>2. ASSUME NEW d \in visited', d < pass[p].day PROVE SettledNext(d)
      <4>1. d \in visited /\ d <= checkpoint.date /\ d \in Nat /\ pass[p].day \in Nat
        BY <1>0, <1>4, <2>1, <3>1, <3>2
      <4>2. CASE d < checkpoint.date
        BY <1>2, <4>1, <4>2
      <4>3. CASE d = checkpoint.date
        BY <1>5, <2>1, <3>2, <4>1, <4>3
      <4> QED BY <1>0, <4>1, <4>2, <4>3
    <3> QED BY <2>3, <3>1, <3>2
  <2> QED BY <1>3, <2>1, <2>3, <2>4
<1>12. ASSUME Quit \/ Crash PROVE Past /\ \A q \in Passes : Left(q)
  <2>1. UNCHANGED <<checkpoint, visited>> /\ \A q \in Passes : pass'[q].pc = "idle"
    BY <1>12, DownEffect DEF Idle
  <2> QED BY <1>3, <2>1
<1>13. ASSUME UNCHANGED <<checkpoint, visited, pass>> PROVE Past /\ \A q \in Passes : Left(q)
  BY <1>3, <1>5, <1>13
<1>14. ASSUME World \/ StartApp \/ UNCHANGED vars PROVE UNCHANGED <<checkpoint, visited, pass>>
  BY <1>14 DEF World, Midnight, AppendLine, AppendPart, AppendRest, Truncate, StartApp, vars,
     auxVars
<1> HIDE DEF Past, Left
<1> QED
  BY <1>7, <1>8, <1>9, <1>10, <1>11, <1>12, <1>13, <1>14 DEF Next, PassStep

-----------------------------------------------------------------------------

THEOREM IngestInit == Init => IngestInv
<1> SUFFICES ASSUME Init PROVE IngestInv
  OBVIOUS
<1>0. /\ today = 1 /\ log = [d \in Days |-> <<>>] /\ written = 0 /\ malformed = {}
      /\ partial = NoPartial /\ checkpoint = NoCheckpoint /\ rows = [l \in Lines |-> 0]
      /\ up = TRUE /\ inFlight = NoPass /\ pass = [p \in Passes |-> Idle]
      /\ faults = 0 /\ lostPlaces = 0 /\ unread = {} /\ visited = {} /\ truncated = {}
      /\ history = [l \in Lines |-> {}]
  BY DEF Init
<1>1. 1 \in Days /\ MaxDay \in Nat /\ MaxLines \in Nat /\ MaxFaults \in Nat /\ 0 \notin Days
      /\ \A l \in Lines : l \in Nat \ {0}
  BY BoundAssumption DEF Days, Lines
<1>2. pass \in [Passes -> PassType] /\ checkpoint \in Positions
  BY <1>0, <1>1 DEF Idle, NoCheckpoint, PassType, Positions
<1>3. log \in [Days -> Seq(Lines)] /\ \A d \in Days : Len(log[d]) = 0
  BY <1>0
<1>4. \A d \in Days : \A i \in 1..Len(log[d]) : FALSE
  BY <1>3
<1>5. TypeOK
  BY <1>0, <1>1, <1>2, <1>3 DEF TypeOK
<1>6. LinesInv
  BY <1>0, <1>4 DEF LinesInv, InOrder, OnePlace
<1>7. CursorInv
  BY <1>0 DEF CursorInv, NoCheckpoint, Idle
<1>8. RowsInv
  <2>1. \A l \in Lines : rows[l] = 0
    BY <1>0
  <2> QED BY <1>0, <1>4, <2>1 DEF RowsInv, Covers, Saving, Idle
<1>9. HonestInv
  BY <1>0, <1>1 DEF HonestInv, Honest, NoCheckpoint, Idle
<1>10. RolloverInv
  BY <1>0 DEF RolloverInv
<1> QED BY <1>5, <1>6, <1>7, <1>8, <1>9, <1>10 DEF IngestInv

THEOREM IngestStep == IngestInv /\ [Next]_vars => IngestInv'
BY IngestTypeStep, LinesStep, CursorStep, RowsStep, HonestStep, RolloverStep DEF IngestInv

\* The invariant holds throughout, for any callers and any faults.
THEOREM IngestInvariance == Spec => []IngestInv
BY IngestInit, IngestStep, PTL DEF Spec

\* Type correctness of the files, the checkpoint and the passes of ingestOnce.
THEOREM IngestTypes == Spec => []TypeOK
<1>1. IngestInv => TypeOK
  BY DEF IngestInv
<1> QED BY <1>1, IngestInvariance, PTL

\* ingestOnce inserts a line once, and once more at most for each pass whose checkpoint was
\* lost (not written, or not readable).
THEOREM FewDuplicates == Spec => []DuplicatesNeedALostPlace
<1>1. IngestInv => DuplicatesNeedALostPlace
  BY DEF IngestInv, RowsInv, DuplicatesNeedALostPlace
<1> QED BY <1>1, IngestInvariance, PTL

\* Every line that writeCheckpoint leaves behind has its row.
THEOREM CheckpointsAreHonest == Spec => []CheckpointIsHonest
<1>1. ASSUME IngestInv PROVE CheckpointIsHonest
  <2> SUFFICES ASSUME checkpoint # NoCheckpoint, checkpoint.date \notin truncated
               PROVE  /\ checkpoint.offset <= Len(log[checkpoint.date])
                      /\ \A i \in 1..checkpoint.offset :
                           log[checkpoint.date][i] \in malformed \/ rows[log[checkpoint.date][i]] > 0
    BY DEF CheckpointIsHonest
  <2>1. checkpoint.date \in Days
    BY <1>1 DEF IngestInv, TypeOK, CursorInv
  <2> QED BY <1>1, <2>1 DEF IngestInv, HonestInv, Honest
<1> QED BY <1>1, IngestInvariance, PTL

\* The drain of the prior day leaves no line of a day that the checkpoint has named, unless the
\* first pass of a later day could not read it.
THEOREM RolloverDrains == Spec => []RolloverDrainsTheDay
<1>1. ASSUME IngestInv PROVE RolloverDrainsTheDay
  <2> SUFFICES ASSUME NEW d \in visited \ (truncated \cup unread), NEW i \in 1..Len(log[d]),
                      history[log[d][i]] \cap {"failed", "cut"} = {}
               PROVE  Kept(log[d][i])
    BY DEF RolloverDrainsTheDay, LogLines
  <2>1. /\ d \in 1..checkpoint.date /\ d \in Days /\ checkpoint.date \in Nat
        /\ checkpoint.offset \in Nat /\ checkpoint # NoCheckpoint
    BY <1>1, CursorTypes, SMTT(30) DEF IngestInv, TypeOK, CursorInv, NoCheckpoint
  <2>2. CASE d < checkpoint.date
    BY <1>1, <2>1, <2>2 DEF IngestInv, RolloverInv, SettledDay, Settled, Kept
  <2>3. CASE d = checkpoint.date /\ i <= checkpoint.offset
    <3>1. i \in 1..checkpoint.offset
      BY <1>1, <2>1, <2>3, RowsTypes, Entries DEF IngestInv
    <3> QED BY <1>1, <2>1, <2>3, <3>1 DEF IngestInv, HonestInv, Honest, Kept
  <2>4. CASE d = checkpoint.date /\ i > checkpoint.offset
    BY <2>1, <2>4 DEF Kept, Reachable
  <2>5. Len(log[d]) \in Nat
    BY <1>1, <2>1, RowsTypes, Entries DEF IngestInv
  <2> QED BY <2>1, <2>2, <2>3, <2>4, <2>5
<1> QED BY <1>1, IngestInvariance, PTL

=============================================================================
