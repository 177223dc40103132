------------------------ MODULE RemoteRequestsProofs ------------------------
EXTENDS RemoteRequests, TLAPS, WellFoundedInduction, FiniteSetTheorems

(* The presses in Telegram. *)

\* A batch has a lowest update.
LEMMA LowestIsThere ==
  ASSUME NEW batch, batch \subseteq Nat, batch # {}
  PROVE  LowestOf(batch) \in batch /\ \A v \in batch : LowestOf(batch) <= v
<1>1. \E u \in batch : \A v \in batch : ~ (<<v, u>> \in OpToRel(<, Nat))
  BY NatLessThanWellFounded, WFMin
<1>2. \E u \in batch : \A v \in batch : ~ (v < u)
  BY <1>1 DEF OpToRel
<1>3. \E u \in batch : \A v \in batch : u <= v
  BY <1>2
<1> QED BY <1>3 DEF LowestOf

USE PressAssumption DEF Updates

PollType == {Idle} \cup RequestType \cup LoopType

LEMMA PollIs ==
  /\ \A x \in PollType : x.is = "asked" => x \in RequestType
  /\ \A x \in PollType : x.is = "loop" => x \in LoopType
<1>1. Idle.is = "idle"
  BY DEF Idle
<1>2. (\A x \in RequestType : x.is = "asked") /\ (\A x \in LoopType : x.is = "loop")
  BY DEF RequestType, LoopType
<1> QED BY <1>1, <1>2 DEF PollType

LEMMA LoopGoesOn ==
  ASSUME NEW loop \in LoopType
  PROVE  /\ [loop EXCEPT !.stage = "action"] \in LoopType
         /\ Handled(loop) \in LoopType
         /\ [loop EXCEPT !.stage = "action"].is = "loop"
         /\ Handled(loop).is = "loop"
         /\ [loop EXCEPT !.stage = "action"].left = loop.left
         /\ Handled(loop).left = loop.left
<1>1. 0 \in 0..Presses
  OBVIOUS
<1> QED BY <1>1 DEF LoopType, Handled

\* A loop takes the lowest update of its batch up, and the offset does not fall behind it.
LEMMA TakeUpEffect ==
  ASSUME TgTypeOK, NEW p \in Polls, NEW batch \in SUBSET Updates, batch # {}, TakeUp(p, batch)
  PROVE  /\ LowestOf(batch) \in batch
         /\ lastUpdateId' \in 0..Presses
         /\ lastUpdateId' >= lastUpdateId /\ lastUpdateId' >= LowestOf(batch)
         /\ begun' \in [Updates -> Nat]
         /\ begun'[LowestOf(batch)] = begun[LowestOf(batch)] + 1
         /\ \A u \in Updates : u # LowestOf(batch) => begun'[u] = begun[u]
         /\ poll' \in [Polls -> PollType]
         /\ poll'[p].is = "loop" /\ poll'[p].left = batch \ {LowestOf(batch)}
         /\ \A q \in Polls : q # p => poll'[q] = poll[q]
<1>0. /\ poll \in [Polls -> PollType] /\ begun \in [Updates -> Nat] /\ lastUpdateId \in 0..Presses
  BY DEF TgTypeOK, PollType
<1>1. LowestOf(batch) \in batch
  <2>1. batch \subseteq Nat
    OBVIOUS
  <2> QED BY <2>1, LowestIsThere
<1> DEFINE u == LowestOf(batch)
<1>2. u \in Updates
  BY <1>1
<1> HIDE DEF u
<1>3. /\ lastUpdateId' = OffsetAfter(u)
      /\ begun' = [begun EXCEPT ![u] = @ + 1]
      /\ poll' = [poll EXCEPT ![p] = [is |-> "loop", left |-> batch \ {u}, at |-> u, stage |-> "reply"]]
  BY DEF TakeUp, u
<1>4. lastUpdateId' \in 0..Presses /\ lastUpdateId' >= lastUpdateId /\ lastUpdateId' >= u
  BY <1>0, <1>2, <1>3 DEF OffsetAfter
<1>5. /\ begun' \in [Updates -> Nat] /\ begun'[u] = begun[u] + 1
      /\ \A v \in Updates : v # u => begun'[v] = begun[v]
  BY <1>0, <1>2, <1>3
<1>6. [is |-> "loop", left |-> batch \ {u}, at |-> u, stage |-> "reply"] \in LoopType
  BY <1>2 DEF LoopType
<1>7. /\ poll' \in [Polls -> PollType]
      /\ poll'[p].is = "loop" /\ poll'[p].left = batch \ {u}
      /\ \A q \in Polls : q # p => poll'[q] = poll[q]
  BY <1>0, <1>3, <1>6 DEF PollType
<1> QED BY <1>1, <1>4, <1>5, <1>7 DEF u

LEMMA TgTypesStep ==
  ASSUME TgTypeOK, [TgNext]_tgVars
  PROVE  TgTypeOK'
<1>0. /\ poll \in [Polls -> PollType] /\ begun \in [Updates -> Nat] /\ lastUpdateId \in 0..Presses
      /\ kind \in [Updates -> Kinds] /\ confirmed \in 0..Presses /\ ran \in [Updates -> Nat]
      /\ behind \subseteq Updates /\ unconfirmed \subseteq Updates /\ tgFaults \in 0..MaxTgFaults
  BY DEF TgTypeOK, PollType
<1> DEFINE Polling == poll' \in [Polls -> PollType] /\ begun' \in [Updates -> Nat] /\ lastUpdateId' \in 0..Presses
<1>1. CASE Press
  BY <1>1 DEF Press, TgTypeOK, Kinds
<1>2. ASSUME NEW p \in Polls, Ask(p) PROVE TgTypeOK'
  <2>1. [is |-> "asked", offset |-> lastUpdateId + 1] \in PollType
    BY <1>0 DEF PollType, RequestType
  <2>2. poll' \in [Polls -> PollType]
    BY <1>0, <1>2, <2>1 DEF Ask
  <2> QED BY <1>2, <2>2 DEF Ask, TgTypeOK, PollType
<1>3. ASSUME NEW p \in Polls, EndOfPoll(p) PROVE Polling
  BY <1>0, <1>3 DEF EndOfPoll, PollType
<1>4. ASSUME NEW p \in Polls, Fetched(p) PROVE TgTypeOK'
  <2> DEFINE batch == {u \in Posted : u > confirmed /\ u > poll[p].offset - 1}
  <2>1. batch \in SUBSET Updates /\ poll[p].offset \in 1..Presses + 1
    <3>1. poll[p] \in RequestType
      BY <1>0, <1>4, PollIs DEF Fetched
    <3>2. batch \in SUBSET Updates
      BY DEF Posted
    <3> QED BY <3>1, <3>2 DEF RequestType
  <2> HIDE DEF batch
  <2>2. /\ confirmed' = IF poll[p].offset - 1 > confirmed THEN poll[p].offset - 1 ELSE confirmed
        /\ EndOfPoll(p) \/ (batch # {} /\ TakeUp(p, batch))
        /\ behind' = behind \/ (batch # {} /\ behind' = behind \cup (batch \ {LowestOf(batch)}))
        /\ tgFaults' = tgFaults \/ TgFault
        /\ UNCHANGED <<kind, ran, unconfirmed>>
    BY Zenon, <1>4 DEF Fetched, batch
  <2>3. Polling
    BY <1>3, <2>1, <2>2, TakeUpEffect
  <2>4. confirmed' \in 0..Presses
    BY <1>0, <2>1, <2>2
  <2>5. tgFaults' \in 0..MaxTgFaults
    BY <1>0, <2>2 DEF TgFault
  <2>6. behind' \subseteq Updates
    <3>1. \A u : batch \ {u} \subseteq Updates
      BY <2>1
    <3> QED BY <1>0, <2>2, <3>1
  <2> QED BY <1>0, <2>2, <2>3, <2>4, <2>5, <2>6 DEF TgTypeOK, PollType
<1>5. ASSUME NEW p \in Polls, TakeNext(p) PROVE TgTypeOK'
  <2>1. poll[p].left \in SUBSET Updates
    BY <1>0, <1>5, PollIs DEF TakeNext, LoopType
  <2>2. Polling
    BY <1>3, <1>5, <2>1, TakeUpEffect DEF TakeNext
  <2> QED BY <1>5, <2>2 DEF TakeNext, TgTypeOK, PollType
<1>6. ASSUME NEW p \in Polls, Reply(p) \/ ActionOver(p)
      PROVE  TgTypeOK'
  <2>1. poll[p] \in LoopType
    BY <1>0, <1>6, PollIs DEF Reply, ActionOver
  <2>2. \/ poll' = [poll EXCEPT ![p].stage = "action"]
        \/ poll' = [poll EXCEPT ![p] = Handled(@)]
    BY Zenon, <1>6 DEF Reply, ActionOver
  <2>3. poll' \in [Polls -> PollType]
    <3>1. /\ [poll[p] EXCEPT !.stage = "action"] \in PollType
          /\ Handled(poll[p]) \in PollType
      BY <2>1, LoopGoesOn DEF PollType
    <3> QED BY <1>0, <2>2, <3>1
  <2>4. ran' \in [Updates -> Nat]
    BY <1>0, <1>6 DEF Reply, ActionOver
  <2> QED BY <1>6, <2>3, <2>4 DEF Reply, ActionOver, TgTypeOK, PollType
<1>7. CASE TgRestart
  <2>1. poll' \in [Polls -> PollType] /\ lastUpdateId' \in 0..Presses
    BY <1>7 DEF TgRestart, PollType
  <2>2. unconfirmed' \subseteq Updates /\ tgFaults' \in 0..MaxTgFaults
    <3>1. unconfirmed' = unconfirmed \cup {u \in Updates : u > confirmed /\ begun[u] > 0}
      BY <1>7 DEF TgRestart
    <3>2. tgFaults' \in 0..MaxTgFaults
      BY <1>0, <1>7 DEF TgRestart, TgFault
    <3> QED BY <1>0, <3>1, <3>2
  <2>3. UNCHANGED <<kind, confirmed, begun, ran, behind>>
    BY <1>7 DEF TgRestart
  <2> QED BY <1>0, <2>1, <2>2, <2>3 DEF TgTypeOK, PollType
<1>8. CASE UNCHANGED tgVars
  BY <1>8 DEF tgVars, TgTypeOK
<1> QED BY <1>1, <1>2, <1>4, <1>5, <1>6, <1>7, <1>8 DEF TgNext

LEMMA TgStep ==
  ASSUME TgInv, [TgNext]_tgVars
  PROVE  TgInv'
<1>0. /\ poll \in [Polls -> PollType] /\ begun \in [Updates -> Nat] /\ lastUpdateId \in 0..Presses
      /\ confirmed \in 0..Presses
  BY DEF TgInv, TgTypeOK, PollType
<1>1. TgTypeOK'
  BY TgTypesStep DEF TgInv
<1> DEFINE Rest == OffsetsArePast' /\ OneRequest' /\ LeftIsBehind' /\ OnlyKnownRepeats'
<1>2. ASSUME NEW p \in Polls, Ask(p) PROVE Rest
  <2>1. /\ poll'[p].is = "asked" /\ poll'[p].offset = lastUpdateId + 1
        /\ \A q \in Polls : poll[q].is # "asked"
        /\ \A q \in Polls : q # p => poll'[q] = poll[q]
        /\ UNCHANGED <<confirmed, lastUpdateId, begun, behind, unconfirmed>>
    BY <1>0, <1>2 DEF Ask
  <2>2. OffsetsArePast'
    BY <1>0, <2>1 DEF TgInv, OffsetsArePast, Unrepeatable
  <2>3. OneRequest' /\ LeftIsBehind' /\ OnlyKnownRepeats'
    BY <2>1 DEF TgInv, OneRequest, LeftIsBehind, OnlyKnownRepeats
  <2> QED BY <2>2, <2>3
<1>3. ASSUME NEW p \in Polls, Fetched(p) PROVE Rest
  <2> DEFINE batch == {u \in Posted : u > confirmed /\ u > poll[p].offset - 1}
             low == LowestOf(batch)
  <2>1. batch \in SUBSET Updates /\ poll[p].offset \in 1..Presses + 1
    <3>1. poll[p] \in RequestType
      BY <1>0, <1>3, PollIs DEF Fetched, PollType
    <3>2. batch \in SUBSET Updates
      BY DEF Posted
    <3> QED BY <3>1, <3>2 DEF RequestType
  <2>2. \A u \in batch : u > confirmed /\ u >= poll[p].offset
    BY <1>0, <2>1
  <2> HIDE DEF batch
  <2>3. /\ confirmed' = IF poll[p].offset - 1 > confirmed THEN poll[p].offset - 1 ELSE confirmed
        /\ \/ EndOfPoll(p) /\ behind' = behind
           \/ batch # {} /\ TakeUp(p, batch) /\ behind' = behind \cup (batch \ {low})
        /\ UNCHANGED unconfirmed
    BY Zenon, <1>3 DEF Fetched, batch
  <2>4. poll[p].is = "asked" /\ \A q \in Polls : q # p => poll[q].is # "asked"
    BY <1>3 DEF TgInv, OneRequest, Fetched
  <2>5. confirmed' >= confirmed
    BY <1>0, <2>1, <2>3
  <2>6. CASE EndOfPoll(p) /\ behind' = behind
    <3>1. /\ UNCHANGED <<lastUpdateId, begun, behind, unconfirmed>>
          /\ poll'[p].is = "idle" /\ \A q \in Polls : q # p => poll'[q] = poll[q]
      BY <1>0, <2>3, <2>6 DEF EndOfPoll, Idle
    <3>2. \A u \in Updates : u > confirmed' => u > confirmed
      BY <1>0, <2>5, <1>1 DEF TgTypeOK
    <3>3. OffsetsArePast'
      BY <3>1, <3>2, <2>4 DEF TgInv, OffsetsArePast, Unrepeatable
    <3>4. OneRequest' /\ LeftIsBehind' /\ OnlyKnownRepeats'
      BY <3>1, <2>4 DEF TgInv, OneRequest, LeftIsBehind, OnlyKnownRepeats
    <3> QED BY <3>3, <3>4
  <2>7. CASE batch # {} /\ TakeUp(p, batch) /\ behind' = behind \cup (batch \ {low})
    <3>1. /\ low \in batch
          /\ lastUpdateId' \in 0..Presses /\ lastUpdateId' >= lastUpdateId /\ lastUpdateId' >= low
          /\ begun'[low] = begun[low] + 1
          /\ \A u \in Updates : u # low => begun'[u] = begun[u]
          /\ poll'[p].is = "loop" /\ poll'[p].left = batch \ {low}
          /\ \A q \in Polls : q # p => poll'[q] = poll[q]
      BY <2>1, <2>7, TakeUpEffect DEF TgInv
    <3>2. \A u \in Updates : u > confirmed' => u > confirmed
      BY <1>0, <2>5, <1>1 DEF TgTypeOK
    <3> HIDE DEF low
    <3>3. \A q \in Polls : poll'[q].is # "asked"
      BY <2>4, <3>1
    <3>4. behind \subseteq behind' /\ unconfirmed' = unconfirmed
      BY <2>3, <2>7
    <3>5. OffsetsArePast'
      <4> SUFFICES ASSUME NEW u \in Updates, Unrepeatable(u)'
                   PROVE  u <= lastUpdateId'
        BY <3>3 DEF OffsetsArePast
      <4>1. CASE u = low
        BY <3>1, <4>1
      <4>2. CASE u # low
        <5>1. Unrepeatable(u)
          BY <3>1, <3>2, <3>4, <4>2 DEF Unrepeatable
        <5> QED BY <1>0, <3>1, <5>1 DEF TgInv, OffsetsArePast
      <4> QED BY <4>1, <4>2
    <3>6. OneRequest'
      BY <3>3 DEF OneRequest
    <3>7. LeftIsBehind'
      BY <2>7, <3>1, <3>4 DEF TgInv, LeftIsBehind
    <3>8. OnlyKnownRepeats'
      <4> SUFFICES ASSUME NEW u \in Updates, begun'[u] > 1
                   PROVE  u \in behind' \cup unconfirmed'
        BY DEF OnlyKnownRepeats
      <4>1. CASE u = low
        <5>1. begun[u] > 0 /\ u > confirmed /\ ~ (u < poll[p].offset)
          BY <1>0, <2>1, <2>2, <3>1, <4>1
        <5>2. ~Unrepeatable(u)
          BY <2>4, <5>1 DEF TgInv, OffsetsArePast
        <5> QED BY <3>4, <5>1, <5>2 DEF Unrepeatable
      <4>2. CASE u # low
        BY <3>1, <3>4, <4>2 DEF TgInv, OnlyKnownRepeats
      <4> QED BY <4>1, <4>2
    <3> QED BY <3>5, <3>6, <3>7, <3>8
  <2> QED BY <2>3, <2>6, <2>7
<1>4. ASSUME NEW p \in Polls, TakeNext(p) PROVE Rest
  <2> DEFINE batch == poll[p].left
             low == LowestOf(batch)
  <2>1. /\ batch \in SUBSET Updates /\ batch \subseteq behind /\ poll[p].is = "loop"
    BY <1>0, <1>4, PollIs DEF TakeNext, LoopType, TgInv, LeftIsBehind
  <2> HIDE DEF batch
  <2>2. /\ EndOfPoll(p) \/ (batch # {} /\ TakeUp(p, batch))
        /\ UNCHANGED <<confirmed, behind, unconfirmed>>
    BY Zenon, <1>4 DEF TakeNext, batch
  <2>3. CASE EndOfPoll(p)
    <3>1. /\ UNCHANGED <<lastUpdateId, begun, behind, unconfirmed, confirmed>>
          /\ poll'[p].is = "idle" /\ \A q \in Polls : q # p => poll'[q] = poll[q]
      BY <1>0, <2>2, <2>3 DEF EndOfPoll, Idle
    <3>2. OffsetsArePast'
      BY <3>1 DEF TgInv, OffsetsArePast, Unrepeatable
    <3>3. OneRequest' /\ LeftIsBehind' /\ OnlyKnownRepeats'
      BY <3>1 DEF TgInv, OneRequest, LeftIsBehind, OnlyKnownRepeats
    <3> QED BY <3>2, <3>3
  <2>4. CASE batch # {} /\ TakeUp(p, batch)
    <3>1. /\ low \in batch
          /\ lastUpdateId' \in 0..Presses /\ lastUpdateId' >= lastUpdateId
          /\ \A u \in Updates : u # low => begun'[u] = begun[u]
          /\ poll'[p].is = "loop" /\ poll'[p].left = batch \ {low}
          /\ \A q \in Polls : q # p => poll'[q] = poll[q]
      BY <2>1, <2>4, TakeUpEffect DEF TgInv
    <3> HIDE DEF low
    <3>2. low \in behind
      BY <2>1, <3>1
    <3>3. OffsetsArePast'
      <4> SUFFICES ASSUME NEW u \in Updates, Unrepeatable(u)'
                   PROVE  u <= lastUpdateId' /\ \A q \in Polls : poll'[q].is = "asked" => u < poll'[q].offset
        BY DEF OffsetsArePast
      <4>1. Unrepeatable(u)
        BY <2>2, <3>1, <3>2 DEF Unrepeatable
      <4>2. u <= lastUpdateId /\ \A q \in Polls : poll[q].is = "asked" => u < poll[q].offset
        BY <4>1 DEF TgInv, OffsetsArePast
      <4>3. u <= lastUpdateId'
        BY <1>0, <3>1, <4>2
      <4> QED BY <3>1, <4>2, <4>3
    <3>4. OneRequest'
      BY <3>1 DEF TgInv, OneRequest
    <3>5. LeftIsBehind'
      BY <2>1, <2>2, <3>1 DEF TgInv, LeftIsBehind
    <3>6. OnlyKnownRepeats'
      BY <2>2, <3>1, <3>2 DEF TgInv, OnlyKnownRepeats
    <3> QED BY <3>3, <3>4, <3>5, <3>6
  <2> QED BY <2>2, <2>3, <2>4
<1>5. ASSUME NEW p \in Polls, Reply(p) \/ ActionOver(p) PROVE Rest
  <2>1. poll[p] \in LoopType
    BY <1>0, <1>5, PollIs DEF Reply, ActionOver
  <2>2. \/ poll' = [poll EXCEPT ![p].stage = "action"]
        \/ poll' = [poll EXCEPT ![p] = Handled(@)]
    BY Zenon, <1>5 DEF Reply, ActionOver
  <2>3. poll[p].is = "loop"
    BY <2>1 DEF LoopType
  <2>4. /\ \/ poll'[p] = [poll[p] EXCEPT !.stage = "action"]
           \/ poll'[p] = Handled(poll[p])
        /\ \A q \in Polls : q # p => poll'[q] = poll[q]
    BY <1>0, <2>2
  <2>5. poll'[p].is = "loop" /\ poll'[p].left = poll[p].left
    BY Zenon, <2>1, <2>4, LoopGoesOn
  <2>6. UNCHANGED <<confirmed, lastUpdateId, begun, behind, unconfirmed>>
    BY <1>5 DEF Reply, ActionOver
  <2>7. OffsetsArePast'
    BY <2>3, <2>4, <2>5, <2>6 DEF TgInv, OffsetsArePast, Unrepeatable
  <2>8. OneRequest' /\ OnlyKnownRepeats'
    BY <2>3, <2>4, <2>5, <2>6 DEF TgInv, OneRequest, OnlyKnownRepeats
  <2>9. LeftIsBehind'
    BY <2>3, <2>4, <2>5, <2>6 DEF TgInv, LeftIsBehind
  <2> QED BY <2>7, <2>8, <2>9
<1>6. ASSUME TgRestart PROVE Rest
  <2>1. /\ \A p \in Polls : poll'[p].is = "idle"
        /\ unconfirmed' = unconfirmed \cup {u \in Updates : u > confirmed /\ begun[u] > 0}
        /\ UNCHANGED <<confirmed, begun, behind>>
    BY <1>6 DEF TgRestart, Idle
  <2>2. \A u \in Updates : ~Unrepeatable(u)'
    BY <2>1 DEF Unrepeatable
  <2>3. OffsetsArePast'
    BY <2>2 DEF OffsetsArePast
  <2>4. OneRequest' /\ LeftIsBehind'
    BY <2>1 DEF OneRequest, LeftIsBehind
  <2>5. OnlyKnownRepeats'
    BY <2>1 DEF TgInv, OnlyKnownRepeats
  <2> QED BY <2>3, <2>4, <2>5
<1>7. ASSUME Press \/ UNCHANGED tgVars PROVE Rest
  <2>1. UNCHANGED <<poll, confirmed, lastUpdateId, begun, behind, unconfirmed>>
    BY <1>7 DEF Press, tgVars
  <2>2. OffsetsArePast'
    BY <2>1 DEF TgInv, OffsetsArePast, Unrepeatable
  <2>3. OneRequest' /\ LeftIsBehind' /\ OnlyKnownRepeats'
    BY <2>1 DEF TgInv, OneRequest, LeftIsBehind, OnlyKnownRepeats
  <2> QED BY <2>2, <2>3
<1> QED BY <1>1, <1>2, <1>3, <1>4, <1>5, <1>6, <1>7 DEF TgNext, TgInv

LEMMA TgStart ==
  ASSUME TgInit
  PROVE  TgInv
<1>1. TgTypeOK
  BY DEF TgInit, TgTypeOK, Kinds
<1>2. /\ \A u \in Updates : begun[u] = 0
      /\ \A p \in Polls : poll[p].is = "idle"
  BY DEF TgInit, Idle
<1> QED BY <1>1, <1>2 DEF TgInv, OffsetsArePast, Unrepeatable, OneRequest, LeftIsBehind,
   OnlyKnownRepeats

(* The commands of Claude. *)

LEMMA AppendIs ==
  ASSUME NEW S, NEW s \in Seq(S), NEW x \in S
  PROVE  /\ Append(s, x) \in Seq(S) /\ Len(Append(s, x)) = Len(s) + 1
         /\ \A i \in 1..Len(s) : Append(s, x)[i] = s[i]
         /\ Append(s, x)[Len(s) + 1] = x
  OBVIOUS

LEMMA FrontIs ==
  ASSUME NEW S, NEW s \in Seq(S), s # <<>>
  PROVE  /\ Front(s) \in Seq(S) /\ Len(Front(s)) = Len(s) - 1 /\ Len(s) > 0
         /\ \A i \in 1..Len(s) - 1 : Front(s)[i] = s[i]
<1>1. Len(s) > 0 /\ Len(s) - 1 \in 0..Len(s)
  OBVIOUS
<1>2. ASSUME NEW n \in 0..Len(s)
      PROVE  /\ SubSeq(s, 1, n) \in Seq(S) /\ Len(SubSeq(s, 1, n)) = n
             /\ \A i \in 1..n : SubSeq(s, 1, n)[i] = s[i]
  OBVIOUS
<1> QED BY <1>1, <1>2 DEF Front

LEMMA TailIs ==
  ASSUME NEW S, NEW s \in Seq(S), s # <<>>
  PROVE  /\ Tail(s) \in Seq(S) /\ Len(Tail(s)) = Len(s) - 1 /\ Len(s) > 0
         /\ Head(s) = s[1] /\ Head(s) \in S
         /\ \A i \in 1..Len(s) - 1 : Tail(s)[i] = s[i + 1]
  OBVIOUS

LEMMA SubSeqIs ==
  ASSUME NEW S, NEW s \in Seq(S), NEW n \in 0..Len(s)
  PROVE  /\ SubSeq(s, n + 1, Len(s)) \in Seq(S)
         /\ Len(SubSeq(s, n + 1, Len(s))) = Len(s) - n
         /\ \A i \in 1..Len(s) - n : SubSeq(s, n + 1, Len(s))[i] = s[n + i]
  OBVIOUS

LEMMA NamesAreDistinct ==
  /\ None # Half /\ None \notin Commands /\ Half \notin Commands
  /\ \A c \in Commands : c \in Line
  /\ \A x \in Line : x \notin Commands => x = Half
  BY CommandAssumption DEF None, Half, Line

LEMMA CwTypesStep ==
  ASSUME CwTypeOK, [CwNext]_cwVars
  PROVE  CwTypeOK'
<1>0. /\ lines \in Seq(Line) /\ lastProcessed \in 0..Len(lines)
      /\ callback \in [Callbacks -> WorkType]
      /\ listening \subseteq Commands /\ running \subseteq Commands
      /\ modal \in Commands \cup {None}
      /\ approved \subseteq {IdOf[c] : c \in Commands}
      /\ runs \in [Commands -> Nat]
      /\ answers \in [Commands -> SUBSET {"rejected", "declined", "ran"}]
      /\ cwFaults \in 0..MaxCwFaults
  BY DEF CwTypeOK
<1>a. \A w \in Callbacks : callback[w].left \in Seq(Line) /\ callback[w].at \in Commands \cup {None}
  BY <1>0 DEF WorkType
<1>b. ASSUME NEW w \in Callbacks, NEW left \in Seq(Line), NEW at \in Commands \cup {None},
             callback' = [callback EXCEPT ![w].left = left]
             \/ callback' = [callback EXCEPT ![w].at = at]
             \/ callback' = [callback EXCEPT ![w] = [left |-> left, at |-> at]]
      PROVE  callback' \in [Callbacks -> WorkType]
  <2>1. CASE callback' = [callback EXCEPT ![w].left = left]
    BY <1>0, <2>1 DEF WorkType
  <2>2. CASE callback' = [callback EXCEPT ![w].at = at]
    BY <1>0, <2>2 DEF WorkType
  <2>3. CASE callback' = [callback EXCEPT ![w] = [left |-> left, at |-> at]]
    BY <1>0, <2>3 DEF WorkType
  <2> QED BY <1>b, <2>1, <2>2, <2>3
<1>c. ASSUME NEW c \in Commands, NEW a \in {"rejected", "declined", "ran"}, answers' = Answered(c, a)
      PROVE  answers' \in [Commands -> SUBSET {"rejected", "declined", "ran"}]
  BY <1>0, <1>c DEF Answered
<1>d. CwFault => cwFaults' \in 0..MaxCwFaults
  BY <1>0, CommandAssumption DEF CwFault
<1>1. ASSUME NEW c \in Commands, WriteCommand(c) PROVE CwTypeOK'
  <2>1. /\ lines' = Append(lines, c) \/ lines' = Append(lines, Half)
        /\ UNCHANGED <<lastProcessed, callback, listening, modal, running, approved, runs, answers>>
        /\ cwFaults' = cwFaults \/ CwFault
    BY <1>1 DEF WriteCommand
  <2>2. lines' \in Seq(Line) /\ Len(lines') = Len(lines) + 1
    <3>1. c \in Line /\ Half \in Line
      BY DEF Line
    <3>2. \A x \in Line : Append(lines, x) \in Seq(Line) /\ Len(Append(lines, x)) = Len(lines) + 1
      BY <1>0, AppendIs
    <3> QED BY <2>1, <3>1, <3>2
  <2>3. lastProcessed' \in 0..Len(lines')
    BY <1>0, <2>1, <2>2
  <2> QED BY <1>0, <1>d, <2>1, <2>2, <2>3 DEF CwTypeOK
<1>2. ASSUME NEW c \in Commands, WriteRest(c) PROVE CwTypeOK'
  <2>1. /\ lines' = Append(Front(lines), c) /\ lines # <<>>
        /\ UNCHANGED <<lastProcessed, callback, listening, modal, running, approved, runs, answers,
                       cwFaults>>
    BY <1>2 DEF WriteRest, HalfWritten
  <2>2. Front(lines) \in Seq(Line) /\ Len(Front(lines)) = Len(lines) - 1
    BY <1>0, <2>1, FrontIs
  <2>3. lines' \in Seq(Line) /\ Len(lines') = Len(lines)
    BY <1>0, <2>1, <2>2, AppendIs DEF Line
  <2>4. lastProcessed' \in 0..Len(lines')
    BY <1>0, <2>1, <2>3
  <2> QED BY <1>0, <2>1, <2>3, <2>4 DEF CwTypeOK
<1>3. ASSUME NEW w \in Callbacks, Notice(w) PROVE CwTypeOK'
  <2>1. SubSeq(lines, lastProcessed + 1, Len(lines)) \in Seq(Line)
    BY <1>0, SubSeqIs
  <2>2. callback' = [callback EXCEPT ![w].left = SubSeq(lines, lastProcessed + 1, Len(lines))]
    BY <1>3 DEF Notice
  <2>3. callback' \in [Callbacks -> WorkType]
    BY <1>b, <2>1, <2>2
  <2>4. lastProcessed' \in 0..Len(lines')
    BY <1>0, <1>3 DEF Notice, Counted
  <2> QED BY <1>3, <2>3, <2>4 DEF Notice, CwTypeOK
<1>4. ASSUME NEW w \in Callbacks, HandleLine(w) PROVE CwTypeOK'
  <2> DEFINE line == Head(callback[w].left)
             rest == Tail(callback[w].left)
  <2>1. line \in Line /\ rest \in Seq(Line)
    BY <1>a, <1>4, TailIs DEF HandleLine
  <2>2. /\ \/ callback' = [callback EXCEPT ![w].left = rest]
           \/ line \in Commands /\ callback' = [callback EXCEPT ![w] = [left |-> rest, at |-> line]]
        /\ \/ answers' = answers
           \/ line \in Commands /\ answers' = Answered(line, "rejected")
        /\ \/ listening' = listening /\ modal' = modal
           \/ line \in Commands /\ listening' = listening \cup {line} /\ modal' = line
        /\ cwFaults' = cwFaults \/ CwFault
        /\ UNCHANGED <<lines, lastProcessed, running, approved, runs>>
    BY <1>4, CommandAssumption DEF HandleLine, Shown
  <2> HIDE DEF line, rest
  <2>3. callback' \in [Callbacks -> WorkType]
    BY <1>b, <2>1, <2>2
  <2>4. answers' \in [Commands -> SUBSET {"rejected", "declined", "ran"}]
    BY <1>0, <1>c, <2>2
  <2>5. listening' \subseteq Commands /\ modal' \in Commands \cup {None}
    BY <1>0, <2>2
  <2> QED BY <1>0, <1>d, <2>2, <2>3, <2>4, <2>5 DEF CwTypeOK
<1>5. ASSUME NEW w \in Callbacks, TimesOut(w) \/ ActionEnds(w) PROVE CwTypeOK'
  <2>1. /\ callback[w].at \in Commands
        /\ callback' = [callback EXCEPT ![w].at = None]
        /\ answers' = Answered(callback[w].at, "declined") \/ answers' = Answered(callback[w].at, "ran")
        /\ listening' \subseteq listening /\ running' \subseteq running
        /\ UNCHANGED <<lines, lastProcessed, modal, approved, runs, cwFaults>>
    BY <1>0, <1>5 DEF TimesOut, ActionEnds, StopListening
  <2>2. callback' \in [Callbacks -> WorkType]
    BY <1>b, <1>0, <2>1
  <2>3. answers' \in [Commands -> SUBSET {"rejected", "declined", "ran"}]
    BY <1>c, <2>1
  <2> QED BY <1>0, <2>1, <2>2, <2>3 DEF CwTypeOK
<1>6. ASSUME Decide PROVE CwTypeOK'
  <2> DEFINE heard == {c \in listening : IdOf[c] = IdOf[modal]}
  <2>1. modal' = None /\ listening' = listening \ heard /\ UNCHANGED <<lines, lastProcessed,
                                                                       cwFaults>>
    BY <1>6 DEF Decide
  <2>2. heard \subseteq Commands /\ modal \in Commands
    BY <1>0, <1>6 DEF Decide
  <2>3. \/ /\ approved' = approved \cup {IdOf[modal]}
           /\ running' = running \cup heard
           /\ runs' = [c \in Commands |-> runs[c] + (IF c \in heard THEN 1 ELSE 0)]
           /\ UNCHANGED <<callback, answers>>
        \/ /\ answers' = [c \in Commands |-> answers[c] \cup (IF c \in heard THEN {"declined"} ELSE {})]
           /\ callback' = [w \in Callbacks |->
                IF callback[w].at \in heard THEN [callback[w] EXCEPT !.at = None] ELSE callback[w]]
           /\ UNCHANGED <<approved, running, runs>>
    BY <1>6 DEF Decide
  <2> HIDE DEF heard
  <2>4. approved' \subseteq {IdOf[c] : c \in Commands} /\ running' \subseteq Commands
    BY <1>0, <2>2, <2>3
  <2>5. runs' \in [Commands -> Nat]
    BY <1>0, <2>3
  <2>6. answers' \in [Commands -> SUBSET {"rejected", "declined", "ran"}]
    BY <1>0, <2>3
  <2>7. \A w \in Callbacks : [callback[w] EXCEPT !.at = None] \in WorkType
    BY <1>0 DEF WorkType
  <2>8. callback' \in [Callbacks -> WorkType]
    BY <1>0, <2>3, <2>7
  <2> QED BY <1>0, <2>1, <2>4, <2>5, <2>6, <2>8 DEF CwTypeOK
<1>7. ASSUME CwRestart PROVE CwTypeOK'
  <2>1. NoWork \in WorkType
    <3>1. <<>> \in Seq(Line)
      OBVIOUS
    <3> QED BY <3>1 DEF NoWork, WorkType
  <2>2. callback' \in [Callbacks -> WorkType]
    BY <1>7, <2>1 DEF CwRestart
  <2>3. lastProcessed' \in 0..Len(lines')
    BY <1>0, <1>7 DEF CwRestart
  <2> QED BY <1>0, <1>d, <1>7, <2>2, <2>3 DEF CwRestart, CwTypeOK
<1>8. CASE UNCHANGED cwVars
  BY <1>8 DEF cwVars, CwTypeOK
<1> QED BY <1>1, <1>2, <1>3, <1>4, <1>5, <1>6, <1>7, <1>8 DEF CwNext

Fine(c) == QueuedOnce(c) /\ AwaitedOnce(c) /\ AnswerIsTrue(c)

OnceIn(queue, c) == \A i, j \in 1..Len(queue) : queue[i] = c /\ queue[j] = c => i = j

\* A step that puts a command into no queue, and one that does nothing else about it either.
NotQueuedMore(c) ==
  /\ TakenUp(c) => TakenUp(c)'
  /\ \A w \in Callbacks : InQueue(w, c)' => InQueue(w, c)
  /\ \A w \in Callbacks : OnceIn(callback'[w].left, c)

SameFor(c) ==
  /\ runs'[c] = runs[c] /\ answers'[c] = answers[c]
  /\ c \in listening' <=> c \in listening
  /\ c \in running' <=> c \in running
  /\ \A w \in Callbacks : callback'[w].at = c <=> callback[w].at = c
  /\ IdOf[c] \in approved => IdOf[c] \in approved'

LEMMA Elsewhere ==
  ASSUME NEW c \in Commands, Fine(c), NotQueuedMore(c), SameFor(c)
  PROVE  Fine(c)'
<1>1. QueuedOnce(c)'
  <2>1. Untouched(c) => Untouched(c)'
    BY DEF SameFor, Untouched
  <2> QED BY <2>1 DEF Fine, NotQueuedMore, QueuedOnce, OnceIn
<1>2. AwaitedOnce(c)'
  BY DEF Fine, SameFor, AwaitedOnce
<1>3. AnswerIsTrue(c)'
  BY DEF Fine, SameFor, AnswerIsTrue
<1> QED BY <1>1, <1>2, <1>3 DEF Fine

\* What a callback waits for is in no queue any more.
LEMMA AwaitedIsTakenUp ==
  ASSUME NEW c \in Commands, Fine(c), NotQueuedMore(c), ~Untouched(c)
  PROVE  QueuedOnce(c)'
<1>1. TakenUp(c) /\ \A w \in Callbacks : ~InQueue(w, c)
  BY DEF Fine, QueuedOnce
<1>2. TakenUp(c)' /\ \A w \in Callbacks : ~InQueue(w, c)'
  BY <1>1 DEF NotQueuedMore
<1> QED BY <1>2 DEF QueuedOnce

LEMMA QueuesStand ==
  ASSUME NEW c \in Commands, Fine(c), UNCHANGED <<lines, lastProcessed>>,
         \A w \in Callbacks : callback'[w].left = callback[w].left
  PROVE  NotQueuedMore(c)
<1>1. \A w \in Callbacks : OnceIn(callback[w].left, c)
  BY DEF Fine, QueuedOnce, InQueue, OnceIn
<1> QED BY <1>1 DEF NotQueuedMore, TakenUp, InQueue

\* A write adds a command that is not in the file yet, whole or by halves.
LEMMA WriteStep ==
  ASSUME CwInv, NEW c0 \in Commands, WriteCommand(c0) \/ WriteRest(c0)
  PROVE  /\ LinesAreDistinct'
         /\ \A c \in Commands : TakenUp(c) => TakenUp(c)'
<1>0. lines \in Seq(Line) /\ lastProcessed \in 0..Len(lines) /\ LinesAreDistinct
  BY DEF CwInv, CwTypeOK
<1>1. \A i \in 1..Len(lines) : lines[i] # c0
  <2>1. c0 \notin {lines[i] : i \in DOMAIN lines}
    BY DEF WriteCommand, WriteRest, Written, Range
  <2> QED BY <1>0, <2>1
<1>2. ASSUME WriteCommand(c0)
      PROVE  LinesAreDistinct' /\ \A c \in Commands : TakenUp(c) => TakenUp(c)'
  <2>1. PICK x \in {c0, Half} : lines' = Append(lines, x)
    BY <1>2 DEF WriteCommand
  <2>2. /\ Len(lines') = Len(lines) + 1
        /\ \A i \in 1..Len(lines) : lines'[i] = lines[i]
        /\ lines'[Len(lines) + 1] = x
    <3>1. x \in Line
      BY DEF Line
    <3> QED BY <1>0, <2>1, <3>1, AppendIs
  <2>3. \A i \in 1..Len(lines) : lines[i] # Half
    <3>1. lines = <<>> \/ lines[Len(lines)] # Half
      BY <1>2 DEF WriteCommand, HalfWritten, Last
    <3> QED BY <1>0, <3>1 DEF LinesAreDistinct
  <2>4. LinesAreDistinct'
    <3>1. \A i \in 1..Len(lines') - 1 : lines'[i] # Half
      BY <1>0, <2>2, <2>3
    <3>2. \A i, j \in 1..Len(lines') : lines'[i] = lines'[j] => i = j
      <4>1. \A i \in 1..Len(lines') : i \in 1..Len(lines) \/ i = Len(lines) + 1
        BY <1>0, <2>2
      <4>2. \A i \in 1..Len(lines) : lines'[i] # x
        BY <1>1, <2>2, <2>3
      <4> QED BY <1>0, <2>2, <4>1, <4>2 DEF LinesAreDistinct
    <3> QED BY <3>1, <3>2 DEF LinesAreDistinct
  <2>5. \A i \in 1..lastProcessed : lines'[i] = lines[i]
    BY <1>0, <2>2
  <2>6. lastProcessed' = lastProcessed
    BY <1>2 DEF WriteCommand
  <2> QED BY <2>4, <2>5, <2>6 DEF TakenUp
<1>3. ASSUME WriteRest(c0)
      PROVE  LinesAreDistinct' /\ \A c \in Commands : TakenUp(c) => TakenUp(c)'
  <2>1. lines # <<>> /\ lines[Len(lines)] = Half /\ lines' = Append(Front(lines), c0)
    BY <1>3 DEF WriteRest, HalfWritten, Last
  <2>2. /\ Front(lines) \in Seq(Line) /\ Len(Front(lines)) = Len(lines) - 1 /\ Len(lines) > 0
        /\ \A i \in 1..Len(lines) - 1 : Front(lines)[i] = lines[i]
    BY <1>0, <2>1, FrontIs
  <2>3. c0 \in Line
    BY DEF Line
  <2>4. /\ Len(lines') = Len(lines)
        /\ \A i \in 1..Len(lines) - 1 : lines'[i] = lines[i]
        /\ lines'[Len(lines)] = c0
    <3>1. /\ Len(Append(Front(lines), c0)) = Len(Front(lines)) + 1
          /\ \A i \in 1..Len(Front(lines)) : Append(Front(lines), c0)[i] = Front(lines)[i]
          /\ Append(Front(lines), c0)[Len(Front(lines)) + 1] = c0
      BY <2>2, <2>3, AppendIs
    <3> QED BY <1>0, <2>1, <2>2, <3>1
  <2>5. LinesAreDistinct'
    <3>1. \A i \in 1..Len(lines') - 1 : lines'[i] # Half
      BY <1>0, <2>4 DEF LinesAreDistinct
    <3>2. \A i, j \in 1..Len(lines') : lines'[i] = lines'[j] => i = j
      BY <1>0, <1>1, <2>4 DEF LinesAreDistinct
    <3> QED BY <3>1, <3>2 DEF LinesAreDistinct
  <2>6. \A c \in Commands, i \in 1..lastProcessed : lines[i] = c => lines'[i] = c
    BY <1>0, <2>1, <2>4, NamesAreDistinct
  <2>7. lastProcessed' = lastProcessed
    BY <1>3 DEF WriteRest
  <2> QED BY <2>5, <2>6, <2>7 DEF TakenUp
<1> QED BY <1>2, <1>3

LEMMA NoticeStep ==
  ASSUME CwInv, NEW w \in Callbacks, Notice(w), NEW c \in Commands
  PROVE  Fine(c)'
<1>0. /\ lines \in Seq(Line) /\ lastProcessed \in 0..Len(lines) /\ LinesAreDistinct /\ Fine(c)
      /\ callback \in [Callbacks -> WorkType]
  BY DEF CwInv, CwTypeOK, Fine
<1> DEFINE new == SubSeq(lines, lastProcessed + 1, Len(lines))
<1>1. /\ Len(new) = Len(lines) - lastProcessed
      /\ \A i \in 1..Len(new) : new[i] = lines[lastProcessed + i] /\ lastProcessed + i \in 1..Len(lines)
  BY <1>0, SubSeqIs
<1>2. /\ callback[w] = NoWork /\ callback' = [callback EXCEPT ![w].left = new]
      /\ lastProcessed' = Len(lines)
      /\ UNCHANGED <<lines, listening, modal, running, approved, runs, answers>>
  BY DEF Notice, Counted
<1> HIDE DEF new
<1>3. /\ callback'[w].left = new
      /\ \A v \in Callbacks : callback'[v].at = callback[v].at
      /\ \A v \in Callbacks : v # w => callback'[v].left = callback[v].left
  BY <1>0, <1>2 DEF WorkType
<1>4. SameFor(c)
  BY <1>2, <1>3 DEF SameFor
<1>5. ~TakenUp(c)' => ~TakenUp(c) /\ ~InQueue(w, c)'
  <2>1. TakenUp(c) => TakenUp(c)'
    BY <1>0, <1>2 DEF TakenUp
  <2>2. InQueue(w, c)' => TakenUp(c)'
    BY <1>1, <1>2, <1>3 DEF InQueue, TakenUp
  <2> QED BY <2>1, <2>2
<1>6. \A v \in Callbacks : v # w => (InQueue(v, c)' <=> InQueue(v, c))
  BY <1>3 DEF InQueue
<1>7. InQueue(w, c)' => ~TakenUp(c)
  <2> SUFFICES ASSUME NEW i \in 1..Len(new), new[i] = c, NEW j \in 1..lastProcessed, lines[j] = c
               PROVE  FALSE
    BY <1>3 DEF InQueue, TakenUp
  <2>1. lines[lastProcessed + i] = lines[j] /\ lastProcessed + i \in 1..Len(lines)
    BY <1>1
  <2>2. lastProcessed + i # j /\ j \in 1..Len(lines)
    BY <1>0
  <2> QED BY <1>0, <2>1, <2>2 DEF LinesAreDistinct
<1>8. OnceIn(new, c)
  <2> SUFFICES ASSUME NEW i \in 1..Len(new), NEW j \in 1..Len(new), new[i] = c, new[j] = c
               PROVE  i = j
    BY DEF OnceIn
  <2>1. lastProcessed + i = lastProcessed + j
    <3>1. /\ lastProcessed + i \in 1..Len(lines) /\ lines[lastProcessed + i] = c
          /\ lastProcessed + j \in 1..Len(lines) /\ lines[lastProcessed + j] = c
      BY <1>1
    <3> QED BY <1>0, <3>1 DEF LinesAreDistinct
  <2> QED BY <1>0, <1>1, <2>1
<1>9. Untouched(c) => Untouched(c)'
  BY <1>4 DEF SameFor, Untouched
<1>10. QueuedOnce(c)'
  <2>1. ~TakenUp(c)' => Untouched(c)' /\ \A v \in Callbacks : ~InQueue(v, c)'
    BY <1>0, <1>5, <1>6, <1>9 DEF Fine, QueuedOnce
  <2>2. ASSUME NEW v \in Callbacks, InQueue(v, c)'
        PROVE  /\ Untouched(c)'
               /\ \A u \in Callbacks : InQueue(u, c)' => u = v
               /\ OnceIn(callback'[v].left, c)
    <3>1. CASE v = w
      BY <1>0, <1>3, <1>6, <1>7, <1>8, <1>9, <2>2, <3>1 DEF Fine, QueuedOnce
    <3>2. CASE v # w
      <4>1. InQueue(v, c) /\ ~InQueue(w, c)'
        BY <1>0, <1>6, <1>7, <2>2, <3>2 DEF Fine, QueuedOnce
      <4>2. /\ Untouched(c) /\ \A u \in Callbacks : InQueue(u, c) => u = v
            /\ OnceIn(callback[v].left, c)
        BY <1>0, <4>1 DEF Fine, QueuedOnce, OnceIn
      <4> QED BY <1>3, <1>6, <1>9, <3>2, <4>1, <4>2
    <3> QED BY <3>1, <3>2
  <2> QED BY <2>1, <2>2 DEF QueuedOnce, OnceIn
<1>11. AwaitedOnce(c)' /\ AnswerIsTrue(c)'
  <2>1. AwaitedOnce(c)'
    BY <1>0, <1>4 DEF Fine, SameFor, AwaitedOnce
  <2>2. AnswerIsTrue(c)'
    BY <1>0, <1>4 DEF Fine, SameFor, AnswerIsTrue
  <2> QED BY <2>1, <2>2
<1> QED BY <1>10, <1>11 DEF Fine

LEMMA HandleLineStep ==
  ASSUME CwInv, NEW w \in Callbacks, HandleLine(w), NEW c \in Commands
  PROVE  Fine(c)'
<1>0. /\ callback \in [Callbacks -> WorkType] /\ Fine(c)
      /\ answers \in [Commands -> SUBSET {"rejected", "declined", "ran"}]
  BY DEF CwInv, CwTypeOK, Fine
<1> DEFINE line == Head(callback[w].left)
           rest == Tail(callback[w].left)
<1>1. /\ callback[w].left \in Seq(Line) /\ callback[w].left # <<>> /\ callback[w].at = None
  BY <1>0 DEF HandleLine, WorkType
<1>2. /\ Len(callback[w].left) > 0 /\ line = callback[w].left[1] /\ line \in Line
      /\ Len(rest) = Len(callback[w].left) - 1
      /\ \A i \in 1..Len(rest) : rest[i] = callback[w].left[i + 1] /\ i + 1 \in 1..Len(callback[w].left)
  BY <1>1, TailIs
<1>3. /\ \/ /\ callback' = [callback EXCEPT ![w].left = rest]
            /\ UNCHANGED <<listening, answers>>
         \/ /\ line \in Commands
            /\ callback' = [callback EXCEPT ![w].left = rest]
            /\ answers' = Answered(line, "rejected")
            /\ UNCHANGED listening
         \/ /\ line \in Commands
            /\ callback' = [callback EXCEPT ![w] = [left |-> rest, at |-> line]]
            /\ listening' = listening \cup {line}
            /\ UNCHANGED answers
      /\ UNCHANGED <<lines, lastProcessed, running, approved, runs>>
  BY CommandAssumption DEF HandleLine, Shown
<1> HIDE DEF line, rest
<1>4. /\ callback'[w].left = rest
      /\ callback'[w].at = None \/ (line \in Commands /\ callback'[w].at = line)
      /\ \A v \in Callbacks : v # w => callback'[v] = callback[v]
  BY <1>0, <1>1, <1>3 DEF WorkType
<1>5. NotQueuedMore(c)
  <2>1. TakenUp(c) => TakenUp(c)'
    BY <1>3 DEF TakenUp
  <2>2. ASSUME NEW v \in Callbacks, InQueue(v, c)' PROVE InQueue(v, c)
    <3>1. CASE v # w
      BY <1>4, <2>2, <3>1 DEF InQueue
    <3>2. CASE v = w
      <4>1. PICK i \in 1..Len(rest) : rest[i] = c
        BY <1>4, <2>2, <3>2 DEF InQueue
      <4>2. i + 1 \in 1..Len(callback[w].left) /\ callback[w].left[i + 1] = c
        BY <1>2, <4>1
      <4> QED BY <3>2, <4>2 DEF InQueue
    <3> QED BY <3>1, <3>2
  <2>3. ASSUME NEW v \in Callbacks PROVE OnceIn(callback'[v].left, c)
    <3>1. OnceIn(callback[v].left, c)
      BY <1>0 DEF Fine, QueuedOnce, InQueue, OnceIn
    <3>2. CASE v # w
      BY <1>4, <3>1, <3>2
    <3>3. CASE v = w
      <4> SUFFICES ASSUME NEW i \in 1..Len(rest), NEW j \in 1..Len(rest), rest[i] = c, rest[j] = c
                   PROVE  i = j
        BY <1>4, <3>3 DEF OnceIn
      <4>1. i + 1 = j + 1
        BY <1>2, <3>1, <3>3 DEF OnceIn
      <4> QED BY <4>1
    <3> QED BY <3>2, <3>3
  <2> QED BY <2>1, <2>2, <2>3 DEF NotQueuedMore
<1>6. CASE c # line
  <2>1. \A v \in Callbacks : callback'[v].at = c <=> callback[v].at = c
    BY <1>1, <1>4, <1>6, NamesAreDistinct
  <2>2. answers'[c] = answers[c] /\ (c \in listening' <=> c \in listening)
    BY <1>0, <1>3, <1>6 DEF Answered
  <2>3. SameFor(c)
    BY <1>3, <2>1, <2>2 DEF SameFor
  <2> QED BY <1>0, <1>5, <2>3, Elsewhere
<1>7. CASE c = line
  <2>1. InQueue(w, c)
    BY <1>2, <1>7 DEF InQueue
  <2>2. /\ TakenUp(c) /\ Untouched(c)
        /\ \A v \in Callbacks : InQueue(v, c) => v = w
        /\ OnceIn(callback[w].left, c)
    BY <1>0, <2>1 DEF Fine, QueuedOnce, OnceIn
  <2>3. \A i \in 1..Len(rest) : rest[i] # c
    <3> SUFFICES ASSUME NEW i \in 1..Len(rest), rest[i] = c PROVE FALSE
      OBVIOUS
    <3>1. /\ 1 \in 1..Len(callback[w].left) /\ callback[w].left[1] = c
          /\ i + 1 \in 1..Len(callback[w].left) /\ callback[w].left[i + 1] = c
      BY <1>1, <1>2, <1>7
    <3>2. i + 1 = 1
      BY Zenon, <2>2, <3>1 DEF OnceIn
    <3> QED BY <3>2
  <2>4. QueuedOnce(c)'
    <3>1. TakenUp(c)' /\ \A v \in Callbacks : ~InQueue(v, c)'
      BY <1>4, <1>5, <2>2, <2>3 DEF NotQueuedMore, InQueue
    <3> QED BY <3>1 DEF QueuedOnce
  <2>5. /\ runs[c] = 0 /\ answers[c] = {} /\ c \notin listening \cup running
        /\ \A v \in Callbacks : callback[v].at # c
    BY <2>2 DEF Untouched
  <2>6. runs'[c] = 0 /\ c \notin running' /\ line \in Commands
    BY <1>3, <1>7, <2>5
  <2>9. CASE callback' = [callback EXCEPT ![w].left = rest] /\ UNCHANGED <<listening, answers>>
    <3>1. answers'[c] = {} /\ c \notin listening' /\ \A v \in Callbacks : callback'[v].at # c
      BY <1>0, <2>5, <2>9 DEF WorkType
    <3>2. AwaitedOnce(c)'
      BY <2>6, <3>1 DEF AwaitedOnce
    <3>3. AnswerIsTrue(c)'
      BY <2>6, <3>1 DEF AnswerIsTrue
    <3> QED BY <2>4, <3>2, <3>3 DEF Fine
  <2>7. CASE callback' = [callback EXCEPT ![w].left = rest]
             /\ answers' = Answered(line, "rejected") /\ UNCHANGED listening
    <3>1. answers'[c] = {"rejected"}
      BY <1>0, <1>7, <2>5, <2>7 DEF Answered
    <3>2. c \notin listening' /\ \A v \in Callbacks : callback'[v].at # c
      BY <1>0, <2>5, <2>7 DEF WorkType
    <3>3. AwaitedOnce(c)'
      BY <2>6, <3>2 DEF AwaitedOnce
    <3>4. AnswerIsTrue(c)'
      BY <2>6, <3>1 DEF AnswerIsTrue
    <3> QED BY <2>4, <3>3, <3>4 DEF Fine
  <2>8. CASE callback' = [callback EXCEPT ![w] = [left |-> rest, at |-> line]]
             /\ listening' = listening \cup {line} /\ UNCHANGED answers
    <3>1. answers'[c] = {} /\ c \in listening'
      BY <1>7, <2>5, <2>8
    <3>2. \A v \in Callbacks : callback'[v].at = c <=> v = w
      BY <1>0, <1>7, <2>5, <2>8
    <3>3. AwaitedOnce(c)'
      BY <2>6, <3>1, <3>2 DEF AwaitedOnce
    <3>4. AnswerIsTrue(c)'
      BY <2>6, <3>1 DEF AnswerIsTrue
    <3> QED BY <2>4, <3>3, <3>4 DEF Fine
  <2> QED BY <1>3, <2>6, <2>7, <2>8, <2>9
<1> QED BY <1>6, <1>7

\* The wait of a callback ends: with an answer, or - the approval - with the action running.
LEMMA WaitEnds ==
  ASSUME NEW c \in Commands, Fine(c), NotQueuedMore(c), ~Untouched(c),
         runs'[c] = runs[c],
         (answers'[c] = {"declined"} /\ runs[c] = 0) \/ (answers'[c] = {"ran"} /\ runs[c] = 1),
         c \notin listening', c \notin running',
         IdOf[c] \in approved => IdOf[c] \in approved',
         \A w \in Callbacks : callback'[w].at # c
  PROVE  Fine(c)'
<1>1. QueuedOnce(c)'
  BY AwaitedIsTakenUp
<1>2. AwaitedOnce(c)'
  BY DEF AwaitedOnce
<1>3. AnswerIsTrue(c)'
  BY DEF Fine, AnswerIsTrue
<1> QED BY <1>1, <1>2, <1>3 DEF Fine

LEMMA SettleStep ==
  ASSUME CwInv, NEW w \in Callbacks, TimesOut(w) \/ ActionEnds(w), NEW c \in Commands
  PROVE  Fine(c)'
<1>0. /\ callback \in [Callbacks -> WorkType] /\ Fine(c)
      /\ answers \in [Commands -> SUBSET {"rejected", "declined", "ran"}]
      /\ listening \subseteq Commands /\ running \subseteq Commands
  BY DEF CwInv, CwTypeOK, Fine
<1> DEFINE d == callback[w].at
<1>1. /\ d \in Commands
      /\ callback' = [callback EXCEPT ![w].at = None]
      /\ \/ /\ d \in listening /\ answers' = Answered(d, "declined")
            /\ listening' = listening \ {d} /\ running' = running
         \/ /\ d \in running /\ answers' = Answered(d, "ran")
            /\ running' = running \ {d} /\ listening' = listening
      /\ UNCHANGED <<lines, lastProcessed, approved, runs>>
  BY <1>0 DEF TimesOut, ActionEnds, StopListening
<1>2. /\ callback'[w].at = None
      /\ \A v \in Callbacks : callback'[v].left = callback[v].left
      /\ \A v \in Callbacks : v # w => callback'[v].at = callback[v].at
  BY <1>0, <1>1 DEF WorkType
<1>3. NotQueuedMore(c)
  BY <1>0, <1>1, <1>2, QueuesStand
<1>4. CASE c # d
  <2>1. answers'[c] = answers[c]
    BY <1>0, <1>1, <1>4 DEF Answered
  <2>2. \A v \in Callbacks : callback'[v].at = c <=> callback[v].at = c
    BY <1>2, <1>4, NamesAreDistinct
  <2>3. SameFor(c)
    BY <1>1, <1>4, <2>1, <2>2 DEF SameFor
  <2> QED BY <1>0, <1>3, <2>3, Elsewhere
<1>5. CASE c = d
  <2>1. /\ answers[c] = {} /\ (c \in listening <=> c \notin running)
        /\ \A v \in Callbacks : callback[v].at = c => v = w
        /\ (c \in listening => runs[c] = 0) /\ (c \in running => runs[c] = 1)
    BY <1>0, <1>5 DEF Fine, AwaitedOnce
  <2>2. \A v \in Callbacks : callback'[v].at # c
    BY <1>2, <2>1, NamesAreDistinct
  <2>3. ~Untouched(c)
    BY <1>5 DEF Untouched
  <2>4. c \notin listening' /\ c \notin running'
    BY <1>1, <1>5, <2>1
  <2>5. (answers'[c] = {"declined"} /\ runs[c] = 0) \/ (answers'[c] = {"ran"} /\ runs[c] = 1)
    <3>1. \A a : Answered(c, a)[c] = {a}
      BY <1>0, <2>1 DEF Answered
    <3> QED BY <1>1, <1>5, <2>1, <3>1
  <2> QED BY <1>0, <1>1, <1>3, <2>2, <2>3, <2>4, <2>5, WaitEnds
<1> QED BY <1>4, <1>5

LEMMA DecideStep ==
  ASSUME CwInv, Decide, NEW c \in Commands
  PROVE  Fine(c)'
<1>0. /\ callback \in [Callbacks -> WorkType] /\ Fine(c)
      /\ answers \in [Commands -> SUBSET {"rejected", "declined", "ran"}]
      /\ runs \in [Commands -> Nat]
  BY DEF CwInv, CwTypeOK, Fine
<1> DEFINE heard == {b \in listening : IdOf[b] = IdOf[modal]}
           Yes == /\ approved' = approved \cup {IdOf[modal]}
                  /\ running' = running \cup heard
                  /\ runs' = [b \in Commands |-> runs[b] + (IF b \in heard THEN 1 ELSE 0)]
                  /\ UNCHANGED <<callback, answers>>
           No == /\ answers' = [b \in Commands |-> answers[b] \cup (IF b \in heard THEN {"declined"} ELSE {})]
                 /\ callback' = [w \in Callbacks |->
                      IF callback[w].at \in heard THEN [callback[w] EXCEPT !.at = None] ELSE callback[w]]
                 /\ UNCHANGED <<approved, running, runs>>
<1>1. Yes \/ No
  BY DEF Decide
<1>2. listening' = listening \ heard /\ UNCHANGED <<lines, lastProcessed>>
  BY DEF Decide
<1>3. \A b \in heard : IdOf[b] = IdOf[modal] /\ b \in listening
  OBVIOUS
<1> HIDE DEF heard
<1>4. ASSUME No
      PROVE  \A w \in Callbacks : /\ callback'[w].left = callback[w].left
                                  /\ callback[w].at \in heard => callback'[w].at = None
                                  /\ callback[w].at \notin heard => callback'[w] = callback[w]
  BY <1>0, <1>4 DEF WorkType
<1>5. \A w \in Callbacks : callback'[w].left = callback[w].left
  BY <1>1, <1>4
<1>6. NotQueuedMore(c)
  BY <1>0, <1>2, <1>5, QueuesStand
<1>7. IdOf[c] \in approved => IdOf[c] \in approved'
  BY <1>1
<1>8. CASE c \notin heard
  <2>1. runs'[c] = runs[c] /\ answers'[c] = answers[c] /\ (c \in running' <=> c \in running)
    <3>1. Yes => runs'[c] = runs[c] + 0 /\ answers'[c] = answers[c] /\ (c \in running' <=> c \in running)
      BY <1>8
    <3>2. No => runs'[c] = runs[c] /\ answers'[c] = answers[c] \cup {} /\ (c \in running' <=> c \in running)
      BY <1>8
    <3>3. runs[c] + 0 = runs[c] /\ answers[c] \cup {} = answers[c]
      BY <1>0
    <3> QED BY <1>1, <3>1, <3>2, <3>3
  <2>2. c \in listening' <=> c \in listening
    BY <1>2, <1>8
  <2>3. \A w \in Callbacks : callback'[w].at = c <=> callback[w].at = c
    BY <1>1, <1>4, <1>8, NamesAreDistinct
  <2>4. SameFor(c)
    BY <1>7, <2>1, <2>2, <2>3 DEF SameFor
  <2> QED BY <1>0, <1>6, <2>4, Elsewhere
<1>9. CASE c \in heard
  <2>1. /\ c \in listening /\ c \notin listening' /\ runs[c] = 0
        /\ \E w \in Callbacks : callback[w].at = c
    BY <1>0, <1>2, <1>3, <1>9 DEF Fine, AwaitedOnce
  <2>2. answers[c] = {} /\ c \notin running
    BY <1>0, <2>1 DEF Fine, AwaitedOnce
  <2>3. ~Untouched(c)
    BY <2>1 DEF Untouched
  <2>4. CASE Yes
    <3>1. /\ runs'[c] = 1 /\ c \in running' /\ answers'[c] = {} /\ IdOf[c] \in approved'
          /\ \A w \in Callbacks : callback'[w].at = callback[w].at
      BY <1>0, <1>3, <1>9, <2>1, <2>2, <2>4
    <3>2. QueuedOnce(c)'
      BY <1>0, <1>6, <2>3, AwaitedIsTakenUp
    <3>3. AwaitedOnce(c)'
      BY <1>0, <2>1, <3>1 DEF Fine, AwaitedOnce
    <3>4. AnswerIsTrue(c)'
      BY <3>1 DEF AnswerIsTrue
    <3> QED BY <3>2, <3>3, <3>4 DEF Fine
  <2>5. CASE No
    <3>1. answers'[c] = {"declined"} /\ runs'[c] = runs[c] /\ c \notin running'
      BY <1>0, <1>9, <2>2, <2>5
    <3>2. \A w \in Callbacks : callback'[w].at # c
      BY <1>4, <1>9, <2>5, NamesAreDistinct
    <3> QED BY <1>0, <1>6, <1>7, <2>1, <2>3, <3>1, <3>2, WaitEnds
  <2> QED BY <1>1, <2>4, <2>5
<1> QED BY <1>8, <1>9

LEMMA CwStep ==
  ASSUME CwInv, [CwNext]_cwVars
  PROVE  CwInv'
<1>0. CwTypeOK /\ LinesAreDistinct /\ \A c \in Commands : Fine(c)
  BY DEF CwInv, Fine
<1>1. CwTypeOK'
  BY <1>0, CwTypesStep
<1> DEFINE Rest == LinesAreDistinct' /\ \A c \in Commands : Fine(c)'
<1>2. ASSUME NEW c0 \in Commands, WriteCommand(c0) \/ WriteRest(c0) PROVE Rest
  <2>1. UNCHANGED <<lastProcessed, callback, listening, running, approved, runs, answers>>
    BY <1>2 DEF WriteCommand, WriteRest
  <2>2. ASSUME NEW c \in Commands PROVE Fine(c)'
    <3>1. NotQueuedMore(c)
      <4>1. \A w \in Callbacks : OnceIn(callback[w].left, c)
        BY <1>0 DEF Fine, QueuedOnce, InQueue, OnceIn
      <4>2. TakenUp(c) => TakenUp(c)'
        BY <1>2, WriteStep
      <4> QED BY <2>1, <4>1, <4>2 DEF NotQueuedMore, InQueue
    <3>2. SameFor(c)
      BY <2>1 DEF SameFor
    <3> QED BY <1>0, <3>1, <3>2, Elsewhere
  <2> QED BY <1>2, <2>2, WriteStep
<1>3. ASSUME lines' = lines, \A c \in Commands : Fine(c)' PROVE Rest
  BY <1>0, <1>3 DEF LinesAreDistinct
<1>4. ASSUME NEW w \in Callbacks, Notice(w) \/ HandleLine(w) PROVE Rest
  BY <1>3, <1>4, NoticeStep, HandleLineStep DEF Notice, HandleLine
<1>5. ASSUME NEW w \in Callbacks, TimesOut(w) \/ ActionEnds(w) PROVE Rest
  BY <1>3, <1>5, SettleStep DEF TimesOut, ActionEnds
<1>6. ASSUME Decide PROVE Rest
  BY <1>3, <1>6, DecideStep DEF Decide
<1>7. ASSUME CwRestart PROVE Rest
  <2>1. /\ lastProcessed' = Len(lines) /\ listening' = {} /\ running' = {}
        /\ \A w \in Callbacks : callback'[w] = NoWork
        /\ UNCHANGED <<lines, approved, runs, answers>>
    BY <1>7 DEF CwRestart
  <2>2. NoWork.at = None /\ NoWork.left = <<>>
    BY DEF NoWork
  <2>3. ASSUME NEW c \in Commands PROVE Fine(c)'
    <3>1. \A w \in Callbacks : ~InQueue(w, c)' /\ callback'[w].at # c
      BY <2>1, <2>2, NamesAreDistinct DEF InQueue
    <3>2. Untouched(c) => Untouched(c)'
      BY <2>1, <3>1 DEF Untouched
    <3>3. TakenUp(c) => TakenUp(c)'
      BY <1>0, <2>1 DEF TakenUp, CwTypeOK
    <3>4. QueuedOnce(c)'
      BY <1>0, <3>1, <3>2, <3>3 DEF Fine, QueuedOnce
    <3>5. AwaitedOnce(c)'
      BY <2>1, <3>1 DEF AwaitedOnce
    <3>6. AnswerIsTrue(c)'
      BY <1>0, <2>1 DEF Fine, AnswerIsTrue
    <3> QED BY <3>4, <3>5, <3>6 DEF Fine
  <2> QED BY <1>3, <2>1, <2>3
<1>8. ASSUME UNCHANGED cwVars PROVE Rest
  <2>1. UNCHANGED <<lines, lastProcessed, callback, listening, running, approved, runs, answers>>
    BY <1>8 DEF cwVars
  <2>2. ASSUME NEW c \in Commands PROVE Fine(c)'
    <3>1. NotQueuedMore(c)
      BY <1>0, <2>1, QueuesStand
    <3>2. SameFor(c)
      BY <2>1 DEF SameFor
    <3> QED BY <1>0, <3>1, <3>2, Elsewhere
  <2> QED BY <1>3, <2>1, <2>2
<1>9. Rest
  BY <1>2, <1>4, <1>5, <1>6, <1>7, <1>8 DEF CwNext
<1> QED BY <1>1, <1>9 DEF CwInv, Fine

LEMMA CwStart ==
  ASSUME CwInit
  PROVE  CwInv
<1>1. <<>> \in Seq(Line) /\ NoWork \in WorkType
  <2>1. <<>> \in Seq(Line)
    OBVIOUS
  <2> QED BY <2>1 DEF NoWork, WorkType
<1>2. CwTypeOK
  BY <1>1, CommandAssumption DEF CwInit, CwTypeOK
<1>3. LinesAreDistinct
  BY DEF CwInit, LinesAreDistinct
<1>4. \A w \in Callbacks : callback[w].at = None /\ callback[w].left = <<>>
  BY DEF CwInit, NoWork
<1>5. ASSUME NEW c \in Commands PROVE Fine(c)
  <2>1. \A w \in Callbacks : ~InQueue(w, c)
    BY <1>4 DEF InQueue
  <2>2. Untouched(c)
    BY <1>4, NamesAreDistinct DEF CwInit, Untouched
  <2>3. QueuedOnce(c)
    BY <2>1, <2>2 DEF QueuedOnce
  <2>4. AwaitedOnce(c) /\ AnswerIsTrue(c)
    BY <2>2 DEF Untouched, AwaitedOnce, AnswerIsTrue
  <2> QED BY <2>3, <2>4 DEF Fine
<1> QED BY <1>2, <1>3, <1>5 DEF CwInv, Fine

LEMMA AnswersAre ==
  ASSUME CwInv
  PROVE  AnswersAreTrue
<1> SUFFICES ASSUME NEW c \in Commands
             PROVE  /\ runs[c] <= 1
                    /\ runs[c] = 1 => IdOf[c] \in approved
                    /\ answers[c] # {} => (answers[c] = {"ran"} <=> runs[c] = 1)
                    /\ Cardinality(answers[c]) <= 1
  BY DEF AnswersAreTrue
<1>1. AnswerIsTrue(c)
  BY DEF CwInv
<1>2. Cardinality({}) = 0 /\ \A a : Cardinality({a}) = 1
  BY FS_EmptySet, FS_Singleton
<1>3. Cardinality(answers[c]) = 0 \/ Cardinality(answers[c]) = 1
  BY <1>1, <1>2 DEF AnswerIsTrue
<1> QED BY <1>1, <1>3 DEF AnswerIsTrue

(* Both channels. *)

RemoteInv == channel \in {"telegram", "claude"} /\ TgInv /\ CwInv

\* A start of the application satisfies the invariant.
THEOREM RemoteInit == Init => RemoteInv
  BY TgStart, CwStart DEF Init, RemoteInv

\* Every step of a poll or of a callback preserves the invariant, whatever the others do.
THEOREM RemoteStep == RemoteInv /\ [Next]_vars => RemoteInv'
<1> SUFFICES ASSUME RemoteInv, [Next]_vars PROVE RemoteInv'
  OBVIOUS
<1>1. [TgNext]_tgVars /\ [CwNext]_cwVars /\ channel' = channel
  BY DEF Next, vars
<1> QED BY <1>1, TgStep, CwStep DEF RemoteInv

\* In every reachable state the offset is past what was taken up, and a command is in one
\* queue or awaited by one callback.
THEOREM RemoteInvariance == Spec => []RemoteInv
  BY RemoteInit, RemoteStep, PTL DEF Spec

\* TypeOK holds for any number of presses, polls, commands and callbacks.
THEOREM RemoteTypes == Spec => []TypeOK
<1>1. RemoteInv => TypeOK
  BY DEF RemoteInv, TgInv, CwInv, TypeOK
<1> QED BY <1>1, RemoteInvariance, PTL

\* No press is handled twice but those that waited behind another or were not confirmed when
\* the application stopped; and no command of Claude runs twice, without approval or after it
\* was answered.
THEOREM NothingBehind == Spec => []NothingBehindTheBack
<1>1. RemoteInv => NothingBehindTheBack
  BY AnswersAre DEF RemoteInv, TgInv, NothingBehindTheBack
<1> QED BY <1>1, RemoteInvariance, PTL
=============================================================================
