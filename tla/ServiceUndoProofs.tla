-------------------------- MODULE ServiceUndoProofs --------------------------
EXTENDS ServiceUndo, TLAPS

USE RowAssumption, StartTypeAssumption DEF Rows

Mutations ==
  {m \in [action : ServiceActions \cup {"process"}, target : StartTypes \cup {"none"}] :
     m.action = "startup" => m.target \in StartTypes}

LEMMA AskedAreMutations == Asked \subseteq Mutations
  BY AskedAssumption DEF Mutations, ServiceActions

(* What the steps do to the rows.  A step leaves them as they are, or begins, answers,  *)
(* fails or expires one of them.                                                        *)

NewRow(m, i) == [NoRow EXCEPT !.action = m.action, !.target = m.target, !.undoes = i,
                              !.status = "running"]

\* Row c is opened: by the user, or as the undo of row i.
Opens(c, m, i) ==
  /\ rows[c] = NoRow
  /\ rows' = [rows EXCEPT ![c] = NewRow(m, i)]
  /\ request' = [request EXCEPT ![c] = "asked"]
  /\ UNCHANGED <<service, seen, run, faults, torn>>

Opened(c) ==
  \/ \E m \in Mutations : Opens(c, m, 0)
  \/ \E i \in Rows : Undoable(rows[i]) /\ Opens(c, Reverse(rows[i]), i)

LEMMA MutateOpens ==
  ASSUME NEW m \in Asked, Mutate(m)
  PROVE  \E c \in Rows : Opened(c)
<1>1. m \in Mutations
  BY AskedAreMutations
<1>2. PICK c \in Rows : Opens(c, m, 0)
  BY DEF Mutate, Begin, Opens, NewRow
<1> QED BY <1>1, <1>2 DEF Opened

LEMMA UndoOpens ==
  ASSUME NEW i \in Rows, Undo(i)
  PROVE  \E c \in Rows : Opened(c)
<1>1. PICK c \in Rows : Opens(c, Reverse(rows[i]), i)
  BY DEF Undo, Begin, Opens, NewRow
<1>2. Undoable(rows[i])
  BY DEF Undo
<1> QED BY <1>1, <1>2 DEF Opened

\* What a successful mutation writes, row by row: its own row, and the marks on the one it
\* undid.
LEMMA WritesRows ==
  ASSUME rows \in [Rows -> RowType], seen \in [Rows -> Readings],
         NEW c \in Rows, NEW done \in 1..AllWrites, rows[c].undoes # c,
         NEW w, w = Writes(c, done)
  PROVE  /\ w \in [Rows -> RowType]
         /\ \A i \in Rows :
              /\ w[i].action = rows[i].action
              /\ w[i].target = rows[i].target
              /\ w[i].undoes = rows[i].undoes
              /\ rows[i].reverted => w[i].reverted
              /\ i # c =>
                   /\ i # rows[c].undoes => w[i] = rows[i]
                   /\ w[i].status = rows[i].status /\ w[i].before = rows[i].before
                   /\ w[i].rollback = rows[i].rollback /\ w[i].linked = rows[i].linked
                   /\ w[i].reverted => rows[i].reverted \/ (i = rows[c].undoes /\ done >= 4)
                   /\ i = rows[c].undoes /\ done >= 4 => w[i].reverted
         /\ w[c].status = "success" /\ w[c].before = seen[c]
         /\ w[c].reverted = rows[c].reverted
         /\ rows[c].action = "process" => w[c].rollback = rows[c].rollback /\ w[c].linked = rows[c].linked
         /\ rows[c].action # "process" /\ done >= 3 => w[c].rollback = "live" /\ w[c].linked
<1> USE DEF AllWrites
<1>1. ASSUME NEW i \in Rows, i # c, i = rows[c].undoes
      PROVE  /\ w[i] = [rows[i] EXCEPT !.reverted = @ \/ done >= 4,
                                       !.rollbackReverted = @ \/ done >= 5]
             /\ w[i] \in RowType
  <2>1. w[i] = [rows[i] EXCEPT !.reverted = @ \/ done >= 4,
                               !.rollbackReverted = @ \/ done >= 5]
    BY <1>1 DEF Writes
  <2>2. rows[i] \in RowType
    OBVIOUS
  <2> QED BY <2>1, <2>2 DEF RowType
<1>2. ASSUME NEW i \in Rows, i # c, i # rows[c].undoes PROVE w[i] = rows[i]
  BY <1>2 DEF Writes
<1>3. /\ w[c] = [rows[c] EXCEPT
                   !.status   = "success",
                   !.before   = seen[c],
                   !.rollback = IF rows[c].action # "process" /\ done >= 2 THEN "live" ELSE @,
                   !.linked   = @ \/ (rows[c].action # "process" /\ done >= 3)]
      /\ w[c] \in RowType
  <2>1. w[c] = [rows[c] EXCEPT
                  !.status   = "success",
                  !.before   = seen[c],
                  !.rollback = IF rows[c].action # "process" /\ done >= 2 THEN "live" ELSE @,
                  !.linked   = @ \/ (rows[c].action # "process" /\ done >= 3)]
    <3>1. w[c] = [rows[c] EXCEPT
                    !.status   = IF done >= 1 THEN "success" ELSE @,
                    !.before   = IF done >= 1 THEN seen[c] ELSE @,
                    !.rollback = IF rows[c].action # "process" /\ done >= 2 THEN "live" ELSE @,
                    !.linked   = @ \/ (rows[c].action # "process" /\ done >= 3)]
      BY Zenon DEF Writes
    <3>2. done >= 1
      OBVIOUS
    <3> QED BY Zenon, <3>1, <3>2
  <2>2. rows[c] \in RowType /\ seen[c] \in Readings
    OBVIOUS
  <2> QED BY <2>1, <2>2 DEF RowType
<1>5. \A i \in Rows : w[i] \in RowType
  BY <1>1, <1>2, <1>3
<1>6. w \in [Rows -> RowType]
  BY <1>5 DEF Writes
<1>7. ASSUME NEW i \in Rows, i # c
      PROVE  /\ i # rows[c].undoes => w[i] = rows[i]
             /\ w[i].action = rows[i].action /\ w[i].target = rows[i].target
             /\ w[i].undoes = rows[i].undoes
             /\ rows[i].reverted => w[i].reverted
             /\ w[i].status = rows[i].status /\ w[i].before = rows[i].before
             /\ w[i].rollback = rows[i].rollback /\ w[i].linked = rows[i].linked
             /\ w[i].reverted => rows[i].reverted \/ (i = rows[c].undoes /\ done >= 4)
             /\ i = rows[c].undoes /\ done >= 4 => w[i].reverted
  <2>1. rows[i] \in RowType
    OBVIOUS
  <2>2. CASE i = rows[c].undoes
    <3>1. w[i] = [rows[i] EXCEPT !.reverted = @ \/ done >= 4,
                                 !.rollbackReverted = @ \/ done >= 5]
      BY <1>1, <1>7, <2>2
    <3>2. /\ w[i].action = rows[i].action /\ w[i].target = rows[i].target
          /\ w[i].undoes = rows[i].undoes
          /\ w[i].status = rows[i].status /\ w[i].before = rows[i].before
          /\ w[i].rollback = rows[i].rollback /\ w[i].linked = rows[i].linked
      BY <2>1, <3>1 DEF RowType
    <3>3. w[i].reverted = (rows[i].reverted \/ done >= 4)
      BY Zenon, <2>1, <3>1 DEF RowType
    <3> QED BY Zenon, <2>2, <3>2, <3>3
  <2>3. CASE i # rows[c].undoes
    BY <1>2, <1>7, <2>3
  <2> QED BY <2>2, <2>3
<1>8. /\ w[c].action = rows[c].action /\ w[c].target = rows[c].target
      /\ w[c].undoes = rows[c].undoes /\ w[c].reverted = rows[c].reverted
      /\ w[c].status = "success" /\ w[c].before = seen[c]
      /\ rows[c].action = "process" => w[c].rollback = rows[c].rollback /\ w[c].linked = rows[c].linked
      /\ rows[c].action # "process" /\ done >= 3 => w[c].rollback = "live" /\ w[c].linked
  <2>1. rows[c] \in RowType
    OBVIOUS
  <2>2. /\ w[c].action = rows[c].action /\ w[c].target = rows[c].target
        /\ w[c].undoes = rows[c].undoes
        /\ w[c].status = "success" /\ w[c].before = seen[c]
        /\ rows[c].action = "process" => w[c].rollback = rows[c].rollback
        /\ rows[c].action # "process" /\ done >= 3 => w[c].rollback = "live"
    BY <1>3, <2>1 DEF RowType
  <2>3. /\ w[c].reverted = rows[c].reverted
        /\ w[c].linked = (rows[c].linked \/ (rows[c].action # "process" /\ done >= 3))
    BY Zenon, <1>3, <2>1 DEF RowType
  <2>4. rows[c].action = "process" => w[c].linked = rows[c].linked
    <3>1. rows[c].linked \in BOOLEAN
      BY <2>1 DEF RowType
    <3> QED BY Zenon, <2>3, <3>1
  <2> QED BY Zenon, <2>2, <2>3, <2>4
<1> QED BY <1>6, <1>7, <1>8

\* Before the first write of a success, the rows are as they were.
LEMMA NoWriteYet ==
  ASSUME rows \in [Rows -> RowType], NEW c \in Rows, rows[c].undoes # c, NEW done, done = 0,
         NEW w, w = Writes(c, done)
  PROVE  w = rows
<1>0. ~(done >= 1) /\ ~(done >= 2) /\ ~(done >= 3) /\ ~(done >= 4) /\ ~(done >= 5)
  OBVIOUS
<1>1. ASSUME NEW i \in Rows, i # c, i = rows[c].undoes PROVE w[i] = rows[i]
  <2>1. w[i] = [rows[i] EXCEPT !.reverted = @ \/ done >= 4, !.rollbackReverted = @ \/ done >= 5]
    BY <1>1 DEF Writes
  <2>2. rows[i] \in RowType
    OBVIOUS
  <2>3. [rows[i] EXCEPT !.reverted = rows[i].reverted, !.rollbackReverted = rows[i].rollbackReverted]
          = rows[i]
    BY <2>2 DEF RowType
  <2>4. /\ (rows[i].reverted \/ done >= 4) = rows[i].reverted
        /\ (rows[i].rollbackReverted \/ done >= 5) = rows[i].rollbackReverted
    BY <1>0, <2>2 DEF RowType
  <2> QED BY Zenon, <2>1, <2>3, <2>4
<1>2. ASSUME NEW i \in Rows, i # c, i # rows[c].undoes PROVE w[i] = rows[i]
  BY <1>2 DEF Writes
<1>3. w[c] = rows[c]
  <2>1. w[c] = [rows[c] EXCEPT
                    !.status   = IF done >= 1 THEN "success" ELSE @,
                    !.before   = IF done >= 1 THEN seen[c] ELSE @,
                    !.rollback = IF rows[c].action # "process" /\ done >= 2 THEN "live" ELSE @,
                    !.linked   = @ \/ (rows[c].action # "process" /\ done >= 3)]
    BY Zenon DEF Writes
  <2>2. rows[c] \in RowType
    OBVIOUS
  <2>3. (rows[c].linked \/ (rows[c].action # "process" /\ done >= 3)) = rows[c].linked
    BY <1>0, <2>2 DEF RowType
  <2>4. w[c] = [rows[c] EXCEPT !.status = rows[c].status, !.before = rows[c].before,
                             !.rollback = rows[c].rollback, !.linked = rows[c].linked]
    BY Zenon, <1>0, <2>1, <2>3
  <2>5. [rows[c] EXCEPT !.status = rows[c].status, !.before = rows[c].before,
                             !.rollback = rows[c].rollback, !.linked = rows[c].linked] = rows[c]
    BY <2>2 DEF RowType
  <2> QED BY <2>4, <2>5
<1>4. \A i \in Rows : w[i] = rows[i]
  BY <1>1, <1>2, <1>3
<1>5. w \in [Rows -> RowType]
  BY <1>4 DEF Writes
<1> QED BY <1>4, <1>5

\* The application writes what a success means for row c: all of it, or the first of it.
Written(c) ==
  /\ Answered(c, "success")
  /\ \E done \in 1..AllWrites :
       /\ rows' = Writes(c, done)
       /\ (done = AllWrites /\ torn' = torn) \/ torn' = torn \cup {c}
  /\ request'[c] # "asked"
  /\ UNCHANGED run

Failed(c) ==
  /\ request[c] = "asked" /\ request'[c] # "asked"
  /\ rows' = [rows EXCEPT ![c].status = "error"]
  /\ UNCHANGED <<run, torn>>

Expired(c) ==
  /\ rows[c].rollback = "live"
  /\ rows' = [rows EXCEPT ![c].rollback = "expired"]
  /\ UNCHANGED <<request, run, torn>>

\* No dispatch is asked for, none is asked for again, and a script that has ended has ended.
DispatchesGoOn ==
  \A c \in Rows :
    /\ request'[c] = "none" <=> request[c] = "none"
    /\ request'[c] = "asked" => request[c] = "asked"
    /\ request[c] = "none" /\ run[c] = "none" => run'[c] = "none"
    /\ run[c] = "ok" => run'[c] = "ok"

\* A row that is being answered undoes another row, if any: that one has been a success.
LEMMA AskedIsOpen ==
  ASSUME UndoInv, NEW c \in Rows, request[c] = "asked"
  PROVE  rows[c].status = "running" /\ rows[c] # NoRow /\ rows[c].undoes # c
  BY DEF UndoInv, RowIsOpen, RowUndoes, TypeOK, RowType

LEMMA RowSteps ==
  ASSUME UndoInv, [Next]_vars
  PROVE  \/ \E c \in Rows : Opened(c)
         \/ /\ DispatchesGoOn
            /\ \/ UNCHANGED rows /\ torn \subseteq torn'
               \/ \E c \in Rows : Written(c) \/ Failed(c) \/ Expired(c)
<1>0. /\ rows \in [Rows -> RowType]
      /\ request \in [Rows -> {"none", "asked", "success", "actionError", "rejected", "unknown", "lost"}]
      /\ run \in [Rows -> {"none", "accepted", "running", "ok", "failed"}]
  BY DEF UndoInv, TypeOK
<1>1. CASE \E m \in Asked : Mutate(m)
  BY <1>1, MutateOpens
<1>2. CASE \E c \in Rows : Undo(c)
  BY <1>2, UndoOpens
<1>3. ASSUME NEW c \in Rows, Succeeds(c)
      PROVE  DispatchesGoOn /\ (Written(c) \/ (UNCHANGED rows /\ torn \subseteq torn'))
  <2>1. DispatchesGoOn
    BY <1>0, <1>3 DEF Succeeds, Answered, DispatchesGoOn
  <2>2. request'[c] # "asked" /\ UNCHANGED run
    BY <1>0, <1>3 DEF Succeeds
  <2>3. CASE rows' = Writes(c, AllWrites) /\ UNCHANGED torn
    <3>1. AllWrites \in 1..AllWrites
      BY DEF AllWrites
    <3>2. Answered(c, "success")
      BY <1>3 DEF Succeeds
    <3>3. \E done \in 1..AllWrites :
             /\ rows' = Writes(c, done)
             /\ (done = AllWrites /\ torn' = torn) \/ torn' = torn \cup {c}
      BY Zenon, <2>3, <3>1
    <3> QED BY Zenon, <2>1, <2>2, <3>2, <3>3 DEF Written
  <2>4. ASSUME NEW done \in 0..(AllWrites - 1), rows' = Writes(c, done), torn' = torn \cup {c}
        PROVE  Written(c) \/ (UNCHANGED rows /\ torn \subseteq torn')
    <3>1. CASE done = 0
      <4>1. rows[c].undoes # c
        BY <1>3, AskedIsOpen DEF Succeeds, Answered
      <4>2. rows' = rows
        BY <1>0, <2>4, <3>1, <4>1, NoWriteYet
      <4> QED BY <2>4, <4>2
    <3>2. CASE done # 0
      <4>1. done \in 1..AllWrites
        BY <3>2 DEF AllWrites
      <4> QED BY <1>3, <2>2, <2>4, <4>1 DEF Succeeds, Written
    <3> QED BY <3>1, <3>2
  <2> QED BY <1>3, <2>1, <2>3, <2>4 DEF Succeeds
<1>4. ASSUME NEW c \in Rows, NEW answer \in {"actionError", "rejected", "unknown"}, Fails(c, answer)
      PROVE  DispatchesGoOn /\ (Failed(c) \/ UNCHANGED <<rows, torn>>)
  BY <1>0, <1>4 DEF Fails, Answered, DispatchesGoOn, Failed
<1>5. ASSUME NEW c \in Rows, Accept(c) \/ Start(c) \/ CannotStart(c) \/ Finish(c)
      PROVE  DispatchesGoOn /\ UNCHANGED <<rows, torn>>
  BY <1>0, <1>5 DEF Accept, Start, CannotStart, Finish, DispatchesGoOn
<1>6. ASSUME NEW c \in Rows, Expire(c) PROVE DispatchesGoOn /\ Expired(c)
  BY <1>0, <1>6 DEF Expire, DispatchesGoOn, Expired
<1>7. CASE Crash
  <2>1. DispatchesGoOn
    BY <1>7 DEF Crash, DispatchesGoOn
  <2>2. UNCHANGED <<rows, torn>> \/ \E c \in Rows : Written(c)
    <3>1. CASE UNCHANGED <<rows, torn>>
      BY <3>1
    <3>2. ASSUME NEW c \in Rows, NEW done \in 1..(AllWrites - 1), Answered(c, "success"),
                 rows' = Writes(c, done), torn' = torn \cup {c}
          PROVE  Written(c)
      <4>1. request'[c] = "lost" /\ UNCHANGED run
        BY <1>7, <3>2 DEF Crash, Answered
      <4>2. done \in 1..AllWrites
        BY DEF AllWrites
      <4> QED BY <3>2, <4>1, <4>2 DEF Written
    <3> QED BY <1>7, <3>1, <3>2 DEF Crash
  <2> QED BY <2>1, <2>2
<1>8. CASE ChangesElsewhere \/ UNCHANGED vars
  BY <1>8 DEF ChangesElsewhere, vars, DispatchesGoOn
<1> QED BY <1>1, <1>2, <1>3, <1>4, <1>5, <1>6, <1>7, <1>8 DEF Next

(* Types. *)

LEMMA NewRowType ==
  ASSUME NEW m \in Mutations, NEW i \in 0..MaxRows
  PROVE  /\ NewRow(m, i) \in RowType
         /\ NewRow(m, i).action = m.action /\ NewRow(m, i).target = m.target
         /\ NewRow(m, i).undoes = i /\ NewRow(m, i).status = "running"
         /\ NewRow(m, i).rollback = "none"
         /\ ~NewRow(m, i).linked /\ ~NewRow(m, i).reverted
         /\ NewRow(m, i) # NoRow
  BY DEF NewRow, NoRow, RowType, Mutations, ServiceActions, Unread, Readings

LEMMA ChangedRowType ==
  \A row \in RowType :
    /\ [row EXCEPT !.status = "error"] \in RowType
    /\ [row EXCEPT !.rollback = "expired"] \in RowType
  BY DEF RowType

LEMMA ReverseIsMutation ==
  ASSUME NEW row \in RowType, row.action \in ServiceActions, IsReading(row.action, row.before)
  PROVE  /\ Reverse(row) \in Mutations /\ Reverse(row).action \in ServiceActions
         /\ row.action = "stop" => Reverse(row).action = "start"
         /\ row.action = "start" => Reverse(row).action = "stop"
         /\ row.action = "startup" =>
              Reverse(row).action = "startup" /\ Reverse(row).target = row.before.startType
<1> USE DEF ServiceActions, Mutations
<1>1. CASE row.action = "stop"
  BY <1>1 DEF Reverse
<1>2. CASE row.action = "start"
  BY <1>2 DEF Reverse
<1>3. CASE row.action = "startup"
  <2>1. row.before.startType \in StartTypes
    BY <1>3 DEF IsReading
  <2> QED BY <1>3, <2>1 DEF Reverse
<1> QED BY <1>1, <1>2, <1>3

\* What can be undone is a service action that succeeded, and there is a reverse for it.
LEMMA UndoableReverses ==
  ASSUME UndoInv, NEW i \in Rows, Undoable(rows[i])
  PROVE  /\ rows[i].status = "success" /\ rows[i].action \in ServiceActions
         /\ IsReading(rows[i].action, rows[i].before) /\ rows[i] # NoRow
         /\ Reverse(rows[i]) \in Mutations
<1>1. /\ rows[i].status = "success" /\ rows[i].action \in ServiceActions
      /\ IsReading(rows[i].action, rows[i].before) /\ rows[i] # NoRow
  BY DEF Undoable, UndoInv, RowIsOpen, RowIsWritten, RowIsRead, NoRow, ServiceActions
<1>2. rows[i] \in RowType
  BY DEF UndoInv, TypeOK
<1> QED BY <1>1, <1>2, ReverseIsMutation

IsService(svc) == svc \in Services /\ (svc.dependents => svc.status # "Stopped")

LEMMA EffectIsService ==
  ASSUME NEW row, NEW svc, IsService(svc), row.action \in ServiceActions \cup {"process"},
         row.action = "startup" => row.target \in StartTypes
  PROVE  IsService(Effect(row, svc)) /\ IsService([svc EXCEPT !.dependents = FALSE])
<1> USE DEF IsService, Services, Statuses
<1>1. IsService([svc EXCEPT !.dependents = FALSE])
  OBVIOUS
<1>2. CASE row.action = "stop"
  BY <1>1, <1>2 DEF Effect
<1>3. CASE row.action = "start"
  BY <1>1, <1>3 DEF Effect
<1>4. CASE row.action = "startup"
  BY <1>1, <1>4 DEF Effect
<1>5. CASE row.action = "process"
  BY <1>1, <1>5 DEF Effect
<1> QED BY <1>2, <1>3, <1>4, <1>5 DEF ServiceActions

LEMMA ElsewhereIsService ==
  ASSUME NEW svc, IsService(svc)
  PROVE  /\ \A status \in Statuses :
              IsService([svc EXCEPT !.status = status, !.dependents = @ /\ status # "Stopped"])
         /\ svc.status = "Running" => IsService([svc EXCEPT !.dependents = ~@])
<1> USE DEF IsService, Services
<1>1. ASSUME NEW status \in Statuses, NEW b \in BOOLEAN, b => status # "Stopped"
      PROVE  IsService([svc EXCEPT !.status = status, !.dependents = b])
  BY <1>1
<1>2. ASSUME NEW b \in BOOLEAN, svc.status = "Running" PROVE IsService([svc EXCEPT !.dependents = b])
  BY <1>2
<1>3. svc.dependents \in BOOLEAN
  OBVIOUS
<1>4. ASSUME NEW status \in Statuses
      PROVE  /\ (svc.dependents /\ status # "Stopped") \in BOOLEAN
             /\ (svc.dependents /\ status # "Stopped") => status # "Stopped"
  OBVIOUS
<1>5. (~svc.dependents) \in BOOLEAN
  OBVIOUS
<1> QED BY Zenon, <1>1, <1>2, <1>4, <1>5

LEMMA UndoTypesStep ==
  ASSUME UndoInv, [Next]_vars
  PROVE  TypeOK'
<1>0. TypeOK
  BY DEF UndoInv
<1>1. rows' \in [Rows -> RowType]
  <2>0. rows \in [Rows -> RowType] /\ seen \in [Rows -> Readings]
    BY <1>0 DEF TypeOK
  <2>1. ASSUME NEW c \in Rows, NEW m \in Mutations, NEW i \in 0..MaxRows, Opens(c, m, i)
        PROVE  rows' \in [Rows -> RowType]
    BY <2>0, <2>1, NewRowType DEF Opens
  <2>2. ASSUME NEW c \in Rows, Opened(c) PROVE rows' \in [Rows -> RowType]
    <3>1. ASSUME NEW i \in Rows, Undoable(rows[i]) PROVE Reverse(rows[i]) \in Mutations
      BY <3>1, UndoableReverses
    <3>2. 0 \in 0..MaxRows /\ \A i \in Rows : i \in 0..MaxRows
      OBVIOUS
    <3> QED BY <2>1, <2>2, <3>1, <3>2 DEF Opened
  <2>3. ASSUME NEW c \in Rows, Written(c) PROVE rows' \in [Rows -> RowType]
    BY <2>0, <2>3, WritesRows, AskedIsOpen DEF Written, Answered
  <2>4. ASSUME NEW c \in Rows, Failed(c) PROVE rows' \in [Rows -> RowType]
    <3>1. [rows[c] EXCEPT !.status = "error"] \in RowType
      BY <2>0, ChangedRowType
    <3> QED BY <2>0, <2>4, <3>1 DEF Failed
  <2>5. ASSUME NEW c \in Rows, Expired(c) PROVE rows' \in [Rows -> RowType]
    <3>1. [rows[c] EXCEPT !.rollback = "expired"] \in RowType
      BY <2>0, ChangedRowType
    <3> QED BY <2>0, <2>5, <3>1 DEF Expired
  <2> QED BY <1>0, <2>0, <2>2, <2>3, <2>4, <2>5, RowSteps
<1>2. request' \in [Rows -> {"none", "asked", "success", "actionError", "rejected", "unknown", "lost"}]
  BY <1>0 DEF Next, vars, TypeOK, Mutate, Undo, Begin, Succeeds, Fails, Expire, Accept, Start,
              CannotStart, Finish, ChangesElsewhere, Crash
<1>3. run' \in [Rows -> {"none", "accepted", "running", "ok", "failed"}]
  <2>1. \/ UNCHANGED run
        \/ \E c \in Rows, was \in {"accepted", "running", "ok", "failed"} :
             run' = [run EXCEPT ![c] = was]
    BY DEF Next, vars, Mutate, Undo, Begin, Succeeds, Fails, Expire, Accept, Start,
           CannotStart, Finish, ChangesElsewhere, Crash
  <2> QED BY <1>0, <2>1 DEF TypeOK
<1>4. faults' \in 0..MaxFaults
  <2>1. UNCHANGED faults \/ (faults < MaxFaults /\ faults' = faults + 1)
    BY DEF Next, vars, Mutate, Undo, Begin, Succeeds, Fails, Expire, Accept, Start,
           CannotStart, Finish, ChangesElsewhere, Crash, Fault
  <2> QED BY <1>0, <2>1, FaultAssumption DEF TypeOK
<1>5. torn' \subseteq Rows
  BY <1>0 DEF Next, vars, TypeOK, Mutate, Undo, Begin, Succeeds, Fails, Expire, Accept, Start,
              CannotStart, Finish, ChangesElsewhere, Crash
<1>6. seen' \in [Rows -> Readings]
  <2>1. ASSUME NEW c \in Rows, Start(c) PROVE seen' \in [Rows -> Readings]
    <3>1. Reads(c) \in Readings
      BY <1>0 DEF TypeOK, Reads, Unread, Readings, Services
    <3> QED BY <1>0, <2>1, <3>1 DEF TypeOK, Start
  <2>2. (\E c \in Rows : Start(c)) \/ UNCHANGED seen
    BY DEF Next, vars, Mutate, Undo, Begin, Succeeds, Fails, Expire, Accept,
           CannotStart, Finish, ChangesElsewhere, Crash
  <2> QED BY <1>0, <2>1, <2>2 DEF TypeOK
<1>7. IsService(service')
  <2>0. IsService(service)
    <3>1. service \in Services /\ (service.dependents => service.status # "Stopped")
      BY <1>0 DEF TypeOK
    <3> QED BY Zenon, <3>1 DEF IsService
  <2>1. ASSUME NEW c \in Rows, Finish(c) PROVE IsService(service')
    <3>1. /\ rows[c].action \in ServiceActions \cup {"process"}
          /\ rows[c].action = "startup" => rows[c].target \in StartTypes
      BY <2>1 DEF Finish, UndoInv, RowIsOpen, RowIsRead
    <3>2. IsService(Effect(rows[c], service)) /\ IsService([service EXCEPT !.dependents = FALSE])
      BY <2>0, <3>1, EffectIsService
    <3>3. \/ UNCHANGED service
          \/ service' = Effect(rows[c], service)
          \/ service' = [service EXCEPT !.dependents = FALSE]
      BY <2>1 DEF Finish
    <3> QED BY <2>0, <3>2, <3>3
  <2>2. CASE ChangesElsewhere
    <3>1. ASSUME NEW status \in Statuses
          PROVE  IsService([service EXCEPT !.status = status, !.dependents = @ /\ status # "Stopped"])
      BY <2>0, ElsewhereIsService
    <3>2. ASSUME NEW startType \in StartTypes PROVE IsService([service EXCEPT !.startType = startType])
      BY <2>0 DEF IsService, Services
    <3>3. service.status = "Running" => IsService([service EXCEPT !.dependents = ~@])
      BY <2>0, ElsewhereIsService
    <3>4. IsService([service EXCEPT !.dependents = FALSE])
      BY <2>0 DEF IsService, Services
    <3> QED BY <2>2, <3>1, <3>2, <3>3, <3>4 DEF ChangesElsewhere
  <2>3. ChangesElsewhere \/ (\E c \in Rows : Finish(c)) \/ UNCHANGED service
    BY DEF Next, vars, Mutate, Undo, Begin, Succeeds, Fails, Expire, Accept, Start,
           CannotStart, Crash
  <2> QED BY <2>0, <2>1, <2>2, <2>3
<1> QED BY <1>1, <1>2, <1>3, <1>4, <1>5, <1>6, <1>7 DEF TypeOK, IsService

(* The invariant, row by row. *)

\* A step keeps what has succeeded, and only adds to the rows whose writes were cut short.
KeepsSuccesses ==
  /\ \A i \in Rows :
       rows[i].status = "success" =>
         /\ rows'[i].status = "success" /\ rows'[i].action = rows[i].action
         /\ rows'[i].before = rows[i].before /\ rows'[i].undoes = rows[i].undoes
         /\ rows[i].reverted => rows'[i].reverted
  /\ torn \subseteq torn'

\* Row d is left as it is, but for the marks of its undo and the expiry of its rollback.
LeavesRow(d) ==
  /\ rows'[d].action = rows[d].action /\ rows'[d].target = rows[d].target
  /\ rows'[d].undoes = rows[d].undoes /\ rows'[d].status = rows[d].status
  /\ rows'[d].before = rows[d].before /\ rows'[d].linked = rows[d].linked
  /\ rows'[d].rollback = "none" <=> rows[d].rollback = "none"

LEMMA SameReverse ==
  ASSUME NEW row, NEW other, row.action = other.action, row.before = other.before,
         row.action \in ServiceActions
  PROVE  Reverse(row) = Reverse(other)
  BY DEF Reverse, ServiceActions

LEMMA UndoesStays ==
  ASSUME UndoInv, TypeOK', KeepsSuccesses, NEW d \in Rows,
         rows'[d].action = rows[d].action, rows'[d].target = rows[d].target,
         rows'[d].undoes = rows[d].undoes
  PROVE  RowUndoes(d)'
<1>1. SUFFICES ASSUME rows[d].undoes # 0
      PROVE  /\ rows'[rows[d].undoes].status = "success"
             /\ rows'[rows[d].undoes].action \in ServiceActions
             /\ rows'[d].action = Reverse(rows'[rows[d].undoes]).action
             /\ rows'[d].target = Reverse(rows'[rows[d].undoes]).target
  BY DEF RowUndoes
<1>2. rows[d].undoes \in Rows
  BY <1>1 DEF UndoInv, TypeOK, RowType
<1>3. /\ rows[rows[d].undoes].status = "success"
      /\ rows[rows[d].undoes].action \in ServiceActions
      /\ rows[d].action = Reverse(rows[rows[d].undoes]).action
      /\ rows[d].target = Reverse(rows[rows[d].undoes]).target
  BY <1>1 DEF UndoInv, RowUndoes
<1>4. /\ rows'[rows[d].undoes].status = "success"
      /\ rows'[rows[d].undoes].action = rows[rows[d].undoes].action
      /\ rows'[rows[d].undoes].before = rows[rows[d].undoes].before
  BY <1>2, <1>3 DEF KeepsSuccesses
<1>5. Reverse(rows'[rows[d].undoes]) = Reverse(rows[rows[d].undoes])
  BY <1>3, <1>4, SameReverse
<1> QED BY <1>3, <1>4, <1>5

LEMMA WrittenStays ==
  ASSUME UndoInv, KeepsSuccesses, NEW d \in Rows, LeavesRow(d)
  PROVE  RowIsWritten(d)'
<1>1. rows[d].status = "success" /\ rows[d].undoes # 0 =>
        /\ rows[d].undoes \in Rows
        /\ rows[rows[d].undoes].status = "success"
  BY DEF UndoInv, TypeOK, RowType, RowUndoes
<1>2. RowIsWritten(d)
  BY DEF UndoInv
<1> QED BY <1>1, <1>2 DEF RowIsWritten, LeavesRow, KeepsSuccesses

LEMMA RevertedStays ==
  ASSUME UndoInv, KeepsSuccesses, NEW d \in Rows, rows[d].reverted
  PROVE  RowIsReverted(d)'
<1>1. PICK u \in Rows : rows[u].undoes = d /\ rows[u].status = "success"
  BY DEF UndoInv, RowIsReverted
<1>2. rows'[u].undoes = d /\ rows'[u].status = "success"
  BY <1>1 DEF KeepsSuccesses
<1> QED BY <1>2 DEF RowIsReverted

\* A dispatch that is open ends, or goes on without its caller.
LEMMA OpenStays ==
  ASSUME UndoInv, DispatchesGoOn, NEW d \in Rows,
         rows'[d].action = rows[d].action,
         rows[d] = NoRow => rows'[d] = NoRow,
         \/ rows'[d] = rows[d]
         \/ rows[d] # NoRow /\ rows'[d] # NoRow /\ rows'[d].status = rows[d].status
         \/ rows'[d] # NoRow /\ rows'[d].status = "success" /\ run[d] = "ok" /\ request'[d] # "asked"
         \/ rows'[d] # NoRow /\ rows'[d].status = "error" /\ request'[d] # "asked"
  PROVE  RowIsOpen(d)'
<1>1. RowIsOpen(d)
  BY DEF UndoInv
<1> QED BY <1>1 DEF RowIsOpen, DispatchesGoOn

\* What the scripts read: once, before they act.
LEMMA ReadStays ==
  ASSUME UndoInv, [Next]_vars, NEW d \in Rows,
         rows'[d].action = rows[d].action, rows'[d].target = rows[d].target,
         \/ rows'[d].status # "success"
         \/ rows[d].status = "success" /\ rows'[d].before = rows[d].before
         \/ run[d] = "ok" /\ rows'[d].before = seen[d]
  PROVE  RowIsRead(d)'
<1>1. \/ run'[d] \in {"running", "ok"} => run[d] \in {"running", "ok"} /\ seen'[d] = seen[d]
      \/ IsReading(rows[d].action, seen'[d])
  <2> USE DEF UndoInv, TypeOK
  <2>1. ASSUME NEW c \in Rows, Start(c)
        PROVE  \/ run'[d] = run[d] /\ seen'[d] = seen[d]
               \/ IsReading(rows[d].action, seen'[d])
    <3>1. CASE c # d
      BY <2>1, <3>1 DEF Start
    <3>2. CASE c = d
      <4>1. seen'[d] = Reads(d)
        BY <2>1, <3>2 DEF Start
      <4>2. IsReading(rows[d].action, Reads(d))
        BY DEF Reads, IsReading, Unread, Services
      <4> QED BY <4>1, <4>2
    <3> QED BY <3>1, <3>2
  <2>2. ASSUME NEW c \in Rows, Accept(c) \/ CannotStart(c) \/ Finish(c)
        PROVE  run'[d] \in {"running", "ok"} => run[d] \in {"running", "ok"} /\ seen'[d] = seen[d]
    BY <2>2 DEF Accept, CannotStart, Finish
  <2>3. CASE UNCHANGED <<run, seen>>
    BY <2>3
  <2>4. \/ UNCHANGED <<run, seen>>
        \/ \E c \in Rows : Accept(c) \/ Start(c) \/ CannotStart(c) \/ Finish(c)
    BY DEF Next, Mutate, Undo, Begin, Succeeds, Fails, Expire, ChangesElsewhere, Crash, vars
  <2> QED BY <2>1, <2>2, <2>3, <2>4
<1>2. RowIsRead(d)
  BY DEF UndoInv
<1> QED BY <1>1, <1>2 DEF RowIsRead

\* What is opened: a mutation the user asked for, or the reverse of one that succeeded.
LEMMA OpenedIs ==
  ASSUME UndoInv, NEW c \in Rows, Opened(c)
  PROVE  \E m \in Mutations, i \in 0..MaxRows :
           /\ Opens(c, m, i)
           /\ i # 0 => i \in Rows /\ Undoable(rows[i]) /\ m = Reverse(rows[i])
<1>1. 0 \in 0..MaxRows /\ \A i \in Rows : i \in 0..MaxRows
  OBVIOUS
<1>2. \A i \in Rows : Undoable(rows[i]) => Reverse(rows[i]) \in Mutations
  BY UndoableReverses
<1> QED BY <1>1, <1>2 DEF Opened

LEMMA OpenedKeeps ==
  ASSUME UndoInv, TypeOK', NEW c \in Rows, Opened(c)
  PROVE  UndoInv'
<1>0. TypeOK /\ TypeOK'
  BY DEF UndoInv
<1>1. PICK m \in Mutations, i \in 0..MaxRows :
         /\ Opens(c, m, i)
         /\ i # 0 => i \in Rows /\ Undoable(rows[i]) /\ m = Reverse(rows[i])
  BY OpenedIs
<1>2. /\ rows'[c] = NewRow(m, i) /\ request'[c] = "asked" /\ run'[c] = "none"
      /\ \A d \in Rows : d # c => rows'[d] = rows[d] /\ request'[d] = request[d]
      /\ UNCHANGED <<run, seen, torn>>
      /\ rows[c] = NoRow
  BY <1>0, <1>1 DEF Opens, TypeOK, UndoInv, RowIsOpen
<1>3. KeepsSuccesses
  BY <1>2 DEF KeepsSuccesses, NoRow
<1>4. /\ rows'[c].action = m.action /\ rows'[c].target = m.target
      /\ rows'[c].undoes = i /\ rows'[c].status = "running"
      /\ rows'[c].rollback = "none" /\ ~rows'[c].linked /\ ~rows'[c].reverted
      /\ rows'[c] # NoRow
  BY <1>2, NewRowType
<1>5. m.action \in ServiceActions \cup {"process"} /\ (m.action = "startup" => m.target \in StartTypes)
  BY DEF Mutations
<1>6. RowIsOpen(c)' /\ RowIsRead(c)' /\ RowIsWritten(c)' /\ RowIsReverted(c)'
  BY <1>2, <1>4, <1>5 DEF RowIsOpen, RowIsRead, RowIsWritten, RowIsReverted
<1>7. RowUndoes(c)'
  <2>1. CASE i = 0
    BY <1>4, <2>1 DEF RowUndoes
  <2>2. CASE i # 0
    <3>1. /\ i \in Rows /\ rows[i].status = "success" /\ rows[i].action \in ServiceActions
          /\ rows[i] # NoRow
      BY <1>1, <2>2, UndoableReverses
    <3>2. rows'[i] = rows[i]
      BY <1>2, <3>1
    <3> QED BY <1>1, <1>4, <2>2, <3>1, <3>2 DEF RowUndoes
  <2> QED BY <2>1, <2>2
<1>8. ASSUME NEW d \in Rows, d # c
      PROVE  RowIsOpen(d)' /\ RowIsRead(d)' /\ RowUndoes(d)' /\ RowIsWritten(d)' /\ RowIsReverted(d)'
  <2>0. rows'[d] = rows[d] /\ request'[d] = request[d] /\ UNCHANGED <<run, seen, torn>>
    BY <1>2, <1>8
  <2>1. RowIsOpen(d)' /\ RowIsRead(d)'
    BY <2>0 DEF UndoInv, RowIsOpen, RowIsRead
  <2>2. RowUndoes(d)'
    BY <1>0, <1>3, <2>0, UndoesStays
  <2>3. RowIsWritten(d)'
    BY <1>3, <2>0, WrittenStays DEF LeavesRow
  <2>4. RowIsReverted(d)'
    BY <1>3, <2>0, RevertedStays DEF RowIsReverted
  <2> QED BY <2>1, <2>2, <2>3, <2>4
<1>9. \A d \in Rows :
        RowIsOpen(d)' /\ RowIsRead(d)' /\ RowUndoes(d)' /\ RowIsWritten(d)' /\ RowIsReverted(d)'
  BY <1>6, <1>7, <1>8
<1> QED BY <1>0, <1>9 DEF UndoInv

\* A step that changes nothing but dispatches and the service.
LEMMA UnwrittenKeeps ==
  ASSUME UndoInv, TypeOK', [Next]_vars, DispatchesGoOn, UNCHANGED rows,
         torn \subseteq torn'
  PROVE  UndoInv'
<1>1. KeepsSuccesses
  BY DEF KeepsSuccesses
<1>2. ASSUME NEW d \in Rows
      PROVE  RowIsOpen(d)' /\ RowIsRead(d)' /\ RowUndoes(d)' /\ RowIsWritten(d)' /\ RowIsReverted(d)'
  <2>1. rows'[d] = rows[d]
    OBVIOUS
  <2>2. RowIsOpen(d)'
    BY <2>1, OpenStays
  <2>3. RowIsRead(d)'
    BY <2>1, ReadStays
  <2>4. RowUndoes(d)'
    BY <1>1, <2>1, UndoesStays
  <2>5. RowIsWritten(d)'
    BY <1>1, <2>1, WrittenStays DEF LeavesRow
  <2>6. RowIsReverted(d)'
    BY <1>1, <2>1, RevertedStays DEF RowIsReverted
  <2> QED BY <2>2, <2>3, <2>4, <2>5, <2>6
<1> QED BY <1>2 DEF UndoInv

LEMMA FailedKeeps ==
  ASSUME UndoInv, TypeOK', [Next]_vars, DispatchesGoOn, NEW c \in Rows, Failed(c)
  PROVE  UndoInv'
<1>1. rows[c].status = "running" /\ rows[c] # NoRow
  BY AskedIsOpen DEF Failed
<1>2. /\ rows'[c].status = "error" /\ rows'[c].action = rows[c].action
      /\ rows'[c].target = rows[c].target /\ rows'[c].undoes = rows[c].undoes
      /\ rows'[c].before = rows[c].before /\ rows'[c].linked = rows[c].linked
      /\ rows'[c].rollback = rows[c].rollback /\ rows'[c].reverted = rows[c].reverted
      /\ rows'[c] # NoRow
  <2>1. rows'[c] = [rows[c] EXCEPT !.status = "error"] /\ rows[c] \in RowType
    BY DEF Failed, UndoInv, TypeOK
  <2> QED BY <2>1 DEF RowType, NoRow
<1>3. \A d \in Rows : d # c => rows'[d] = rows[d]
  BY DEF Failed, UndoInv, TypeOK
<1>4. UNCHANGED <<run, torn>> /\ request'[c] # "asked"
  BY DEF Failed
<1>5. KeepsSuccesses
  BY <1>1, <1>3, <1>4 DEF KeepsSuccesses
<1>6. ASSUME NEW d \in Rows
      PROVE  RowIsOpen(d)' /\ RowIsRead(d)' /\ RowUndoes(d)' /\ RowIsWritten(d)' /\ RowIsReverted(d)'
  <2>0. rows'[d] = rows[d] \/ d = c
    BY <1>3
  <2>2. RowIsOpen(d)'
    BY <1>1, <1>2, <1>4, <2>0, OpenStays
  <2>3. RowIsRead(d)'
    BY <1>2, <2>0, ReadStays
  <2>4. RowUndoes(d)'
    BY <1>2, <1>5, <2>0, UndoesStays
  <2>5. RowIsWritten(d)'
    <3>1. CASE d = c
      BY <1>2, <3>1 DEF UndoInv, RowIsWritten
    <3>2. CASE rows'[d] = rows[d]
      BY <1>5, <3>2, WrittenStays DEF LeavesRow
    <3> QED BY <2>0, <3>1, <3>2
  <2>6. RowIsReverted(d)'
    BY <1>2, <1>5, <2>0, RevertedStays DEF RowIsReverted
  <2> QED BY <2>2, <2>3, <2>4, <2>5, <2>6
<1> QED BY <1>6 DEF UndoInv

LEMMA ExpiredKeeps ==
  ASSUME UndoInv, TypeOK', [Next]_vars, DispatchesGoOn, NEW c \in Rows, Expired(c)
  PROVE  UndoInv'
<1>1. rows[c] # NoRow
  BY DEF Expired, NoRow
<1>2. /\ rows'[c].status = rows[c].status /\ rows'[c].action = rows[c].action
      /\ rows'[c].target = rows[c].target /\ rows'[c].undoes = rows[c].undoes
      /\ rows'[c].before = rows[c].before /\ rows'[c].linked = rows[c].linked
      /\ rows'[c].rollback # "none" /\ rows[c].rollback # "none"
      /\ rows'[c].reverted = rows[c].reverted
      /\ rows'[c] # NoRow
  <2>1. rows'[c] = [rows[c] EXCEPT !.rollback = "expired"] /\ rows[c] \in RowType
    BY DEF Expired, UndoInv, TypeOK
  <2> QED BY <2>1 DEF RowType, NoRow, Expired
<1>3. \A d \in Rows : d # c => rows'[d] = rows[d]
  BY DEF Expired, UndoInv, TypeOK
<1>4. UNCHANGED <<run, torn>>
  BY DEF Expired
<1>5. KeepsSuccesses
  <2>1. ASSUME NEW d \in Rows, rows[d].status = "success"
        PROVE  /\ rows'[d].status = "success" /\ rows'[d].action = rows[d].action
               /\ rows'[d].before = rows[d].before /\ rows'[d].undoes = rows[d].undoes
               /\ rows[d].reverted => rows'[d].reverted
    BY <1>2, <1>3, <2>1
  <2> QED BY <1>4, <2>1 DEF KeepsSuccesses
<1>6. ASSUME NEW d \in Rows
      PROVE  RowIsOpen(d)' /\ RowIsRead(d)' /\ RowUndoes(d)' /\ RowIsWritten(d)' /\ RowIsReverted(d)'
  <2>0. rows'[d] = rows[d] \/ d = c
    BY <1>3
  <2>2. RowIsOpen(d)'
    BY <1>1, <1>2, <1>4, <2>0, OpenStays
  <2>3. RowIsRead(d)'
    BY <1>2, <2>0, ReadStays
  <2>4. RowUndoes(d)'
    BY <1>2, <1>5, <2>0, UndoesStays
  <2>5. RowIsWritten(d)'
    BY <1>2, <1>5, <2>0, WrittenStays DEF LeavesRow
  <2>6. RowIsReverted(d)'
    BY <1>2, <1>5, <2>0, RevertedStays DEF RowIsReverted
  <2> QED BY <2>2, <2>3, <2>4, <2>5, <2>6
<1> QED BY <1>6 DEF UndoInv

LEMMA WrittenKeeps ==
  ASSUME UndoInv, TypeOK', [Next]_vars, DispatchesGoOn, NEW c \in Rows, Written(c)
  PROVE  UndoInv'
<1>0. TypeOK
  BY DEF UndoInv
<1>1. /\ request[c] = "asked" /\ run[c] = "ok" /\ request'[c] # "asked" /\ UNCHANGED run
      /\ torn \subseteq torn'
  BY DEF Written, Answered
<1>2. /\ rows[c].status = "running" /\ rows[c] # NoRow /\ rows[c].undoes # c
      /\ rows[c].undoes # 0 =>
           rows[c].undoes \in Rows /\ rows[rows[c].undoes].status = "success"
  <2>1. rows[c].undoes # 0 => rows[c].undoes \in Rows
    BY <1>0 DEF TypeOK, RowType
  <2>2. RowUndoes(c)
    BY DEF UndoInv
  <2> QED BY <1>1, <2>1, <2>2, AskedIsOpen DEF RowUndoes
<1>3. PICK done \in 1..AllWrites :
        /\ rows' = Writes(c, done)
        /\ done = AllWrites \/ c \in torn'
  BY DEF Written
<1>4. /\ \A i \in Rows :
           /\ rows'[i].action = rows[i].action
           /\ rows'[i].target = rows[i].target
           /\ rows'[i].undoes = rows[i].undoes
           /\ rows[i].reverted => rows'[i].reverted
           /\ i # c =>
                /\ i # rows[c].undoes => rows'[i] = rows[i]
                /\ rows'[i].status = rows[i].status /\ rows'[i].before = rows[i].before
                /\ rows'[i].rollback = rows[i].rollback /\ rows'[i].linked = rows[i].linked
                /\ rows'[i].reverted => rows[i].reverted \/ (i = rows[c].undoes /\ done >= 4)
                /\ i = rows[c].undoes /\ done >= 4 => rows'[i].reverted
      /\ rows'[c].status = "success" /\ rows'[c].before = seen[c]
      /\ rows'[c].reverted = rows[c].reverted
      /\ rows[c].action = "process" => rows'[c].rollback = rows[c].rollback /\ rows'[c].linked = rows[c].linked
      /\ rows[c].action # "process" /\ done >= 3 => rows'[c].rollback = "live" /\ rows'[c].linked
  BY <1>0, <1>2, <1>3, WritesRows DEF TypeOK
<1>5. KeepsSuccesses
  BY <1>1, <1>2, <1>4 DEF KeepsSuccesses
<1>6. ASSUME NEW d \in Rows
      PROVE  RowIsOpen(d)' /\ RowIsRead(d)' /\ RowUndoes(d)' /\ RowIsWritten(d)' /\ RowIsReverted(d)'
  <2>0. /\ rows'[d].action = rows[d].action /\ rows'[d].target = rows[d].target
        /\ rows'[d].undoes = rows[d].undoes
    BY <1>4
  <2>1. \/ d = c
        \/ d # c /\ rows'[d] = rows[d]
        \/ d # c /\ d = rows[c].undoes /\ rows[d].status = "success" /\ rows'[d].status = "success"
    BY <1>2, <1>4, RowAssumption
  <2>2. RowIsOpen(d)'
    BY <1>1, <1>2, <1>4, <2>0, <2>1, OpenStays DEF NoRow
  <2>3. RowIsRead(d)'
    BY <1>1, <1>4, <2>0, ReadStays
  <2>4. RowUndoes(d)'
    BY <1>5, <2>0, UndoesStays
  <2>5. RowIsWritten(d)'
    <3>1. CASE d # c
      BY <1>4, <1>5, <3>1, WrittenStays DEF LeavesRow
    <3>2. CASE d = c
      <4>1. RowIsWritten(c)
        BY DEF UndoInv
      <4>2. c \notin torn' => done >= 4
        BY <1>3 DEF AllWrites
      <4>3. done >= 4 /\ rows[c].undoes # 0 => rows'[rows[c].undoes].reverted
        BY <1>2, <1>4
      <4>4. c \notin torn' /\ rows[c].action # "process" => rows'[c].rollback = "live" /\ rows'[c].linked
        BY <1>4, <4>2
      <4> QED BY <1>4, <3>2, <4>1, <4>2, <4>3, <4>4 DEF RowIsWritten
    <3> QED BY <3>1, <3>2
  <2>6. RowIsReverted(d)'
    <3>1. CASE rows[d].reverted
      BY <1>5, <3>1, RevertedStays
    <3>2. CASE ~rows[d].reverted /\ rows'[d].reverted
      <4>1. d # c /\ d = rows[c].undoes
        BY <1>4, <3>2
      <4> QED BY <1>4, <4>1 DEF RowIsReverted
    <3>3. CASE ~rows'[d].reverted
      BY <3>3 DEF RowIsReverted
    <3> QED BY <3>1, <3>2, <3>3
  <2> QED BY <2>2, <2>3, <2>4, <2>5, <2>6
<1> QED BY <1>6 DEF UndoInv

\* Rows come into being in one way only.
LEMMA OnlyOpeningAdds ==
  ASSUME UndoInv, [Next]_vars, NEW u \in Rows, rows[u] = NoRow, rows'[u] # NoRow
  PROVE  \E c \in Rows : Opened(c)
<1>0. TypeOK
  BY DEF UndoInv
<1>1. request[u] = "none" /\ rows[u].status = "none"
  BY DEF UndoInv, RowIsOpen, NoRow
<1>2. ASSUME NEW c \in Rows, Failed(c) PROVE FALSE
  BY <1>0, <1>1, <1>2 DEF Failed, TypeOK
<1>3. ASSUME NEW c \in Rows, Expired(c) PROVE FALSE
  <2>1. c # u
    BY <1>3 DEF Expired, NoRow
  <2> QED BY <1>0, <1>3, <2>1 DEF Expired, TypeOK
<1>4. ASSUME NEW c \in Rows, Written(c) PROVE FALSE
  <2>1. request[c] = "asked"
    BY <1>4 DEF Written, Answered
  <2>2. u # c /\ u # rows[c].undoes /\ rows[c].undoes # c
    BY <1>1, <2>1, AskedIsOpen DEF UndoInv, RowUndoes
  <2>3. PICK done \in 1..AllWrites : rows' = Writes(c, done)
    BY <1>4 DEF Written
  <2>4. rows'[u] = rows[u]
    BY <1>0, <2>2, <2>3, WritesRows DEF TypeOK
  <2> QED BY <2>4
<1> QED BY <1>0, <1>2, <1>3, <1>4, RowSteps

\* The invariant holds before the first mutation.
THEOREM UndoInit == Init => UndoInv
<1> SUFFICES ASSUME Init PROVE UndoInv
  OBVIOUS
<1>1. NoRow \in RowType
  BY DEF NoRow, RowType, Unread, Readings
<1>2. TypeOK
  <2>1. Unread \in Readings /\ 0 \in 0..MaxFaults
    BY FaultAssumption DEF Unread, Readings
  <2>2. service \in Services /\ (service.dependents => service.status # "Stopped")
    BY Zenon DEF Init
  <2> QED BY <1>1, <2>1, <2>2 DEF Init, TypeOK
<1>3. ASSUME NEW c \in Rows PROVE rows[c] = NoRow /\ request[c] = "none" /\ run[c] = "none"
  BY DEF Init
<1>4. /\ NoRow.status = "none" /\ NoRow.action = "none" /\ NoRow.undoes = 0
      /\ NoRow.rollback = "none" /\ ~NoRow.reverted
  BY DEF NoRow
<1>5. ASSUME NEW c \in Rows
      PROVE  RowIsOpen(c) /\ RowIsRead(c) /\ RowUndoes(c) /\ RowIsWritten(c) /\ RowIsReverted(c)
  <2>1. RowIsOpen(c) /\ RowIsRead(c)
    BY <1>3, <1>4 DEF RowIsOpen, RowIsRead
  <2>2. RowUndoes(c) /\ RowIsWritten(c)
    BY <1>3, <1>4 DEF RowUndoes, RowIsWritten
  <2>3. RowIsReverted(c)
    BY <1>3, <1>4 DEF RowIsReverted
  <2> QED BY <2>1, <2>2, <2>3
<1> QED
  BY <1>2, <1>5 DEF UndoInv

\* Every step of the callers, of the worker and its scripts, of Windows and of the clock
\* keeps it, and so does a crash or a failing log between any two writes.
THEOREM UndoStep == UndoInv /\ [Next]_vars => UndoInv'
<1> SUFFICES ASSUME UndoInv, [Next]_vars PROVE UndoInv'
  OBVIOUS
<1>1. TypeOK /\ TypeOK'
  BY UndoTypesStep DEF UndoInv
<1>2. CASE \E c \in Rows : Opened(c)
  BY <1>1, <1>2, OpenedKeeps
<1>3. ASSUME DispatchesGoOn, UNCHANGED rows, torn \subseteq torn' PROVE UndoInv'
  BY <1>1, <1>3, UnwrittenKeeps
<1>4. ASSUME DispatchesGoOn, NEW c \in Rows, Written(c) PROVE UndoInv'
  BY <1>1, <1>4, WrittenKeeps
<1>5. ASSUME DispatchesGoOn, NEW c \in Rows, Failed(c) PROVE UndoInv'
  BY <1>1, <1>5, FailedKeeps
<1>6. ASSUME DispatchesGoOn, NEW c \in Rows, Expired(c) PROVE UndoInv'
  BY <1>1, <1>6, ExpiredKeeps
<1> QED
  BY <1>1, <1>2, <1>3, <1>4, <1>5, <1>6, RowSteps

\* So it holds throughout.
THEOREM UndoInvariance == Spec => []UndoInv
  BY UndoInit, UndoStep, PTL DEF Spec

\* Rows, services and dispatches stay within their types: among others, what an undo asks for
\* is always an action that its script knows, with a startup type that there is.
THEOREM UndoTypes == Spec => []TypeOK
<1>1. UndoInv => TypeOK
  BY DEF UndoInv
<1> QED BY <1>1, UndoInvariance, PTL

\* A row marked as reverted was put back (undoServiceAction in serviceMutate.ts): the mark is
\* only made by an undo whose script ran to its end, and that script, run on what the undone
\* one made of the service, gives what the undone one had read of it - its startup type, or the
\* service's own status unless that was Paused, but not the dependents a forced stop took
\* along - however undos, crashes, failing writes and late scripts interleave.
THEOREM RevertedIsRestored == Spec => []RevertedMeansRestored
<1>1. ASSUME UndoInv PROVE RevertedMeansRestored
  <2>1. SUFFICES ASSUME NEW i \in Rows, rows[i].reverted
        PROVE  \E u \in Rows :
                 /\ rows[u].undoes = i /\ rows[u].status = "success" /\ run[u] = "ok"
                 /\ ChangedSomething(i) /\ ~CameFromPause(i) =>
                      Effect(rows[u], Effect(rows[i], rows[i].before)) = ToRestore(i)
    BY DEF RevertedMeansRestored
  <2>2. PICK u \in Rows : rows[u].undoes = i /\ rows[u].status = "success"
    BY <1>1, <2>1 DEF UndoInv, RowIsReverted
  <2>3. run[u] = "ok"
    BY <1>1, <2>2 DEF UndoInv, RowIsOpen
  <2>4. /\ rows[i].status = "success" /\ rows[i].action \in ServiceActions
        /\ rows[u].action = Reverse(rows[i]).action /\ rows[u].target = Reverse(rows[i]).target
    BY <1>1, <2>2 DEF UndoInv, RowUndoes
  <2>5. rows[i] \in RowType /\ IsReading(rows[i].action, rows[i].before)
    BY <1>1, <2>4 DEF UndoInv, TypeOK, RowIsRead
  <2>6. /\ rows[i].action = "stop" => rows[u].action = "start"
        /\ rows[i].action = "start" => rows[u].action = "stop"
        /\ rows[i].action = "startup" =>
             rows[u].action = "startup" /\ rows[u].target = rows[i].before.startType
    BY <2>4, <2>5, ReverseIsMutation
  <2>7. ChangedSomething(i) /\ ~CameFromPause(i) =>
          Effect(rows[u], Effect(rows[i], rows[i].before)) = ToRestore(i)
    <3> DEFINE b == rows[i].before
    <3>0. b \in Readings
      BY <2>5 DEF RowType
    <3>1. CASE rows[i].action = "stop" /\ b.status = "Running"
      <4>1. Effect(rows[i], b) = [b EXCEPT !.status = "Stopped", !.dependents = FALSE]
        BY <3>1 DEF Effect
      <4>2. Effect(rows[u], Effect(rows[i], b)) = [Effect(rows[i], b) EXCEPT !.status = "Running"]
        BY <2>6, <3>1 DEF Effect
      <4>3. ToRestore(i) = [b EXCEPT !.dependents = FALSE]
        BY <3>1 DEF ToRestore
      <4>4. [[b EXCEPT !.status = "Stopped", !.dependents = FALSE] EXCEPT !.status = "Running"]
              = [b EXCEPT !.dependents = FALSE]
        BY <3>0, <3>1 DEF Readings
      <4> QED BY <4>1, <4>2, <4>3, <4>4
    <3>2. CASE rows[i].action = "start" /\ b.status = "Stopped"
      <4>1. Effect(rows[i], b) = [b EXCEPT !.status = "Running"]
        BY <3>2 DEF Effect
      <4>2. Effect(rows[u], Effect(rows[i], b))
              = [Effect(rows[i], b) EXCEPT !.status = "Stopped", !.dependents = FALSE]
        BY <2>6, <3>2 DEF Effect
      <4>3. ToRestore(i) = [b EXCEPT !.dependents = FALSE]
        BY <3>2 DEF ToRestore
      <4>4. [[b EXCEPT !.status = "Running"] EXCEPT !.status = "Stopped", !.dependents = FALSE]
              = [b EXCEPT !.dependents = FALSE]
        BY <3>0, <3>2 DEF Readings
      <4> QED BY <4>1, <4>2, <4>3, <4>4
    <3>3. CASE rows[i].action = "startup"
      <4>1. Effect(rows[i], b) = [b EXCEPT !.startType = rows[i].target]
        BY <3>3 DEF Effect
      <4>2. Effect(rows[u], Effect(rows[i], b)) = [Effect(rows[i], b) EXCEPT !.startType = b.startType]
        BY <2>6, <3>3 DEF Effect
      <4>3. ToRestore(i) = b
        BY <3>3 DEF ToRestore
      <4> QED BY <3>0, <4>1, <4>2, <4>3 DEF Readings
    <3>4. ChangedSomething(i) /\ ~CameFromPause(i) =>
            \/ rows[i].action = "stop" /\ b.status = "Running"
            \/ rows[i].action = "start" /\ b.status = "Stopped"
            \/ rows[i].action = "startup"
      BY <2>5 DEF ChangedSomething, CameFromPause, IsReading, Statuses
    <3> QED BY <3>1, <3>2, <3>3, <3>4
  <2> QED BY <2>2, <2>3, <2>7
<1> QED BY <1>1, UndoInvariance, PTL

\* The Undo Center tells the truth (listUndoableServiceActions in dataStore.ts): unless the
\* writes of a mutation were cut short, what it lists can be undone, and what succeeded has
\* a rollback that says whether it can.
THEOREM ListIsUndoable == Spec => []ListedIsUndoable
<1>1. UndoInv => ListedIsUndoable
  BY DEF UndoInv, RowIsWritten, ListedIsUndoable, Listed, Undoable
<1> QED BY <1>1, UndoInvariance, PTL

\* No action is undone a second time to the knowledge of the application: when an undo is
\* begun, no earlier undo of the same row has succeeded, unless its writes were cut short.
THEOREM UndoneOnce == Spec => UndoneOnceToOurKnowledge
<1>1. ASSUME UndoInv, [Next]_vars
      PROVE  \A u, v \in Rows :
               (/\ rows[u] = NoRow /\ rows'[u] # NoRow /\ rows'[u].undoes # 0
                /\ rows[v].undoes = rows'[u].undoes /\ rows[v].status = "success")
                 => v \in torn
  <2>1. SUFFICES ASSUME NEW u \in Rows, NEW v \in Rows,
                        rows[u] = NoRow, rows'[u] # NoRow, rows'[u].undoes # 0,
                        rows[v].undoes = rows'[u].undoes, rows[v].status = "success"
        PROVE  v \in torn
    OBVIOUS
  <2>2. PICK c \in Rows : Opened(c)
    BY <1>1, <2>1, OnlyOpeningAdds
  <2>3. PICK m \in Mutations, i \in 0..MaxRows :
          /\ Opens(c, m, i)
          /\ i # 0 => i \in Rows /\ Undoable(rows[i]) /\ m = Reverse(rows[i])
    BY <1>1, <2>2, OpenedIs
  <2>4. u = c /\ rows'[u] = NewRow(m, i)
    BY <1>1, <2>1, <2>3 DEF Opens, UndoInv, TypeOK
  <2>5. rows'[u].undoes = i
    BY <2>4, NewRowType
  <2>6. ~rows[i].reverted
    BY <2>1, <2>3, <2>5 DEF Undoable
  <2> QED BY <1>1, <2>1, <2>5, <2>6 DEF UndoInv, RowIsWritten
<1> QED BY <1>1, UndoInvariance, PTL DEF Spec, UndoneOnceToOurKnowledge
=============================================================================
