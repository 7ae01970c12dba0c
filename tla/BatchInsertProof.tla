-------------------------- MODULE BatchInsertProof --------------------------
(***************************************************************************)
(* A batch of any rows never mixes statements and arguments and releases   *)
(* what it holds; a batch of one text implements BatchContract.            *)
(***************************************************************************)
EXTENDS BatchInsert, SequenceTheorems, TLAPS

USE RowsAssumption

\* The rows of a batch.
LEMMA BatchRows ==
  ASSUME NEW b \in Batch
  PROVE  Len(b) \in 0..MaxRows /\ DOMAIN b = 1..Len(b) /\ b \in Seq(Row)
<1>1. PICK n \in 0..MaxRows : b \in [1..n -> Row]
  BY DEF Batch
<1>2. b \in Seq(Row)
  BY <1>1, SeqDef
<1>3. DOMAIN b = 1..n
  BY <1>1
<1> QED
  BY <1>1, <1>2, <1>3, LenProperties

\* The request never changes, so neither does the number of rows.
LEMMA SizeFacts ==
  ASSUME TypeOK
  PROVE  Size \in 0..MaxRows /\ \A i \in 1..Size : req.rows[i] \in Row
<1>1. req.rows \in Batch
  BY DEF TypeOK
<1> QED
  BY <1>1, BatchRows DEF Size

\* The call starts within the invariants.
LEMMA InitInv == Init => TypeOK /\ LoopInv /\ RowMatchesStmt /\ Released
<1> SUFFICES ASSUME Init PROVE TypeOK /\ LoopInv /\ RowMatchesStmt /\ Released
  OBVIOUS
<1>1. req.rows \in Batch
  BY DEF Init
<1>2. Size \in 0..MaxRows
  BY <1>1, BatchRows DEF Size
<1>3. TypeOK
  <2>1. sent = <<>> /\ sent \in Seq([row : 1..MaxRows, sql : Sql])
    BY DEF Init
  <2>2. req \in [rows : Batch, inTx : BOOLEAN, hasErr : BOOLEAN, valid : BOOLEAN]
    BY DEF Init
  <2>3. /\ pc = "start" /\ conn = FALSE /\ offset = 0 /\ sql = NoSql /\ row = 0
        /\ change = FALSE /\ preSql = NoSql /\ stmts = {} /\ stmt = NoSql /\ outcome = "none"
    BY DEF Init
  <2>4. offset \in 0..Size /\ row \in 0..offset
    BY <1>2, <2>3
  <2>5. stmts \subseteq Sql
    BY <2>3
  <2>6. change \in BOOLEAN /\ conn \in BOOLEAN
    BY <2>3
  <2> QED
    BY <2>1, <2>2, <2>3, <2>4, <2>5, <2>6 DEF TypeOK
<1>4. LoopInv
  BY DEF Init, LoopInv
<1> QED
  BY <1>3, <1>4 DEF Init, RowMatchesStmt, Released

\* What an execution appends is a row and the text it was rendered to.
LEMMA ExecAppends ==
  ASSUME TypeOK, LoopInv, Exec, sql \in stmts
  PROVE  /\ [row |-> row, sql |-> sql] \in [row : 1..MaxRows, sql : Sql]
         /\ sql = req.rows[row]
         /\ sent' = Append(sent, [row |-> row, sql |-> sql])
<1>1. sql \in Sql /\ row >= 1 /\ sql = req.rows[row]
  BY DEF TypeOK, LoopInv
<1>2. row \in 1..MaxRows
  BY <1>1, SizeFacts DEF TypeOK
<1> QED
  BY <1>1, <1>2 DEF Exec

\* Every step keeps the types.
LEMMA TypeStep ==
  ASSUME TypeOK, LoopInv, Step PROVE TypeOK'
<1>1. Size \in 0..MaxRows /\ \A i \in 1..Size : req.rows[i] \in Row
  BY SizeFacts
<1>2. UNCHANGED req /\ Size' = Size
  BY DEF Step, UseTx, OpenConn, OpenConnFails, Check, ChangeOp, Prepare, PrepareFails, Exec,
     ExecFails, CloseStmts, CloseConn, Size
<1>3. offset \in 0..Size /\ row \in 0..offset
  BY DEF TypeOK
<1> USE DEF Goto, HandleErr
<1>4. CASE UseTx \/ OpenConn \/ OpenConnFails \/ Check \/ CloseStmts \/ CloseConn
  BY <1>2, <1>4 DEF TypeOK, UseTx, OpenConn, OpenConnFails, Check, CloseStmts, CloseConn
<1>5. CASE ChangeOp
  <2>1. /\ change' \in BOOLEAN /\ pc' = "prepare"
        /\ UNCHANGED <<req, conn, preSql, stmts, stmt, sent, outcome>>
    BY <1>5 DEF ChangeOp
  <2>2. CASE offset < Size
    <3>1. offset' = offset + 1 /\ Build(offset + 1) /\ offset + 1 \in 1..Size
      BY <1>1, <1>3, <1>5, <2>2 DEF ChangeOp
    <3>2. sql' \in Sql \cup {NoSql} /\ row' \in 0..offset'
      BY <1>1, <1>3, <3>1 DEF Build, TypeOK, Row
    <3> QED
      BY <1>1, <1>2, <1>3, <2>1, <3>1, <3>2 DEF TypeOK
  <2>3. CASE ~(offset < Size)
    BY <1>2, <1>5, <2>1, <2>3 DEF ChangeOp, TypeOK
  <2> QED
    BY <2>2, <2>3
<1>6. CASE Prepare
  <2>1. NeedsStmt => sql \in Sql
    <3>1. pc = "prepare"
      BY <1>6 DEF Prepare
    <3>2. NeedsStmt => preSql = NoSql
      BY <3>1 DEF NeedsStmt, LoopInv
    <3> QED
      BY <3>2 DEF NeedsStmt, TypeOK
  <2>2. /\ stmts' \subseteq Sql /\ stmt' \in Sql \cup {NoSql}
        /\ preSql' \in Sql \cup {NoSql}
    BY <1>6, <2>1 DEF Prepare, TypeOK
  <2> QED
    BY <1>2, <1>6, <2>2 DEF Prepare, TypeOK
<1>7. CASE PrepareFails
  BY <1>2, <1>7 DEF PrepareFails, TypeOK
<1>8. CASE Exec
  <2>1. sent' \in Seq([row : 1..MaxRows, sql : Sql])
    <3>1. CASE sql \in stmts
      <4> DEFINE e == [row |-> row, sql |-> sql]
      <4>1. e \in [row : 1..MaxRows, sql : Sql] /\ sent' = Append(sent, e)
        BY <1>8, <3>1, ExecAppends
      <4> HIDE DEF e
      <4>2. sent \in Seq([row : 1..MaxRows, sql : Sql])
        BY DEF TypeOK
      <4> QED
        BY <4>1, <4>2, AppendProperties
    <3>2. CASE sql \notin stmts
      BY <1>8, <3>2 DEF Exec, TypeOK
    <3> QED
      BY <3>1, <3>2
  <2>2. stmt' \in Sql \cup {NoSql} /\ pc' \in {"change", "closeStmts"}
        /\ outcome' \in {"none", "ok", "error", "panic", "index"}
    BY <1>8 DEF Exec, EndRound, TypeOK
  <2>3. UNCHANGED <<req, conn, offset, sql, row, change, preSql, stmts>>
    BY <1>8 DEF Exec
  <2> QED
    BY <1>2, <2>1, <2>2, <2>3 DEF TypeOK
<1>9. CASE ExecFails
  BY <1>2, <1>9 DEF ExecFails, TypeOK
<1> QED
  BY <1>4, <1>5, <1>6, <1>7, <1>8, <1>9 DEF Step

\* Every step keeps what relates the row to its statement.
LEMMA LoopStep ==
  ASSUME TypeOK, LoopInv, TypeOK', Step PROVE LoopInv'
<1>1. Size \in 0..MaxRows /\ offset \in 0..Size /\ row \in 0..offset
  BY SizeFacts DEF TypeOK
<1>2. UNCHANGED req /\ Size' = Size
  BY DEF Step, UseTx, OpenConn, OpenConnFails, Check, ChangeOp, Prepare, PrepareFails, Exec,
     ExecFails, CloseStmts, CloseConn, Size
<1> USE DEF Goto, HandleErr
<1>3. CASE UseTx \/ OpenConn \/ OpenConnFails
  BY <1>2, <1>3 DEF LoopInv, UseTx, OpenConn, OpenConnFails
<1>4. CASE Check
  BY <1>1, <1>2, <1>4 DEF LoopInv, Check
<1>5. CASE ChangeOp
  <2>1. sql' # NoSql => row' >= 1 /\ sql' = req.rows[row']
    <3>1. CASE offset < Size
      BY <1>1, <1>5, <3>1 DEF ChangeOp, Build, LoopInv
    <3>2. CASE ~(offset < Size)
      BY <1>5, <3>2 DEF ChangeOp, LoopInv
    <3> QED
      BY <3>1, <3>2
  <2> QED
    BY <1>2, <1>5, <2>1 DEF ChangeOp, LoopInv
<1>6. CASE Prepare
  BY <1>2, <1>6 DEF Prepare, NeedsStmt, LoopInv
<1>7. CASE PrepareFails
  BY <1>2, <1>7 DEF PrepareFails, LoopInv
<1>8. CASE Exec
  BY <1>2, <1>8 DEF Exec, EndRound, LoopInv
<1>9. CASE ExecFails
  BY <1>2, <1>9 DEF ExecFails, LoopInv
<1>10. CASE CloseStmts \/ CloseConn
  BY <1>2, <1>10 DEF CloseStmts, CloseConn, LoopInv
<1> QED
  BY <1>3, <1>4, <1>5, <1>6, <1>7, <1>8, <1>9, <1>10 DEF Step

\* Every step keeps rows with their own statements.
LEMMA RowMatchesStep ==
  ASSUME TypeOK, LoopInv, RowMatchesStmt, Step PROVE RowMatchesStmt'
<1>1. UNCHANGED req
  BY DEF Step, UseTx, OpenConn, OpenConnFails, Check, ChangeOp, Prepare, PrepareFails, Exec,
     ExecFails, CloseStmts, CloseConn
<1>2. CASE UNCHANGED sent
  BY <1>1, <1>2 DEF RowMatchesStmt
<1>3. CASE Exec /\ sql \in stmts
  <2> DEFINE e == [row |-> row, sql |-> sql]
             S == [row : 1..MaxRows, sql : Sql]
  <2>1. e \in S /\ e.sql = req.rows[e.row] /\ sent' = Append(sent, e) /\ sent \in Seq(S)
    BY <1>3, ExecAppends DEF TypeOK
  <2> HIDE DEF e, S
  <2>2. /\ DOMAIN sent = 1..Len(sent) /\ DOMAIN sent' = 1..(Len(sent) + 1) /\ Len(sent) \in Nat
        /\ \A i \in 1..Len(sent) : sent'[i] = sent[i]
        /\ sent'[Len(sent) + 1] = e
    BY <2>1, AppendProperties, LenProperties
  <2>3. ASSUME NEW i \in DOMAIN sent' PROVE sent'[i].sql = req.rows[sent'[i].row]
    BY <2>1, <2>2 DEF RowMatchesStmt
  <2> QED
    BY <1>1, <2>3 DEF RowMatchesStmt
<1> QED
  BY <1>2, <1>3 DEF Step, UseTx, OpenConn, OpenConnFails, Check, ChangeOp, Prepare,
     PrepareFails, Exec, ExecFails, CloseStmts, CloseConn

\* The four invariants hold together.
LEMMA Invariance == Spec => [](TypeOK /\ LoopInv /\ RowMatchesStmt /\ Released)
<1> DEFINE I == TypeOK /\ LoopInv /\ RowMatchesStmt
<1>1. Init => I
  BY InitInv
<1>2. I /\ [Next]_vars => I'
  <2> SUFFICES ASSUME I, [Next]_vars PROVE I'
    OBVIOUS
  <2>1. CASE Step
    BY <2>1, TypeStep, LoopStep, RowMatchesStep
  <2>2. CASE UNCHANGED vars
    BY <2>2 DEF vars, TypeOK, LoopInv, RowMatchesStmt, Size
  <2> QED
    BY <2>1, <2>2 DEF Next, Finished
<1>3. I => Released
  BY DEF LoopInv, Released
<1> QED
  BY <1>1, <1>2, <1>3, PTL DEF Spec

\* op.offset, op.sql and op.stmt stay within the batch (makeDBFuncContext, changeOp).
THEOREM TypeCorrect == Spec => []TypeOK
BY Invariance, PTL

\* However rows fail and texts change, no row is executed with another row's statement
\* (makeDBFuncContext, execution loop).
THEOREM StatementsMatchRows == Spec => []RowMatchesStmt
BY Invariance, PTL

\* Statements are closed before their connection, and both always are
\* (makeDBFuncContext, deferred calls).
THEOREM EverythingReleased == Spec => []Released
BY Invariance, PTL
-----------------------------------------------------------------------------
\* The numbers the progress of a batch of one text is counted with.
LEMMA SentFacts ==
  ASSUME TypeOK PROVE Len(sent) \in Nat /\ DOMAIN sent = 1..Len(sent)
<1>1. sent \in Seq([row : 1..MaxRows, sql : Sql])
  BY DEF TypeOK
<1> QED
  BY <1>1, LenProperties

\* A batch of one text starts with nothing sent.
LEMMA UniformInit == UniformRows /\ Init => UniformInv
BY DEF Init, UniformInv

\* In a batch of one text every round finds its statement, so every round executes.
LEMMA UniformExec ==
  ASSUME TypeOK, LoopInv, UniformInv, Exec
  PROVE  /\ sql \in stmts /\ row = offset
         /\ sent' = Append(sent, [row |-> row, sql |-> sql])
         /\ Len(sent') = Len(sent) + 1
<1>1. sql \in stmts /\ row = offset
  BY DEF Exec, UniformInv
<1>2. sent' = Append(sent, [row |-> row, sql |-> sql])
  BY <1>1 DEF Exec
<1> DEFINE e == [row |-> row, sql |-> sql]
           S == [row : 1..MaxRows, sql : Sql]
<1>3. e \in S /\ sent \in Seq(S) /\ sent' = Append(sent, e)
  BY <1>1, <1>2, ExecAppends DEF TypeOK
<1> HIDE DEF e, S
<1>4. Len(sent') = Len(sent) + 1
  BY <1>3, AppendProperties
<1> QED
  BY <1>1, <1>2, <1>4

\* Every step keeps the count of a batch of one text.
LEMMA UniformStep ==
  ASSUME TypeOK, LoopInv, UniformInv, Step PROVE UniformInv'
<1>1. Size \in 0..MaxRows /\ offset \in 0..Size /\ row \in 0..offset /\ Len(sent) \in Nat
  BY SizeFacts, SentFacts DEF TypeOK
<1>2. UNCHANGED req /\ Size' = Size
  BY DEF Step, UseTx, OpenConn, OpenConnFails, Check, ChangeOp, Prepare, PrepareFails, Exec,
     ExecFails, CloseStmts, CloseConn, Size
<1>3. UniformRows'
  BY <1>2 DEF UniformInv, UniformRows
<1> USE DEF Goto, HandleErr
<1>4. CASE UseTx \/ OpenConn \/ OpenConnFails
  BY <1>2, <1>3, <1>4 DEF UniformInv, LoopInv, UseTx, OpenConn, OpenConnFails
<1>5. CASE Check
  <2>1. Len(sent) = 0 /\ offset = 0 /\ preSql = NoSql /\ stmts = {} /\ stmt = NoSql
        /\ row = 0
    BY <1>1, <1>5 DEF Check, LoopInv
  <2>2. pc' \in {"change", "closeConn"} /\ outcome' # "ok"
    BY <1>5 DEF Check, LoopInv
  <2> QED
    BY <1>2, <1>3, <1>5, <2>1, <2>2 DEF UniformInv, Check
<1>6. CASE ChangeOp
  <2>1. Len(sent) = offset /\ outcome = "none" /\ Size > 0 /\ pc' = "prepare"
    BY <1>6 DEF ChangeOp, UniformInv, LoopInv
  <2>2. UNCHANGED <<preSql, stmts, stmt, sent, outcome>>
    BY <1>6 DEF ChangeOp
  <2>3. CASE offset < Size
    <3>1. change' = TRUE /\ offset' = offset + 1 /\ Build(offset + 1)
      BY <1>6, <2>3 DEF ChangeOp
    <3>2. req.rows[offset + 1] \in Sql /\ req.rows[offset + 1] = req.rows[1]
      BY <1>1, <2>3 DEF UniformInv, UniformRows
    <3>3. sql' = req.rows[1] /\ row' = offset'
      BY <3>1, <3>2 DEF Build
    <3> QED
      BY <1>1, <1>2, <1>3, <1>6, <2>1, <2>2, <3>1, <3>3 DEF UniformInv, ChangeOp
  <2>4. CASE ~(offset < Size)
    <3>1. UNCHANGED <<offset, sql, row>> /\ change' = FALSE /\ offset = Size
      BY <1>1, <1>6, <2>4 DEF ChangeOp
    <3>2. row = offset /\ sql = req.rows[1]
      BY <1>1, <1>6, <2>1, <3>1 DEF ChangeOp, UniformInv
    <3> QED
      BY <1>1, <1>2, <1>3, <1>6, <2>1, <2>2, <3>1, <3>2 DEF UniformInv, ChangeOp
  <2> QED
    BY <2>3, <2>4
<1>7. CASE Prepare
  <2>1. /\ Len(sent) \in Nat /\ pc = "prepare" /\ pc' = "exec"
        /\ row = offset /\ sql = req.rows[1] /\ outcome = "none"
    BY <1>1, <1>7 DEF Prepare, UniformInv, LoopInv
  <2>2. sql \in Sql
    BY <1>1, <1>7, <2>1 DEF UniformInv, UniformRows, LoopInv, Prepare
  <2>3. preSql' = req.rows[1] /\ stmts' = {req.rows[1]}
    <3>1. CASE preSql = NoSql /\ stmts = {} /\ stmt = NoSql
      BY <1>7, <2>1, <2>2, <3>1 DEF Prepare, NeedsStmt
    <3>2. CASE preSql = req.rows[1] /\ stmts = {req.rows[1]}
      BY <1>7, <2>1, <3>2 DEF Prepare, NeedsStmt
    <3> QED
      BY <1>7, <3>1, <3>2 DEF Prepare, UniformInv
  <2>4. UNCHANGED <<offset, sql, row, change, sent, outcome>>
    BY <1>7 DEF Prepare
  <2> QED
    BY <1>2, <1>3, <2>1, <2>3, <2>4 DEF UniformInv
<1>8. CASE Exec
  <2>1. sql \in stmts /\ row = offset /\ Len(sent') = Len(sent) + 1
    BY <1>8, UniformExec
  <2>2. /\ pc = "exec" /\ preSql = req.rows[1] /\ stmts = {req.rows[1]} /\ sql = req.rows[1]
        /\ IF change THEN Len(sent) + 1 = offset ELSE Len(sent) = offset /\ offset = Size
        /\ outcome = "none"
    BY <1>8 DEF Exec, UniformInv, LoopInv
  <2>3. UNCHANGED <<offset, sql, row, change, preSql, stmts>>
    BY <1>8 DEF Exec
  <2>4. CASE change
    <3>1. pc' = "change" /\ outcome' = "none"
      BY <1>8, <2>2, <2>4 DEF Exec, EndRound
    <3> QED
      BY <1>1, <1>2, <1>3, <2>1, <2>2, <2>3, <2>4, <3>1 DEF UniformInv
  <2>5. CASE ~change
    <3>1. pc' = "closeStmts" /\ outcome' = "ok"
      BY <1>8, <2>5 DEF Exec, EndRound
    <3> QED
      BY <1>1, <1>2, <1>3, <2>1, <2>2, <2>3, <2>5, <3>1 DEF UniformInv
  <2> QED
    BY <2>4, <2>5
<1>9. CASE PrepareFails \/ ExecFails
  BY <1>2, <1>3, <1>9 DEF UniformInv, LoopInv, PrepareFails, ExecFails
<1>10. CASE CloseStmts \/ CloseConn
  BY <1>2, <1>3, <1>10 DEF UniformInv, LoopInv, CloseStmts, CloseConn
<1> QED
  BY <1>4, <1>5, <1>6, <1>7, <1>8, <1>9, <1>10 DEF Step

\* The contract's initial state: nothing has arrived and the call runs.
LEMMA ContractInit == Init => Abstract!Init
<1> SUFFICES ASSUME Init PROVE Abstract!Init
  OBVIOUS
<1>1. req.rows \in Batch /\ pc = "start" /\ sent = <<>>
  BY DEF Init
<1>2. AbsSize \in 0..MaxRows
  <2>1. Size \in 0..MaxRows /\ 0 \in 0..MaxRows
    BY <1>1, BatchRows, RowsAssumption DEF Size
  <2> QED
    BY <2>1 DEF AbsSize
<1>3. Arrived = <<>>
  <2>1. Len(sent) = 0
    BY <1>1
  <2> QED
    BY <2>1 DEF Arrived
<1>4. Status = "running"
  BY <1>1 DEF Status
<1> QED
  BY <1>2, <1>3, <1>4 DEF Abstract!Init, AbsArrived, AbsStatus

\* Appending an execution appends its row to what has arrived.
LEMMA ArrivedAppends ==
  ASSUME TypeOK, NEW e \in [row : 1..MaxRows, sql : Sql], sent' = Append(sent, e)
  PROVE  Arrived' = Append(Arrived, e.row) /\ Len(Arrived) = Len(sent)
<1> DEFINE S == [row : 1..MaxRows, sql : Sql]
<1>1. sent \in Seq(S) /\ e \in S
  BY DEF TypeOK
<1> HIDE DEF S
<1>2. /\ Len(sent) \in Nat /\ Len(sent') = Len(sent) + 1 /\ sent'[Len(sent) + 1] = e
      /\ \A i \in 1..Len(sent) : sent'[i] = sent[i]
  BY <1>1, AppendProperties, LenProperties
<1>3. \A i \in 1..Len(sent) : sent[i].row \in Nat
  <2>1. \A i \in 1..Len(sent) : sent[i] \in S
    BY <1>1, ElementOfSeq
  <2> QED
    BY <2>1 DEF S
<1>4. Arrived \in Seq(Nat) /\ Len(Arrived) = Len(sent)
  BY <1>2, <1>3 DEF Arrived
<1>5. e.row \in Nat
  OBVIOUS
<1>6. Arrived' = [i \in 1..(Len(sent) + 1) |-> sent'[i].row]
  BY <1>2 DEF Arrived
<1>7. Append(Arrived, e.row) = [i \in 1..(Len(sent) + 1) |-> IF i = Len(sent) + 1 THEN e.row ELSE Arrived[i]]
  BY <1>2, <1>4, <1>5
<1>8. \A i \in 1..Len(sent) : Arrived[i] = sent[i].row
  BY DEF Arrived
<1> QED
  BY <1>2, <1>4, <1>6, <1>7, <1>8

\* Every step of a batch of one text delivers a row, delivers the last row again, ends the
\* batch, or is invisible to the database.
LEMMA ContractStep ==
  ASSUME TypeOK, LoopInv, UniformInv, Step
  PROVE  Abstract!Next \/ UNCHANGED <<Size, Arrived, Status>>
<1>0. UniformRows /\ UniformRows'
  BY UniformStep DEF UniformInv
<1>11. /\ AbsSize = Size /\ AbsArrived = Arrived /\ AbsStatus = Status
       /\ AbsSize' = Size' /\ AbsArrived' = Arrived' /\ AbsStatus' = Status'
  BY <1>0 DEF AbsSize, AbsArrived, AbsStatus
<1>1. Size \in 0..MaxRows /\ offset \in 0..Size /\ row \in 0..offset /\ Len(sent) \in Nat
  BY SizeFacts, SentFacts DEF TypeOK
<1>2. UNCHANGED Size
  BY DEF Step, UseTx, OpenConn, OpenConnFails, Check, ChangeOp, Prepare, PrepareFails, Exec,
     ExecFails, CloseStmts, CloseConn, Size
<1> USE DEF Goto, HandleErr
<1>3. CASE UseTx \/ OpenConn \/ Check \/ ChangeOp \/ Prepare \/ PrepareFails \/ ExecFails \/ CloseStmts
  <2>1. UNCHANGED sent /\ pc # "done" /\ pc' # "done"
    BY <1>3 DEF UseTx, OpenConn, Check, ChangeOp, Prepare, PrepareFails, ExecFails, CloseStmts
  <2> QED
    BY <1>2, <2>1 DEF Arrived, Status
<1>4. CASE OpenConnFails
  <2>1. UNCHANGED sent /\ pc = "start" /\ pc' = "done" /\ outcome' # "ok"
    BY <1>4 DEF OpenConnFails
  <2>2. UNCHANGED Arrived /\ Status = "running" /\ Status' = "failed"
    BY <2>1 DEF Arrived, Status
  <2> QED
    BY <1>11, <1>2, <2>2 DEF Abstract!Next, Abstract!Fail
<1>5. CASE Exec
  <2> DEFINE e == [row |-> row, sql |-> sql]
  <2>1. row = offset /\ e \in [row : 1..MaxRows, sql : Sql] /\ sent' = Append(sent, e)
    BY <1>5, UniformExec, ExecAppends
  <2>2. Arrived' = Append(Arrived, row) /\ Len(Arrived) = Len(sent)
    BY <2>1, ArrivedAppends
  <2>3. pc = "exec" /\ Status = "running" /\ Status' = "running" /\ Size > 0
    BY <1>5 DEF Exec, EndRound, Status, LoopInv
  <2>4. IF change THEN Len(sent) + 1 = offset ELSE Len(sent) = offset /\ offset = Size
    BY <2>3 DEF UniformInv
  <2>5. CASE change
    BY <1>11, <1>1, <1>2, <2>1, <2>2, <2>3, <2>4, <2>5 DEF Abstract!Next, Abstract!Deliver
  <2>6. CASE ~change
    BY <1>11, <1>1, <1>2, <2>1, <2>2, <2>3, <2>4, <2>6 DEF Abstract!Next, Abstract!Redeliver
  <2> QED
    BY <2>5, <2>6
<1>6. CASE CloseConn
  <2>1. UNCHANGED <<sent, outcome>> /\ pc = "closeConn" /\ pc' = "done"
    BY <1>6 DEF CloseConn
  <2>2. UNCHANGED Arrived /\ Status = "running" /\ Status' = IF outcome = "ok" THEN "ok" ELSE "failed"
    BY <2>1 DEF Arrived, Status
  <2>3. CASE outcome = "ok"
    <3>1. Len(sent) = Size + 1 /\ Len(Arrived) = Len(sent)
      BY <1>1, <2>3 DEF UniformInv, Arrived
    <3>2. Size > 0
      BY <1>1, <2>1, <2>3 DEF LoopInv
    <3> QED
      BY <1>11, <1>1, <1>2, <2>2, <2>3, <3>1, <3>2 DEF Abstract!Next, Abstract!Succeed
  <2>4. CASE outcome # "ok"
    BY <1>11, <1>2, <2>2, <2>4 DEF Abstract!Next, Abstract!Fail
  <2> QED
    BY <2>3, <2>4
<1> QED
  BY <1>3, <1>4, <1>5, <1>6 DEF Step

\* A batch of several texts is nothing to the contract.
LEMMA OthersUnseen ==
  ASSUME ~UniformRows, ~UniformRows' PROVE UNCHANGED <<AbsSize, AbsArrived, AbsStatus>>
BY DEF AbsSize, AbsArrived, AbsStatus

\* Whether a batch is one of one text is settled by the call.
LEMMA UniformFixed == ASSUME [Next]_vars PROVE UniformRows' <=> UniformRows
<1>1. UNCHANGED req
  BY DEF Next, vars, Finished, Step, UseTx, OpenConn, OpenConnFails, Check, ChangeOp, Prepare,
     PrepareFails, Exec, ExecFails, CloseStmts, CloseConn
<1> QED
  BY <1>1 DEF UniformRows, Size

\* A batch whose rows render to one text implements the contract: rows in order, none left
\* out, the last one possibly again, success only after all (makeDBFuncContext, batch loop).
THEOREM ContractImplemented == Spec => Contract
<1> DEFINE I == TypeOK /\ LoopInv /\ (UniformRows => UniformInv)
<1>1. Init => I
  BY InitInv, UniformInit
<1>2. I /\ [Next]_vars => I'
  <2> SUFFICES ASSUME I, [Next]_vars PROVE I'
    OBVIOUS
  <2>1. CASE Step
    BY <2>1, TypeStep, LoopStep, UniformStep, UniformFixed
  <2>2. CASE UNCHANGED vars
    BY <2>2 DEF vars, TypeOK, LoopInv, UniformInv, UniformRows, Size
  <2> QED
    BY <2>1, <2>2 DEF Next, Finished
<1>3. Init => Abstract!Init
  BY ContractInit
<1>4. I /\ [Next]_vars => [Abstract!Next]_(Abstract!vars)
  <2> SUFFICES ASSUME I, [Next]_vars PROVE Abstract!Next \/ UNCHANGED Abstract!vars
    OBVIOUS
  <2>0. UniformRows' <=> UniformRows
    BY UniformFixed
  <2>1. CASE ~UniformRows
    BY <2>0, <2>1, OthersUnseen DEF Abstract!vars
  <2>2. CASE UniformRows /\ Step
    <3>1. Abstract!Next \/ UNCHANGED <<Size, Arrived, Status>>
      BY <2>2, ContractStep
    <3> QED
      BY <2>0, <2>2, <3>1 DEF Abstract!vars, AbsSize, AbsArrived, AbsStatus
  <2>3. CASE UNCHANGED vars
    BY <2>3 DEF vars, Abstract!vars, AbsSize, AbsArrived, AbsStatus, UniformRows, Size, Arrived, Status
  <2> QED
    BY <2>1, <2>2, <2>3 DEF Next, Finished
<1> HIDE DEF I
<1> QED
  BY <1>1, <1>2, <1>3, <1>4, PTL DEF Spec, Contract, Abstract!Spec
=============================================================================
