---------------------------- MODULE BatchInsert ----------------------------
(***************************************************************************)
(* One call of a generated function with the batch_insert option:          *)
(* makeDBFuncContext builds the statement of each row from the template,   *)
(* prepares it and executes it, on a connection of its own or on the       *)
(* transaction of its context, and closes statements and connection by     *)
(* deferred calls.                                                         *)
(*                                                                         *)
(* A row stands for what templateBuild makes of it: the SQL text it        *)
(* renders, with the arguments of that row, or a failure.  With the        *)
(* not_prepare option the arguments are part of the text.                  *)
(***************************************************************************)
EXTENDS Integers, Sequences

CONSTANTS
  Sql,          \* texts the rows of a batch render to
  NoSql,        \* the empty text: op.sql before the first row is built
  Fails,        \* a row templateSql.Execute fails on: op keeps the last row's text
  Loses,        \* a row util.InterpolateParams fails on: op.sql becomes empty
  MaxRows,      \* bound: rows of a batch
  DriverFails   \* TRUE: connecting, preparing and executing may fail

ASSUME RowsAssumption ==
  /\ MaxRows \in Nat /\ DriverFails \in BOOLEAN
  /\ NoSql \notin Sql /\ Fails \notin Sql \cup {NoSql} /\ Loses \notin Sql \cup {NoSql, Fails}

Row   == Sql \cup {Fails, Loses}
Batch == UNION {[1..n -> Row] : n \in 0..MaxRows}

VARIABLES
  req,      \* the call: rows, in a transaction?, error result?, acceptable function and parameter?
  pc,
  conn,     \* a pooled connection is held
  offset,   \* op.offset: rows taken
  sql,      \* op.sql
  row,      \* the row op.sql and op.args were rendered from, 0 before the first
  change,   \* changeOp took a row in this round
  preSql,   \* the text prepared last
  stmts,    \* keys of stmtMap: texts with an open statement
  stmt,     \* text of op.stmt
  sent,     \* executions the driver accepted: row and text of the statement
  outcome   \* "none", "ok", "error" (returned), "panic" or "index" (panicked)

vars == <<req, pc, conn, offset, sql, row, change, preSql, stmts, stmt, sent, outcome>>
-----------------------------------------------------------------------------
Size == Len(req.rows)
Goto(place) == pc' = place

Init ==
  /\ req \in [rows : Batch, inTx : BOOLEAN, hasErr : BOOLEAN, valid : BOOLEAN]
  /\ pc = "start" /\ conn = FALSE /\ offset = 0
  /\ sql = NoSql /\ row = 0 /\ change = FALSE
  /\ preSql = NoSql /\ stmts = {} /\ stmt = NoSql
  /\ sent = <<>> /\ outcome = "none"

\* handleErr: the error is returned, or thrown by a function without an error result.
HandleErr == outcome' = IF req.hasErr THEN "error" ELSE "panic"

UseTx ==
  /\ pc = "start" /\ req.inTx
  /\ Goto("check")
  /\ UNCHANGED <<req, conn, offset, sql, row, change, preSql, stmts, stmt, sent, outcome>>

OpenConn ==
  /\ pc = "start" /\ ~req.inTx
  /\ conn' = TRUE /\ Goto("check")
  /\ UNCHANGED <<req, offset, sql, row, change, preSql, stmts, stmt, sent, outcome>>

\* handleErr finds results not yet allocated.
OpenConnFails ==
  /\ pc = "start" /\ ~req.inTx /\ DriverFails
  /\ outcome' = (IF req.hasErr THEN "index" ELSE "panic") /\ Goto("done")
  /\ UNCHANGED <<req, conn, offset, sql, row, change, preSql, stmts, stmt, sent>>

\* Only a function without other results, called with a slice that is not empty.
Check ==
  /\ pc = "check"
  /\ IF req.valid /\ Size > 0
     THEN Goto("change") /\ UNCHANGED outcome
     ELSE Goto("closeConn") /\ HandleErr
  /\ UNCHANGED <<req, conn, offset, sql, row, change, preSql, stmts, stmt, sent>>

\* templateBuild of row i; changeOp drops its error.
Build(i) ==
  \/ req.rows[i] \in Sql /\ sql' = req.rows[i] /\ row' = i
  \/ req.rows[i] = Fails /\ UNCHANGED <<sql, row>>
  \/ req.rows[i] = Loses /\ sql' = NoSql /\ UNCHANGED row

ChangeOpSkips ==
  /\ pc = "change"
  /\ IF offset < Size - 1
     THEN change' = TRUE /\ offset' = offset + 1 /\ Build(offset + 1)
     ELSE change' = FALSE /\ UNCHANGED <<offset, sql, row>>
  /\ Goto("prepare")
  /\ UNCHANGED <<req, conn, preSql, stmts, stmt, sent, outcome>>
ChangeOpStays ==
  /\ pc = "change"
  /\ IF offset < Size
     THEN /\ change' = TRUE /\ Build(offset + 1)
          /\ offset' = IF sql' = NoSql THEN offset ELSE offset + 1
     ELSE change' = FALSE /\ UNCHANGED <<offset, sql, row>>
  /\ Goto("prepare")
  /\ UNCHANGED <<req, conn, preSql, stmts, stmt, sent, outcome>>
\* changeOp takes the next row, or leaves op as it is after the last one.
ChangeOp ==
  /\ pc = "change"
  /\ IF offset < Size
     THEN change' = TRUE /\ offset' = offset + 1 /\ Build(offset + 1)
     ELSE change' = FALSE /\ UNCHANGED <<offset, sql, row>>
  /\ Goto("prepare")
  /\ UNCHANGED <<req, conn, preSql, stmts, stmt, sent, outcome>>

\* A text is prepared when it differs from the last one and that one was never prepared,
\* which can be the case only once.
NeedsStmt == preSql # sql /\ preSql \notin stmts

Prepare ==
  /\ pc = "prepare"
  /\ \/ ~NeedsStmt /\ UNCHANGED <<preSql, stmts, stmt>>
     \/ /\ NeedsStmt /\ stmt = NoSql   \* else GetDB yields op.stmt, which cannot prepare
        /\ preSql' = sql /\ stmts' = stmts \cup {sql} /\ stmt' = sql
  /\ Goto("exec")
  /\ UNCHANGED <<req, conn, offset, sql, row, change, sent, outcome>>

PrepareFails ==
  /\ pc = "prepare" /\ NeedsStmt /\ (DriverFails \/ stmt # NoSql)
  /\ HandleErr /\ Goto("closeStmts")
  /\ UNCHANGED <<req, conn, offset, sql, row, change, preSql, stmts, stmt, sent>>

\* The round ends: the loop goes on while changeOp takes rows.
EndRound ==
  IF change THEN Goto("change") /\ UNCHANGED outcome
  ELSE Goto("closeStmts") /\ outcome' = "ok"

ExecBug ==
  /\ pc = "exec"
  /\ sent' = IF stmts # {} THEN Append(sent, [row |-> row, sql |-> stmt]) ELSE sent
  /\ EndRound
  /\ UNCHANGED <<req, conn, offset, sql, row, change, preSql, stmts, stmt>>
\* stmt.ExecContext with the arguments of the row, if its text has a statement.
Exec ==
  /\ pc = "exec"
  /\ IF sql \in stmts
     THEN stmt' = sql /\ sent' = Append(sent, [row |-> row, sql |-> sql])
     ELSE UNCHANGED <<stmt, sent>>
  /\ EndRound
  /\ UNCHANGED <<req, conn, offset, sql, row, change, preSql, stmts>>

ExecFails ==
  /\ pc = "exec" /\ sql \in stmts /\ DriverFails
  /\ stmt' = sql
  /\ HandleErr /\ Goto("closeStmts")
  /\ UNCHANGED <<req, conn, offset, sql, row, change, preSql, stmts, sent>>

CloseStmtsBug ==
  /\ pc = "closeStmts"
  /\ conn' = FALSE /\ Goto("closeConn")
  /\ UNCHANGED <<req, stmts, offset, sql, row, change, preSql, stmt, sent, outcome>>
\* The deferred calls, last deferred first, on return and on panic alike.
CloseStmts ==
  /\ pc = "closeStmts"
  /\ stmts' = {} /\ Goto("closeConn")
  /\ UNCHANGED <<req, conn, offset, sql, row, change, preSql, stmt, sent, outcome>>

CloseConn ==
  /\ pc = "closeConn"
  /\ conn' = FALSE /\ Goto("done")
  /\ UNCHANGED <<req, offset, sql, row, change, preSql, stmts, stmt, sent, outcome>>

Finished == pc = "done" /\ UNCHANGED vars

Step == \/ UseTx \/ OpenConn \/ OpenConnFails \/ Check \/ ChangeOp \/ Prepare \/ PrepareFails
        \/ Exec \/ ExecFails \/ CloseStmts \/ CloseConn
Next == Step \/ Finished

Spec == Init /\ [][Next]_vars
\* A call that has started runs on: no step of it waits for another goroutine but for the
\* driver, which answers or fails.
FairSpec == Spec /\ WF_vars(Step)
-----------------------------------------------------------------------------
\* Type invariant; op.stmt is one of the texts prepared.
TypeOK ==
  /\ req \in [rows : Batch, inTx : BOOLEAN, hasErr : BOOLEAN, valid : BOOLEAN]
  /\ pc \in {"start", "check", "change", "prepare", "exec", "closeStmts", "closeConn", "done"}
  /\ conn \in BOOLEAN /\ offset \in 0..Size /\ row \in 0..offset /\ change \in BOOLEAN
  /\ sql \in Sql \cup {NoSql} /\ preSql \in Sql \cup {NoSql} /\ stmt \in Sql \cup {NoSql}
  /\ stmts \subseteq Sql
  /\ sent \in Seq([row : 1..MaxRows, sql : Sql])
  /\ outcome \in {"none", "ok", "error", "panic", "index"}

\* No row is executed with the statement of another: whatever failing rows and changes of
\* text came before, op.args and the statement found for op.sql belong together.
RowMatchesStmt == \A i \in DOMAIN sent : sent[i].sql = req.rows[sent[i].row]

\* The statements are closed before the connection they were prepared on goes back to
\* the pool, and both are released however the call ends.
Released ==
  /\ stmts # {} => conn \/ req.inTx
  /\ pc = "done" => stmts = {} /\ ~conn

\* A call ends, whatever its rows render to.
Terminates == <>(pc = "done")

\* What makes the invariants above inductive: what op holds is a row and its text, and the
\* statements exist only while the place they were prepared on is held.
LoopInv ==
  /\ sql # NoSql => row >= 1 /\ sql = req.rows[row]
  /\ pc \in {"start", "check"} => offset = 0 /\ sent = <<>> /\ sql = NoSql /\ preSql = NoSql /\ stmt = NoSql
  /\ pc \in {"start", "check", "closeConn", "done"} => stmts = {}
  /\ pc \in {"change", "prepare", "exec"} /\ preSql # NoSql => preSql \in stmts
  /\ pc \in {"start", "done"} => ~conn
  /\ pc \notin {"start", "done", "closeConn"} => conn \/ req.inTx
  /\ pc \in {"start", "check", "change", "prepare", "exec"} <=> outcome = "none"
  /\ pc \in {"change", "prepare", "exec", "closeStmts"} \/ outcome = "ok" => Size > 0

\* Every row renders to one text and none fails.
UniformRows == \A i \in 1..Size : req.rows[i] \in Sql /\ req.rows[i] = req.rows[1]

Status == IF pc # "done" THEN "running" ELSE IF outcome = "ok" THEN "ok" ELSE "failed"
Arrived == [i \in 1..Len(sent) |-> sent[i].row]
\* Seen from the contract: batches of several texts never leave its initial state.
AbsSize    == IF UniformRows THEN Size ELSE 0
AbsArrived == IF UniformRows THEN Arrived ELSE <<>>
AbsStatus  == IF UniformRows THEN Status ELSE "running"
Abstract == INSTANCE BatchContract WITH size <- AbsSize, arrived <- AbsArrived, status <- AbsStatus
\* A batch whose rows render to one text delivers them in order and without gaps; nothing
\* but the last row is ever executed twice, and success means that all have arrived.
Contract == Abstract!Spec

\* The progress of a batch of one text: the executions so far are the rows taken, except
\* for the one in hand; after the last row it is the last one again.
UniformInv ==
  /\ UniformRows
  /\ pc = "change" => Len(sent) = offset /\ row = offset /\ (offset > 0 => sql = req.rows[1])
  /\ pc \in {"prepare", "exec"} => row = offset /\ sql = req.rows[1]
  /\ pc \in {"change", "prepare"} =>
       \/ preSql = NoSql /\ stmts = {} /\ stmt = NoSql
       \/ preSql = req.rows[1] /\ stmts = {req.rows[1]}
  /\ pc = "exec" => preSql = req.rows[1] /\ stmts = {req.rows[1]}
  /\ pc \in {"prepare", "exec"} => IF change THEN Len(sent) + 1 = offset
                                   ELSE Len(sent) = offset /\ offset = Size
  /\ outcome = "ok" => Len(sent) = Size + 1

\* What the option's name and the comment on it say: the batch is executed, each row once.
EachRowOnce ==
  pc = "done" /\ outcome = "ok" /\ (\A i \in DOMAIN req.rows : req.rows[i] \in Sql)
    => \A r \in 1..Size : \A i, j \in DOMAIN sent : sent[i].row = r /\ sent[j].row = r => i = j
=============================================================================
