------------------------------ MODULE TxFrames ------------------------------
(***************************************************************************)
(* Transactions, panics and pooled connections of tgsql.                    *)
(*                                                                         *)
(* A task is a goroutine running user code written the way the package     *)
(* expects: a function opens a FRAME with `ctx, err = tdb.Begin(ctx)` and   *)
(* `defer tdb.AutoCommit(ctx, &err)`, or with `ctx = tdb.NewRecover(ctx)`   *)
(* and `defer tdb.Recover(ctx, &err)`; in it the user calls generated      *)
(* database functions, explicit Commit / Rollback and further such          *)
(* functions, and may panic.  A frame is popped only after its deferred    *)
(* handler has run.                                                        *)
(*                                                                         *)
(* A context is the pair of values the package looks up in it: the cell     *)
(* holding the *bool of NewRecover and the transaction of NewSqlTx.         *)
(* database/sql (the pool, Tx, context cancellation) is external and is     *)
(* modelled by what the package can observe of it.                          *)
(***************************************************************************)
EXTENDS Naturals

CONSTANTS
  Task,         \* goroutines running user code
  Conn,         \* connections of the pool (MaxOpenConns)
  MaxOps,       \* bound: user operations one task performs
  MaxDepth,     \* bound: frames a task nests
  SharedCell,   \* recover cell of a context several tasks were started from
  NoCell,       \* a context without NewRecover
  NoTx,         \* a context without NewSqlTx
  Free,         \* holder of an idle connection
  Disciplined,  \* TRUE: every call is given the context of its own frame
  Panics,       \* kinds of value user code panics with: "error", "other"
  Hasty         \* tasks for which acquiring a connection may fail (dial error, deadline)

Id == Task \X (1..MaxOps)   \* identity of what a task's n-th operation creates

ASSUME BoundsAssumption == MaxOps \in Nat /\ MaxDepth \in Nat \ {0}
ASSUME FlagsAssumption ==
  /\ Disciplined \in BOOLEAN /\ Hasty \subseteq Task
  /\ Panics \subseteq {"error", "other"}
ASSUME DistinctAssumption ==
  /\ Task \cap Id = {} /\ Free \notin Task \cup Id
  /\ NoTx \notin Id /\ SharedCell \notin Id /\ NoCell \notin Id \cup {SharedCell}

Cell == Id \cup {SharedCell}
Ctx  == [cell : Cell \cup {NoCell}, tx : Id \cup {NoTx}]
Background == [cell |-> NoCell, tx |-> NoTx]

\* The kinds of call: a generated function with an error result, one without,
\* and SqlTemplate.Query / Exec.
CallKind == {"errfunc", "panicfunc", "sqltemplate"}
\* A panic value: the *DBFuncPanicError of recoverLog, the runtime.Error of an index out
\* of range or a failed type assertion, a user's error value, a user's other value.
PanicKind == {"db", "runtime", "error", "other"}

Frame   == [guard : {"none", "autocommit", "recover"}, ctx : Ctx, err : BOOLEAN]
NoFrame == [guard |-> "none", ctx |-> Background, err |-> FALSE]
NoCall  == [kind |-> "none", ctx |-> Background]

VARIABLES
  pc,      \* where the task is
  ops,     \* operations the task has performed
  base,    \* recover cell of the context the task was started with
  depth,   \* frames on the task's stack
  frame,   \* the frames; err says whether the frame's named error is non-nil
  call,    \* the database call in progress
  panic,   \* the value the task is panicking with
  flag,    \* the *bool of each recover cell
  tx,      \* state of each sql.Tx
  conn     \* who holds each connection

vars == <<pc, ops, base, depth, frame, call, panic, flag, tx, conn>>
-----------------------------------------------------------------------------
Top(t)   == frame[t][depth[t]]
CtxOf(t) == IF depth[t] = 0 THEN [cell |-> base[t], tx |-> NoTx] ELSE Top(t).ctx

\* FromRecover, FromSqlTx and GetEnableSqlTx: NewSqlTx sets both keys at once.
FromRecover(ctx)    == ctx.cell # NoCell
FromSqlTx(ctx)      == ctx.tx # NoTx
GetEnableSqlTxBug(ctx) == FALSE
GetEnableSqlTx(ctx) == ctx.tx # NoTx

NewRecoverBug(ctx, id) == ctx
\* NewRecover keeps the cell a context already carries.
NewRecover(ctx, id) == IF FromRecover(ctx) THEN ctx ELSE [ctx EXCEPT !.cell = id]
NewSqlTx(ctx, id)   == [ctx EXCEPT !.tx = id]

enableRecoverBug(ctx) == flag
enableRecover(ctx) ==
  IF FromRecover(ctx) THEN [flag EXCEPT ![ctx.cell] = TRUE] ELSE flag

Usable(ctx) == FromSqlTx(ctx) => tx[ctx.tx] = "active"

Released(h) == [c \in Conn |-> IF conn[c] = h THEN Free ELSE conn[c]]
EndTx(x, state) == tx' = [tx EXCEPT ![x] = state] /\ conn' = Released(x)

\* The user assigns the outcome e of what it called to its named error, or drops it.
TakeErr(t, e) ==
  IF depth[t] = 0 THEN UNCHANGED frame
  ELSE \E v \in {e, Top(t).err} : frame' = [frame EXCEPT ![t][depth[t]].err = v]

CanAct(t) == pc[t] = "user" /\ ops[t] < MaxOps
Count(t)  == ops' = [ops EXCEPT ![t] = @ + 1]
Goto(t, place) == pc' = [pc EXCEPT ![t] = place]

Push(t, guard, ctx) ==
  /\ depth' = [depth EXCEPT ![t] = @ + 1]
  /\ frame' = [frame EXCEPT ![t][depth[t] + 1] =
                 [guard |-> guard, ctx |-> ctx, err |-> FALSE]]

\* A panic at depth 0 leaves the goroutine.
Raise(t, kind) ==
  /\ panic' = [panic EXCEPT ![t] = kind]
  /\ Goto(t, IF depth[t] = 0 THEN "dead" ELSE "panicking")
-----------------------------------------------------------------------------
Init ==
  /\ pc = [t \in Task |-> "user"]
  /\ ops = [t \in Task |-> 0]
  /\ base \in [Task -> {NoCell, SharedCell}]
  /\ depth = [t \in Task |-> 0]
  /\ frame = [t \in Task |-> [d \in 1..MaxDepth |-> NoFrame]]
  /\ call = [t \in Task |-> NoCall]
  /\ panic = [t \in Task |-> "none"]
  /\ flag = [c \in Cell |-> FALSE]
  /\ tx = [x \in Id |-> "unused"]
  /\ conn = [c \in Conn |-> Free]

\* Begin in a context that already carries a transaction joins it.
BeginJoins(t) ==
  /\ CanAct(t) /\ depth[t] < MaxDepth
  /\ FromSqlTx(CtxOf(t))
  /\ Push(t, "autocommit", NewRecover(CtxOf(t), <<t, ops[t] + 1>>))
  /\ Count(t)
  /\ UNCHANGED <<pc, base, call, panic, flag, tx, conn>>

\* Begin elsewhere asks the pool for a connection.
BeginWaits(t) ==
  /\ CanAct(t) /\ depth[t] < MaxDepth
  /\ ~FromSqlTx(CtxOf(t))
  /\ Count(t) /\ Goto(t, "begin")
  /\ UNCHANGED <<base, depth, frame, call, panic, flag, tx, conn>>

BeginOpens(t) ==
  LET id == <<t, ops[t]>> IN
  /\ pc[t] = "begin"
  /\ \E c \in Conn : conn[c] = Free /\ conn' = [conn EXCEPT ![c] = id]
  /\ tx' = [tx EXCEPT ![id] = "active"]
  /\ Push(t, "autocommit", NewSqlTx(NewRecover(CtxOf(t), id), id))
  /\ Goto(t, "user")
  /\ UNCHANGED <<ops, base, call, panic, flag>>

\* BeginTx returns (nil, err); the user's function gives up with that error.
BeginFails(t) ==
  /\ pc[t] = "begin" /\ t \in Hasty
  /\ TakeErr(t, TRUE) /\ Goto(t, "user")
  /\ UNCHANGED <<ops, base, depth, call, panic, flag, tx, conn>>

\* ctx = tdb.NewRecover(ctx); defer tdb.Recover(ctx, &err)
RecoverFrame(t) ==
  /\ CanAct(t) /\ depth[t] < MaxDepth
  /\ Push(t, "recover", NewRecover(CtxOf(t), <<t, ops[t] + 1>>))
  /\ Count(t)
  /\ UNCHANGED <<pc, base, call, panic, flag, tx, conn>>

\* A database call: on the transaction of its context, else on a pooled connection.
StartCall(t) ==
  /\ CanAct(t)
  /\ \E kind \in CallKind, ctx \in {CtxOf(t)} \cup IF Disciplined THEN {} ELSE {Background} :
       /\ call' = [call EXCEPT ![t] = [kind |-> kind, ctx |-> ctx]]
       /\ Goto(t, IF GetEnableSqlTx(ctx) THEN "incall" ELSE "getconn")
  /\ Count(t)
  /\ UNCHANGED <<base, depth, frame, panic, flag, tx, conn>>

GetConn(t) ==
  /\ pc[t] = "getconn"
  /\ \E c \in Conn : conn[c] = Free /\ conn' = [conn EXCEPT ![c] = t]
  /\ Goto(t, "incall")
  /\ UNCHANGED <<ops, base, depth, frame, call, panic, flag, tx>>

\* handleErr once results has been allocated: a function with an error result
\* returns the error, one without sets the recover flag and panics.
HandleErr(t) ==
  IF call[t].kind = "panicfunc"
  THEN Raise(t, "db") /\ flag' = enableRecover(call[t].ctx) /\ UNCHANGED frame
  ELSE TakeErr(t, TRUE) /\ Goto(t, "user") /\ UNCHANGED <<panic, flag>>

\* A panic inside a call that is none of handleErr's leaves the recover flag as it is.
RuntimePanic(t) == Raise(t, "runtime") /\ UNCHANGED <<frame, flag>>

\* tdb.db.Conn fails before results is allocated: handleErr of a function with an
\* error result indexes the nil slice.  SqlTemplate builds its statement and converts
\* its arguments before it asks for a connection: it reports a failure of these, or
\* panics in ConvertValue.
GetConnFails(t) ==
  /\ pc[t] = "getconn" /\ (t \in Hasty \/ call[t].kind = "sqltemplate")
  /\ \/ call[t].kind # "errfunc" /\ HandleErr(t)
     \/ call[t].kind # "panicfunc" /\ RuntimePanic(t)
  /\ call' = [call EXCEPT ![t] = NoCall]
  /\ UNCHANGED <<ops, base, depth, tx, conn>>

CallOk(t) ==
  /\ pc[t] = "incall" /\ Usable(call[t].ctx)
  /\ TakeErr(t, FALSE) /\ Goto(t, "user")
  /\ conn' = Released(t)
  /\ call' = [call EXCEPT ![t] = NoCall]
  /\ UNCHANGED <<ops, base, depth, panic, flag, tx>>

CallFailsBug(t) ==
  /\ pc[t] = "incall"
  /\ HandleErr(t) \/ RuntimePanic(t)
  /\ conn' = IF call[t].kind = "panicfunc" THEN conn ELSE Released(t)
  /\ call' = [call EXCEPT ![t] = NoCall]
  /\ UNCHANGED <<ops, base, depth, tx>>
\* Any failure after the connection is held: an error (template, conversion, statement,
\* scan, a transaction that is over) goes to handleErr, a runtime panic (ConvertValue
\* asserts the nil error of a registered converter) past it.  The deferred conn.Close
\* runs on return and on panic.
CallFails(t) ==
  /\ pc[t] = "incall"
  /\ HandleErr(t) \/ RuntimePanic(t)
  /\ conn' = Released(t)
  /\ call' = [call EXCEPT ![t] = NoCall]
  /\ UNCHANGED <<ops, base, depth, tx>>

UserPanics(t) ==
  /\ CanAct(t) /\ depth[t] > 0
  /\ \E kind \in Panics : Raise(t, kind)
  /\ Count(t)
  /\ UNCHANGED <<base, depth, frame, call, flag, tx, conn>>

\* tdb.Commit(ctx) and tdb.Rollback(ctx) called by the user: ErrTxDone on a
\* transaction that is over; a Commit the driver refuses loses the transaction.
UserEnds(t) ==
  LET x == CtxOf(t).tx IN
  /\ CanAct(t) /\ FromSqlTx(CtxOf(t))
  /\ \/ /\ tx[x] = "active"
        /\ \/ EndTx(x, "committed") /\ TakeErr(t, FALSE)
           \/ EndTx(x, "aborted") /\ \E e \in BOOLEAN : TakeErr(t, e)
     \/ /\ tx[x] # "active" /\ TakeErr(t, TRUE)
        /\ UNCHANGED <<tx, conn>>
  /\ Count(t)
  /\ UNCHANGED <<pc, base, depth, call, panic, flag>>

\* The deferred handler's condition for calling recover().
Recovers(t) == ~Top(t).err /\ FromRecover(Top(t).ctx) /\ flag[Top(t).ctx.cell]

\* The function of the top frame returns or is unwound by a panic.
Unwinding(t) == pc[t] = "panicking" \/ (pc[t] = "user" /\ depth[t] > 0)

\* First half of AutoCommit and the whole of Recover: recover() takes an error
\* value into *err and panics again with any other value, which leaves AutoCommit
\* before it has ended the transaction.
Defer(t) ==
  /\ Unwinding(t)
  /\ \/ /\ Recovers(t) /\ panic[t] \in {"db", "runtime", "error"}
        /\ frame' = [frame EXCEPT ![t][depth[t]].err = TRUE]
        /\ panic' = [panic EXCEPT ![t] = "none"]
        /\ Goto(t, "ending")
     \/ /\ Recovers(t) /\ panic[t] = "other"
        /\ Goto(t, "returned") /\ UNCHANGED <<frame, panic>>
     \/ /\ ~Recovers(t) \/ panic[t] = "none"
        /\ Goto(t, "ending") /\ UNCHANGED <<frame, panic>>
  /\ UNCHANGED <<ops, base, depth, call, flag, tx, conn>>

RollbackAtEndBug(t, x) == UNCHANGED <<frame, tx, conn>>
\* tx.Rollback() in AutoCommit; its error is dropped.
RollbackAtEnd(t, x) ==
  /\ IF tx[x] = "active" THEN EndTx(x, "aborted") ELSE UNCHANGED <<tx, conn>>
  /\ UNCHANGED frame

CommitAtEndBug(t, x) ==
  /\ IF tx[x] = "active" THEN \E state \in {"committed", "aborted"} : EndTx(x, state)
     ELSE UNCHANGED <<tx, conn>>
  /\ UNCHANGED frame
\* *err = tx.Commit() in AutoCommit: committed, or an error reported by the driver
\* (the transaction is lost) or by database/sql (it was over already).
CommitAtEnd(t, x) ==
  \/ tx[x] = "active" /\ EndTx(x, "committed") /\ UNCHANGED frame
  \/ /\ IF tx[x] = "active" THEN EndTx(x, "aborted") ELSE UNCHANGED <<tx, conn>>
     /\ frame' = [frame EXCEPT ![t][depth[t]].err = TRUE]

\* Second half of AutoCommit; Recover has none.
Ending(t) ==
  /\ pc[t] = "ending"
  /\ \/ Top(t).guard = "recover" /\ UNCHANGED <<frame, tx, conn>>
     \/ Top(t).guard = "autocommit" /\ Top(t).err /\ RollbackAtEnd(t, Top(t).ctx.tx)
     \/ Top(t).guard = "autocommit" /\ ~Top(t).err /\ CommitAtEnd(t, Top(t).ctx.tx)
  /\ Goto(t, "returned")
  /\ UNCHANGED <<ops, base, depth, call, panic, flag>>

\* The frame is left: its error goes to the caller, a panic goes on unwinding.
Pop(t) ==
  LET d == depth[t] IN
  /\ pc[t] = "returned"
  /\ depth' = [depth EXCEPT ![t] = d - 1]
  /\ \E v \in {Top(t).err, IF d > 1 THEN frame[t][d - 1].err ELSE FALSE} :
       frame' = [frame EXCEPT ![t] = [n \in 1..MaxDepth |->
                   IF n = d THEN NoFrame
                   ELSE IF n = d - 1 /\ panic[t] = "none" THEN [frame[t][n] EXCEPT !.err = v]
                   ELSE frame[t][n]]]
  /\ Goto(t, IF panic[t] = "none" THEN "user" ELSE IF d = 1 THEN "dead" ELSE "panicking")
  /\ UNCHANGED <<ops, base, call, panic, flag, tx, conn>>

\* The context of a transaction is cancelled: database/sql rolls it back by itself.
CancelTx(x) ==
  /\ tx[x] = "active"
  /\ EndTx(x, "aborted")
  /\ UNCHANGED <<pc, ops, base, depth, frame, call, panic, flag>>

\* Every goroutine is between requests or gone.
Quiescent ==
  /\ \A t \in Task : pc[t] = "dead" \/ (pc[t] = "user" /\ depth[t] = 0)
  /\ UNCHANGED vars

TaskStep(t) ==
  \/ BeginJoins(t) \/ BeginWaits(t) \/ BeginOpens(t) \/ BeginFails(t)
  \/ RecoverFrame(t) \/ StartCall(t) \/ GetConn(t) \/ GetConnFails(t)
  \/ CallOk(t) \/ CallFails(t) \/ UserPanics(t) \/ UserEnds(t)
  \/ Defer(t) \/ Ending(t) \/ Pop(t)

Next == (\E t \in Task : TaskStep(t)) \/ (\E x \in Id : CancelTx(x)) \/ Quiescent

Spec == Init /\ [][Next]_vars

\* Between two requests a task may stay idle for ever; a function it has started and
\* a statement it waits for come to an end.  database/sql queues the requests for a
\* connection and hands a freed one to a waiting request, so none is overtaken for ever.
Idle(t) == pc[t] = "user" /\ depth[t] = 0
FairSpec ==
  /\ Spec
  /\ \A t \in Task : /\ WF_vars(~Idle(t) /\ TaskStep(t))
                     /\ SF_vars(BeginOpens(t)) /\ SF_vars(GetConn(t))
-----------------------------------------------------------------------------
\* A frame on the stack: its context has a recover cell and, if AutoCommit is deferred
\* in it, a transaction, since BeginTx (sql_tx.go) installs both.
LiveFrame == {f \in Frame : /\ f.guard # "none" /\ f.ctx.cell \in Cell
                            /\ f.guard = "autocommit" => f.ctx.tx \in Id}

\* Type invariant; every deferred handler finds in its context what it looks up there.
TypeOK ==
  /\ pc \in [Task -> {"user", "begin", "getconn", "incall", "panicking", "ending",
                       "returned", "dead"}]
  /\ ops \in [Task -> 0..MaxOps]
  /\ base \in [Task -> {NoCell, SharedCell}]
  /\ depth \in [Task -> 0..MaxDepth]
  /\ frame \in [Task -> [1..MaxDepth -> Frame]]
  /\ call \in [Task -> [kind : CallKind \cup {"none"}, ctx : Ctx]]
  /\ panic \in [Task -> PanicKind \cup {"none"}]
  /\ flag \in [Cell -> BOOLEAN]
  /\ tx \in [Id -> {"unused", "active", "committed", "aborted"}]
  /\ conn \in [Conn -> Task \cup Id \cup {Free}]
  /\ \A t \in Task : \A d \in 1..depth[t] : frame[t][d] \in LiveFrame

\* Every connection out of the pool is accounted for: a task holds one only inside a
\* call outside any transaction, a transaction exactly while it is active, and nobody
\* holds two.  Concerns the deferred conn.Close of makeDBFuncContext on every return and
\* panic, and the ends of a transaction in AutoCommit, Commit and Rollback.
ConnAccounting ==
  /\ \A c \in Conn :
       /\ conn[c] \in Task => pc[conn[c]] = "incall" /\ ~FromSqlTx(call[conn[c]].ctx)
       /\ conn[c] \in Id => tx[conn[c]] = "active"
       /\ \A c2 \in Conn : conn[c] = conn[c2] => c = c2 \/ conn[c] = Free
  /\ \A x \in Id : tx[x] = "active" => \E c \in Conn : conn[c] = x
  /\ \A t \in Task : pc[t] = "incall" /\ ~FromSqlTx(call[t].ctx) => \E c \in Conn : conn[c] = t

\* A transaction outlives the frames of its owner that would end it only when the owner
\* is unwinding with a panic whose value is not an error, which AutoCommit re-raises
\* before it reaches the transaction.
HasFrame(x) == \E d \in 1..depth[x[1]] :
  frame[x[1]][d].guard = "autocommit" /\ frame[x[1]][d].ctx.tx = x
NoOrphanTx ==
  \A x \in Id : tx[x] = "active" => HasFrame(x) \/ panic[x[1]] = "other"

\* A function whose AutoCommit hands nil to its caller has its transaction committed,
\* whatever joined frames, explicit ends, recovered panics and cancellations happened
\* before: in particular a rollback by a joined inner frame is never reported as success.
NilMeansCommitted ==
  \A t \in Task :
    pc[t] = "returned" /\ Top(t).guard = "autocommit" /\ panic[t] = "none" /\ ~Top(t).err
      => tx[Top(t).ctx.tx] = "committed"

\* What makes the four invariants above inductive, whatever the users do: where a task
\* can be while it has a frame or a panic, ...
ControlInv ==
  \A t \in Task :
    /\ pc[t] = "begin" => ops[t] >= 1 /\ depth[t] < MaxDepth
    /\ pc[t] \in {"panicking", "ending", "returned"} => depth[t] >= 1
    /\ pc[t] = "getconn" => ~FromSqlTx(call[t].ctx)
    /\ panic[t] # "none" => pc[t] \in {"panicking", "ending", "returned", "dead"}

\* ... that Begin finds the name of the transaction it opens unused, ...
FreshInv ==
  \A t \in Task, n \in 1..MaxOps :
    n > ops[t] \/ (n = ops[t] /\ pc[t] = "begin") => tx[<<t, n>>] = "unused"

\* ... that the context of a frame only carries a transaction that was opened, ...
OpenedInv ==
  \A t \in Task : \A d \in 1..depth[t] :
    frame[t][d].ctx.tx \in Id => tx[frame[t][d].ctx.tx] # "unused"

\* ... and that an AutoCommit that got past its recover() has ended its transaction.
EndedInv ==
  \A t \in Task :
    pc[t] = "returned" /\ Top(t).guard = "autocommit" /\ panic[t] # "other"
      => tx[Top(t).ctx.tx] \in {"committed", "aborted"}

Inv == /\ TypeOK /\ ControlInv /\ FreshInv /\ OpenedInv /\ EndedInv
       /\ ConnAccounting /\ NoOrphanTx /\ NilMeansCommitted

\* While a panic that handleErr raised (recoverLog, for a function without an error
\* result) unwinds a task, no step commits a transaction of that task: the recover flag
\* that enableRecover sets before panicking reaches every enclosing AutoCommit.  For users
\* that pass each call its frame's context.  Other panics set no flag and are not meant: a
\* runtime panic inside a call (RuntimePanic) does unwind through a commit, although the
\* function has failed.
DbPanicNeverCommits ==
  [][\A x \in Id : panic[x[1]] = "db" /\ tx[x] = "active" => tx'[x] # "committed"]_vars

\* A task waiting for a connection holds none: neither a call inside a transaction nor a
\* nested Begin asks for a second one, so tasks sharing an exhausted pool cannot wait for
\* each other.  For users that pass each call its frame's context.
NoHoldAndWait ==
  \A t \in Task : pc[t] \in {"begin", "getconn"} =>
    \A x \in Id : x[1] = t => tx[x] # "active"

\* Whoever waits for a connection gets one: no path leaves a connection out of the pool.
WaitersServed ==
  \A t \in Task : pc[t] \in {"begin", "getconn"} ~> pc[t] \notin {"begin", "getconn"}

\* Every transaction is ended by its frame, its user or the cancellation of its context.
TxsEnd == \A x \in Id : tx[x] = "active" ~> tx[x] # "active"
=============================================================================
