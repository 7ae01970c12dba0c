--------------------------- MODULE TxFramesProof ---------------------------
(***************************************************************************)
(* Inv is an inductive invariant of TxFrames: for every number of tasks,   *)
(* connections, operations and frames, and for disciplined and             *)
(* undisciplined users alike.  With DisciplineInv it is inductive for      *)
(* users that pass each call the context of its own frame.                 *)
(***************************************************************************)
EXTENDS TxFrames, TLAPS

USE BoundsAssumption, FlagsAssumption, DistinctAssumption

\* What every step relies on: the context of a task's own frame, and those Begin and
\* NewRecover derive from it, are contexts.
LEMMA ContextTypes ==
  ASSUME TypeOK, NEW t \in Task
  PROVE  /\ CtxOf(t) \in Ctx
         /\ depth[t] >= 1 => Top(t) \in Frame
         /\ FromSqlTx(CtxOf(t)) => CtxOf(t).tx \in Id
         /\ \A id \in Id : /\ NewRecover(CtxOf(t), id) \in Ctx
                           /\ NewRecover(CtxOf(t), id).cell \in Cell
                           /\ NewRecover(CtxOf(t), id).tx = CtxOf(t).tx
                           /\ NewSqlTx(NewRecover(CtxOf(t), id), id) \in Ctx
                           /\ NewSqlTx(NewRecover(CtxOf(t), id), id).cell \in Cell
                           /\ NewSqlTx(NewRecover(CtxOf(t), id), id).tx = id
<1>1. depth[t] \in 0..MaxDepth /\ base[t] \in {NoCell, SharedCell}
  BY DEF TypeOK
<1>2. depth[t] >= 1 => Top(t) \in Frame
  BY <1>1 DEF TypeOK, Top
<1>3. CtxOf(t) \in Ctx
  BY <1>1, <1>2 DEF CtxOf, Ctx, Cell, Frame
<1>4. FromSqlTx(CtxOf(t)) => CtxOf(t).tx \in Id
  BY <1>3 DEF FromSqlTx, Ctx
<1>5. ASSUME NEW id \in Id
      PROVE  /\ NewRecover(CtxOf(t), id) \in Ctx
             /\ NewRecover(CtxOf(t), id).cell \in Cell
             /\ NewRecover(CtxOf(t), id).tx = CtxOf(t).tx
  BY <1>3 DEF NewRecover, FromRecover, Ctx, Cell
<1>6. ASSUME NEW id \in Id, NEW ctx \in Ctx
      PROVE  /\ NewSqlTx(ctx, id) \in Ctx
             /\ NewSqlTx(ctx, id).cell = ctx.cell
             /\ NewSqlTx(ctx, id).tx = id
  BY DEF NewSqlTx, Ctx
<1> QED
  BY <1>2, <1>3, <1>4, <1>5, <1>6

\* Every initial state satisfies the invariant.
LEMMA InitInv == Init => Inv
<1> SUFFICES ASSUME Init PROVE Inv
  OBVIOUS
<1> USE DEF Init
<1>1. NoFrame \in Frame /\ NoCall \in [kind : CallKind \cup {"none"}, ctx : Ctx]
  BY DEF NoFrame, NoCall, Frame, Ctx, Background
<1>2. TypeOK
  BY <1>1 DEF TypeOK
<1>3. ControlInv /\ OpenedInv /\ EndedInv /\ NilMeansCommitted
  BY DEF ControlInv, OpenedInv, EndedInv, NilMeansCommitted
<1>4. FreshInv /\ NoOrphanTx
  BY DEF FreshInv, NoOrphanTx, Id
<1>5. ConnAccounting
  BY DEF ConnAccounting
<1> QED
  BY <1>2, <1>3, <1>4, <1>5 DEF Inv

\* An assignment to a frame's named error changes nothing else of the frames.
LEMMA ErrAssigned ==
  ASSUME TypeOK, NEW t \in Task, NEW e \in BOOLEAN, depth[t] >= 1,
         frame' = [frame EXCEPT ![t][depth[t]].err = e]
  PROVE  /\ frame' \in [Task -> [1..MaxDepth -> Frame]]
         /\ frame'[t][depth[t]].err = e
         /\ \A u \in Task \ {t} : frame'[u] = frame[u]
         /\ \A u \in Task, d \in 1..MaxDepth : /\ frame'[u][d].guard = frame[u][d].guard
                                               /\ frame'[u][d].ctx = frame[u][d].ctx
<1>1. depth[t] \in 1..MaxDepth /\ frame[t] \in [1..MaxDepth -> Frame]
  BY DEF TypeOK
<1> DEFINE f == [frame[t][depth[t]] EXCEPT !.err = e]
           ft == [frame[t] EXCEPT ![depth[t]] = f]
<1>2. f \in Frame /\ f.err = e /\ f.guard = frame[t][depth[t]].guard
                               /\ f.ctx = frame[t][depth[t]].ctx
  BY <1>1 DEF Frame
<1>3. /\ ft \in [1..MaxDepth -> Frame] /\ ft[depth[t]] = f
      /\ \A d \in 1..MaxDepth : ft[d].guard = frame[t][d].guard /\ ft[d].ctx = frame[t][d].ctx
  <2> HIDE DEF f
  <2> QED BY <1>1, <1>2
<1>4. frame' = [frame EXCEPT ![t] = ft]
  OBVIOUS
<1> HIDE DEF ft
<1> QED
  BY <1>2, <1>3, <1>4 DEF TypeOK

\* What a user keeps or overwrites of an error, likewise.
LEMMA ErrTaken ==
  ASSUME TypeOK, NEW t \in Task, NEW e \in BOOLEAN, TakeErr(t, e)
  PROVE  /\ frame' \in [Task -> [1..MaxDepth -> Frame]]
         /\ \A u \in Task \ {t} : frame'[u] = frame[u]
         /\ \A u \in Task, d \in 1..MaxDepth : /\ frame'[u][d].guard = frame[u][d].guard
                                               /\ frame'[u][d].ctx = frame[u][d].ctx
<1>1. CASE depth[t] = 0
  BY <1>1 DEF TakeErr, TypeOK
<1>2. CASE depth[t] # 0
  <2>1. depth[t] >= 1 /\ depth[t] \in 1..MaxDepth
    BY <1>2 DEF TypeOK
  <2>2. Top(t).err \in BOOLEAN
    BY <2>1 DEF TypeOK, Top, Frame
  <2>3. PICK v \in {e, Top(t).err} : frame' = [frame EXCEPT ![t][depth[t]].err = v]
    BY <1>2 DEF TakeErr
  <2> QED
    BY <2>1, <2>2, <2>3, ErrAssigned
<1> QED
  BY <1>1, <1>2

\* A new frame goes on top of the others and leaves them alone.
LEMMA Pushed ==
  ASSUME TypeOK, NEW t \in Task, NEW guard \in {"autocommit", "recover"}, NEW ctx \in Ctx,
         depth[t] < MaxDepth, Push(t, guard, ctx)
  PROVE  /\ depth' \in [Task -> 0..MaxDepth] /\ frame' \in [Task -> [1..MaxDepth -> Frame]]
         /\ depth'[t] = depth[t] + 1
         /\ \A u \in Task \ {t} : depth'[u] = depth[u] /\ frame'[u] = frame[u]
         /\ frame'[t][depth'[t]] = [guard |-> guard, ctx |-> ctx, err |-> FALSE]
         /\ \A d \in 1..depth[t] : frame'[t][d] = frame[t][d]
<1>1. depth[t] \in Nat /\ depth[t] + 1 \in 1..MaxDepth
  BY DEF TypeOK
<1> DEFINE f == [guard |-> guard, ctx |-> ctx, err |-> FALSE]
<1>2. f \in Frame
  BY DEF Frame
<1> HIDE DEF f
<1>3. /\ depth' = [depth EXCEPT ![t] = depth[t] + 1]
      /\ frame' = [frame EXCEPT ![t] = [frame[t] EXCEPT ![depth[t] + 1] = f]]
  BY DEF Push, f
<1> QED
  BY <1>1, <1>2, <1>3 DEF TypeOK, f

\* Assignments to named errors keep the types of frames.
LEMMA ErrKeepsLive ==
  ASSUME TypeOK, UNCHANGED depth, frame' \in [Task -> [1..MaxDepth -> Frame]],
         \A u \in Task, d \in 1..MaxDepth : /\ frame'[u][d].guard = frame[u][d].guard
                                         /\ frame'[u][d].ctx = frame[u][d].ctx
  PROVE  \A u \in Task : \A d \in 1..depth'[u] : frame'[u][d] \in LiveFrame
<1> SUFFICES ASSUME NEW u \in Task, NEW d \in 1..depth[u] PROVE frame'[u][d] \in LiveFrame
  OBVIOUS
<1>1. d \in 1..MaxDepth
  BY DEF TypeOK
<1>2. frame[u][d] \in LiveFrame
  BY DEF TypeOK
<1>3. frame'[u][d] \in Frame
  BY <1>1
<1> QED
  BY <1>1, <1>2, <1>3 DEF LiveFrame

\* Releasing connections leaves each with an owner or free.
LEMMA ReleasedType ==
  ASSUME TypeOK, NEW h PROVE Released(h) \in [Conn -> Task \cup Id \cup {Free}]
BY DEF TypeOK, Released

\* Ending a transaction keeps the types of transactions and connections.
LEMMA EndTxType ==
  ASSUME TypeOK, NEW x, NEW state \in {"committed", "aborted"}, EndTx(x, state)
  PROVE  /\ tx' \in [Id -> {"unused", "active", "committed", "aborted"}]
         /\ conn' \in [Conn -> Task \cup Id \cup {Free}]
<1>1. tx' = [tx EXCEPT ![x] = state] /\ conn' = Released(x)
  BY DEF EndTx
<1> QED
  BY <1>1, ReleasedType DEF TypeOK

\* The call of a task that makes none.
LEMMA NoCallType == NoCall \in [kind : CallKind \cup {"none"}, ctx : Ctx]
BY DEF NoCall, Ctx, Background

\* A call that fails, by handleErr on each of its three ways out or by a runtime panic,
\* keeps the types.
LEMMA FailureType ==
  ASSUME TypeOK, NEW t \in Task, HandleErr(t) \/ RuntimePanic(t),
         call' = [call EXCEPT ![t] = NoCall],
         UNCHANGED <<ops, base, depth, tx>>,
         conn' \in [Conn -> Task \cup Id \cup {Free}]
  PROVE  TypeOK'
<1>1. call[t].ctx \in Ctx
  BY DEF TypeOK
<1>2. CASE HandleErr(t) /\ call[t].kind = "panicfunc"
  <2>1. Raise(t, "db") /\ flag' = enableRecover(call[t].ctx) /\ UNCHANGED frame
    BY <1>2 DEF HandleErr
  <2>2. flag' \in [Cell -> BOOLEAN]
    BY <2>1 DEF enableRecover, TypeOK
  <2> QED
    BY <2>1, <2>2, NoCallType DEF TypeOK, Raise, Goto, PanicKind
<1>3. CASE HandleErr(t) /\ call[t].kind # "panicfunc"
  <2>1. TakeErr(t, TRUE) /\ Goto(t, "user") /\ UNCHANGED <<panic, flag>>
    BY <1>3 DEF HandleErr
  <2>2. /\ frame' \in [Task -> [1..MaxDepth -> Frame]]
        /\ \A u \in Task : \A d \in 1..depth'[u] : frame'[u][d] \in LiveFrame
    BY <2>1, ErrTaken, ErrKeepsLive
  <2> QED
    BY <2>1, <2>2, NoCallType DEF TypeOK, Goto
<1>4. CASE RuntimePanic(t)
  BY <1>4, NoCallType DEF RuntimePanic, TypeOK, Raise, Goto, PanicKind
<1> QED
  BY <1>2, <1>3, <1>4

\* A frame pushed on the stack is a live one, and those below it stay live.
LEMMA PushedLive ==
  ASSUME TypeOK, NEW t \in Task, NEW guard \in {"autocommit", "recover"}, NEW ctx \in Ctx,
         ctx.cell \in Cell, guard = "autocommit" => ctx.tx \in Id,
         depth[t] < MaxDepth, Push(t, guard, ctx)
  PROVE  \A u \in Task : \A d \in 1..depth'[u] : frame'[u][d] \in LiveFrame
<1>0. /\ depth'[t] = depth[t] + 1
      /\ \A u \in Task \ {t} : depth'[u] = depth[u] /\ frame'[u] = frame[u]
      /\ frame'[t][depth'[t]] = [guard |-> guard, ctx |-> ctx, err |-> FALSE]
      /\ \A d \in 1..depth[t] : frame'[t][d] = frame[t][d]
  BY Pushed
<1> SUFFICES ASSUME NEW u \in Task, NEW d \in 1..depth'[u] PROVE frame'[u][d] \in LiveFrame
  OBVIOUS
<1>1. depth[t] \in Nat /\ depth[t] + 1 \in 1..MaxDepth
  BY DEF TypeOK
<1>2. [guard |-> guard, ctx |-> ctx, err |-> FALSE] \in LiveFrame
  BY DEF LiveFrame, Frame
<1>3. CASE u # t
  BY <1>0, <1>3 DEF TypeOK
<1>4. CASE u = t /\ d = depth'[t]
  BY <1>0, <1>2, <1>4
<1>5. CASE u = t /\ d # depth'[t]
  <2>1. d \in 1..depth[t] /\ frame'[t][d] = frame[t][d]
    BY <1>0, <1>1, <1>5
  <2> QED
    BY <1>5, <2>1 DEF TypeOK
<1> QED
  BY <1>3, <1>4, <1>5

\* A step of a task keeps the types.
LEMMA TypeStep ==
  ASSUME TypeOK, ControlInv, NEW t \in Task, TaskStep(t) PROVE TypeOK'
<1> DEFINE id  == <<t, ops[t] + 1>>
           own == <<t, ops[t]>>
           Live == \A u \in Task : \A d \in 1..depth'[u] : frame'[u][d] \in LiveFrame
<1>1. /\ ops[t] \in 0..MaxOps /\ depth[t] \in 0..MaxDepth
      /\ CanAct(t) => id \in Id /\ ops[t] + 1 \in 0..MaxOps
      /\ pc[t] = "begin" => own \in Id /\ depth[t] < MaxDepth
      /\ pc[t] \in {"panicking", "ending", "returned"} => depth[t] >= 1
  BY DEF TypeOK, ControlInv, CanAct, Id
<1>2. ASSUME NEW guard \in {"autocommit", "recover"}, NEW ctx \in Ctx, ctx.cell \in Cell,
             guard = "autocommit" => ctx.tx \in Id,
             depth[t] < MaxDepth, Push(t, guard, ctx)
      PROVE  /\ depth' \in [Task -> 0..MaxDepth]
             /\ frame' \in [Task -> [1..MaxDepth -> Frame]]
             /\ Live
  BY <1>2, Pushed, PushedLive
<1>3. ASSUME UNCHANGED <<depth, frame>> PROVE Live
  BY <1>3 DEF TypeOK
<1>4. ASSUME NEW e \in BOOLEAN, TakeErr(t, e), UNCHANGED depth
      PROVE  frame' \in [Task -> [1..MaxDepth -> Frame]] /\ Live
  BY <1>4, ErrTaken, ErrKeepsLive
<1>5. ASSUME NEW e \in BOOLEAN, UNCHANGED depth, depth[t] >= 1,
             frame' = [frame EXCEPT ![t][depth[t]].err = e]
      PROVE  frame' \in [Task -> [1..MaxDepth -> Frame]] /\ Live
  BY <1>5, ErrAssigned, ErrKeepsLive
<1> HIDE DEF id, own, Live
<1>6. CASE BeginJoins(t)
  <2>1. /\ Push(t, "autocommit", NewRecover(CtxOf(t), id)) /\ depth[t] < MaxDepth
        /\ ops' = [ops EXCEPT ![t] = ops[t] + 1] /\ ops[t] + 1 \in 0..MaxOps
        /\ FromSqlTx(CtxOf(t)) /\ id \in Id
        /\ UNCHANGED <<pc, base, call, panic, flag, tx, conn>>
    BY <1>1, <1>6 DEF BeginJoins, Count, id
  <2>2. /\ NewRecover(CtxOf(t), id) \in Ctx
        /\ NewRecover(CtxOf(t), id).cell \in Cell /\ NewRecover(CtxOf(t), id).tx \in Id
    BY <2>1, ContextTypes
  <2>3. /\ depth' \in [Task -> 0..MaxDepth] /\ frame' \in [Task -> [1..MaxDepth -> Frame]]
        /\ Live
    BY <1>2, <2>1, <2>2
  <2> QED
    BY <2>1, <2>3 DEF TypeOK, Live
<1>7. CASE BeginWaits(t)
  BY <1>1, <1>3, <1>7 DEF BeginWaits, Count, Goto, TypeOK, Live
<1>8. CASE BeginOpens(t)
  <2>1. /\ Push(t, "autocommit", NewSqlTx(NewRecover(CtxOf(t), own), own))
        /\ depth[t] < MaxDepth /\ own \in Id
        /\ pc' = [pc EXCEPT ![t] = "user"] /\ tx' = [tx EXCEPT ![own] = "active"]
        /\ \E c \in Conn : conn' = [conn EXCEPT ![c] = own]
        /\ UNCHANGED <<ops, base, call, panic, flag>>
    BY <1>1, <1>8 DEF BeginOpens, Goto, own
  <2>2. /\ NewSqlTx(NewRecover(CtxOf(t), own), own) \in Ctx
        /\ NewSqlTx(NewRecover(CtxOf(t), own), own).cell \in Cell
        /\ NewSqlTx(NewRecover(CtxOf(t), own), own).tx \in Id
    BY <2>1, ContextTypes
  <2>3. /\ depth' \in [Task -> 0..MaxDepth] /\ frame' \in [Task -> [1..MaxDepth -> Frame]]
        /\ Live
    BY <1>2, <2>1, <2>2
  <2>4. tx' \in [Id -> {"unused", "active", "committed", "aborted"}]
    BY <2>1 DEF TypeOK
  <2>5. conn' \in [Conn -> Task \cup Id \cup {Free}]
    BY <2>1 DEF TypeOK
  <2>6. pc' \in [Task -> {"user", "begin", "getconn", "incall", "panicking", "ending",
                         "returned", "dead"}]
    BY <2>1 DEF TypeOK
  <2> QED
    BY <2>1, <2>3, <2>4, <2>5, <2>6 DEF TypeOK, Live
<1>9. CASE BeginFails(t)
  <2>1. frame' \in [Task -> [1..MaxDepth -> Frame]] /\ Live
    BY <1>4, <1>9 DEF BeginFails
  <2> QED
    BY <1>9, <2>1 DEF BeginFails, Goto, TypeOK, Live
<1>10. CASE RecoverFrame(t)
  <2>1. /\ Push(t, "recover", NewRecover(CtxOf(t), id)) /\ depth[t] < MaxDepth
        /\ ops' = [ops EXCEPT ![t] = ops[t] + 1] /\ ops[t] + 1 \in 0..MaxOps /\ id \in Id
        /\ UNCHANGED <<pc, base, call, panic, flag, tx, conn>>
    BY <1>1, <1>10 DEF RecoverFrame, Count, id
  <2>2. NewRecover(CtxOf(t), id) \in Ctx /\ NewRecover(CtxOf(t), id).cell \in Cell
    BY <2>1, ContextTypes
  <2>3. /\ depth' \in [Task -> 0..MaxDepth] /\ frame' \in [Task -> [1..MaxDepth -> Frame]]
        /\ Live
    BY <1>2, <2>1, <2>2
  <2> QED
    BY <2>1, <2>3 DEF TypeOK, Live
<1>11. CASE StartCall(t)
  <2>1. Background \in Ctx
    BY DEF Background, Ctx
  <2>2. PICK kind \in CallKind, ctx \in {CtxOf(t), Background} :
          /\ call' = [call EXCEPT ![t] = [kind |-> kind, ctx |-> ctx]]
          /\ Goto(t, IF GetEnableSqlTx(ctx) THEN "incall" ELSE "getconn")
    BY <1>11 DEF StartCall
  <2>3. call' \in [Task -> [kind : CallKind \cup {"none"}, ctx : Ctx]]
    BY <2>1, <2>2, ContextTypes DEF TypeOK
  <2>4. UNCHANGED <<base, depth, frame, panic, flag, tx, conn>>
    BY <1>11 DEF StartCall
  <2>5. pc' \in [Task -> {"user", "begin", "getconn", "incall", "panicking", "ending",
                         "returned", "dead"}]
    BY <2>2 DEF Goto, TypeOK
  <2>6. ops' \in [Task -> 0..MaxOps]
    BY <1>1, <1>11 DEF StartCall, Count, TypeOK
  <2> QED
    BY <1>3, <2>3, <2>4, <2>5, <2>6 DEF TypeOK, Live
<1>12. CASE GetConn(t)
  BY <1>3, <1>12 DEF GetConn, Goto, TypeOK, Live
<1>13. CASE GetConnFails(t)
  BY <1>13, FailureType DEF GetConnFails, TypeOK
<1>14. CASE CallOk(t)
  <2>1. frame' \in [Task -> [1..MaxDepth -> Frame]] /\ Live
    BY <1>4, <1>14 DEF CallOk
  <2>2. conn' \in [Conn -> Task \cup Id \cup {Free}]
    BY <1>14, ReleasedType DEF CallOk
  <2> QED
    BY <1>14, <2>1, <2>2, NoCallType DEF CallOk, Goto, TypeOK, Live
<1>15. CASE CallFails(t)
  <2>1. conn' \in [Conn -> Task \cup Id \cup {Free}]
    BY <1>15, ReleasedType DEF CallFails
  <2> QED
    BY <1>15, <2>1, FailureType DEF CallFails
<1>16. CASE UserPanics(t)
  BY <1>1, <1>3, <1>16 DEF UserPanics, Count, Raise, Goto, TypeOK, PanicKind, Live
<1>17. CASE UserEnds(t)
  <2>1. \E e \in BOOLEAN : TakeErr(t, e)
    BY <1>17 DEF UserEnds
  <2>2. frame' \in [Task -> [1..MaxDepth -> Frame]] /\ Live
    BY <1>4, <1>17, <2>1 DEF UserEnds
  <2>3. \/ UNCHANGED <<tx, conn>>
        \/ \E state \in {"committed", "aborted"} : EndTx(CtxOf(t).tx, state)
    BY <1>17 DEF UserEnds
  <2>4. /\ tx' \in [Id -> {"unused", "active", "committed", "aborted"}]
        /\ conn' \in [Conn -> Task \cup Id \cup {Free}]
    BY <2>3, EndTxType DEF TypeOK
  <2> QED
    BY <1>1, <1>17, <2>2, <2>4 DEF UserEnds, Count, TypeOK, Live
<1>18. CASE Defer(t)
  <2>1. depth[t] >= 1
    BY <1>1, <1>18 DEF Defer, Unwinding
  <2>2. frame' \in [Task -> [1..MaxDepth -> Frame]] /\ Live
    <3>1. UNCHANGED depth /\ (UNCHANGED frame \/ frame' = [frame EXCEPT ![t][depth[t]].err = TRUE])
      BY <1>18 DEF Defer
    <3>2. frame \in [Task -> [1..MaxDepth -> Frame]]
      BY DEF TypeOK
    <3>3. CASE UNCHANGED frame
      BY <1>3, <3>1, <3>2, <3>3
    <3>4. CASE frame' = [frame EXCEPT ![t][depth[t]].err = TRUE]
      BY <1>5, <2>1, <3>1, <3>4
    <3> QED
      BY <3>1, <3>3, <3>4
  <2>3. UNCHANGED <<ops, base, depth, call, flag, tx, conn>>
    BY <1>18 DEF Defer
  <2>4. pc' \in [Task -> {"user", "begin", "getconn", "incall", "panicking", "ending",
                         "returned", "dead"}]
    BY <1>18 DEF Defer, Goto, TypeOK
  <2>5. panic' \in [Task -> PanicKind \cup {"none"}]
    BY <1>18 DEF Defer, TypeOK
  <2> QED
    BY <2>2, <2>3, <2>4, <2>5 DEF TypeOK, Live
<1>19. CASE Ending(t)
  <2>1. depth[t] >= 1
    BY <1>1, <1>19 DEF Ending
  <2>2. /\ \/ UNCHANGED <<tx, conn>>
           \/ \E x \in Id, state \in {"committed", "aborted"} : EndTx(x, state)
        /\ UNCHANGED frame \/ frame' = [frame EXCEPT ![t][depth[t]].err = TRUE]
    <3>1. Top(t) \in LiveFrame
      BY <1>1, <2>1 DEF TypeOK, Top
    <3>2. Top(t).guard = "autocommit" => Top(t).ctx.tx \in Id
      BY <3>1 DEF LiveFrame
    <3> QED
      BY <1>19, <3>2 DEF Ending, RollbackAtEnd, CommitAtEnd
  <2>3. /\ tx' \in [Id -> {"unused", "active", "committed", "aborted"}]
        /\ conn' \in [Conn -> Task \cup Id \cup {Free}]
    BY <2>2, EndTxType DEF TypeOK
  <2>4. frame' \in [Task -> [1..MaxDepth -> Frame]] /\ Live
    BY <1>3, <1>5, <1>19, <2>1, <2>2 DEF Ending, TypeOK
  <2> QED
    BY <1>19, <2>3, <2>4 DEF Ending, Goto, TypeOK, Live
<1>20. CASE Pop(t)
  <2>1. depth[t] \in 1..MaxDepth /\ depth[t] - 1 \in 0..MaxDepth
    BY <1>1, <1>20 DEF Pop
  <2> DEFINE ft(v) == [n \in 1..MaxDepth |->
                IF n = depth[t] THEN NoFrame
                ELSE IF n = depth[t] - 1 /\ panic[t] = "none" THEN [frame[t][n] EXCEPT !.err = v]
                ELSE frame[t][n]]
  <2>2. PICK v \in BOOLEAN : frame' = [frame EXCEPT ![t] = ft(v)]
    <3>1. \A n \in 1..MaxDepth : frame[t][n].err \in BOOLEAN
      <4> SUFFICES ASSUME NEW n \in 1..MaxDepth PROVE frame[t][n].err \in BOOLEAN
        OBVIOUS
      <4>1. frame[t][n] \in Frame
        BY DEF TypeOK
      <4> QED
        BY <4>1 DEF Frame
    <3>2. Top(t).err \in BOOLEAN /\ (depth[t] > 1 => frame[t][depth[t] - 1].err \in BOOLEAN)
      BY <2>1, <3>1 DEF Top
    <3>3. PICK v \in {Top(t).err, IF depth[t] > 1 THEN frame[t][depth[t] - 1].err ELSE FALSE} :
            frame' = [frame EXCEPT ![t] = ft(v)]
      BY <1>20 DEF Pop
    <3> QED
      BY <3>2, <3>3
  <2>3. ft(v) \in [1..MaxDepth -> Frame]
    <3>1. NoFrame \in Frame
      BY DEF Frame, NoFrame, Ctx, Background
    <3>2. \A n \in 1..MaxDepth : /\ frame[t][n] \in Frame
                                 /\ [frame[t][n] EXCEPT !.err = v] \in Frame
      <4> SUFFICES ASSUME NEW n \in 1..MaxDepth
                   PROVE frame[t][n] \in Frame /\ [frame[t][n] EXCEPT !.err = v] \in Frame
        OBVIOUS
      <4>1. frame[t][n] \in Frame
        BY DEF TypeOK
      <4> QED
        BY <4>1 DEF Frame
    <3> QED
      BY <3>1, <3>2
  <2>4. ASSUME NEW d \in 1..(depth[t] - 1) PROVE ft(v)[d] \in LiveFrame
    <3>1. d \in 1..MaxDepth /\ d # depth[t] /\ frame[t][d] \in LiveFrame
      BY <2>1 DEF TypeOK
    <3> QED
      BY <3>1 DEF LiveFrame, Frame
  <2> HIDE DEF ft
  <2>5. depth' = [depth EXCEPT ![t] = depth[t] - 1]
    BY <1>20 DEF Pop
  <2>6. Live
    BY <2>1, <2>2, <2>4, <2>5 DEF TypeOK, Live
  <2>7. frame' \in [Task -> [1..MaxDepth -> Frame]] /\ depth' \in [Task -> 0..MaxDepth]
    BY <2>1, <2>2, <2>3, <2>5 DEF TypeOK
  <2> QED
    BY <1>20, <2>6, <2>7 DEF Pop, Goto, TypeOK, Live
<1> QED
  BY <1>6, <1>7, <1>8, <1>9, <1>10, <1>11, <1>12, <1>13, <1>14, <1>15, <1>16, <1>17, <1>18,
     <1>19, <1>20 DEF TaskStep

\* So does a step that is no task's.
LEMMA TypeNext ==
  ASSUME TypeOK, ControlInv, [Next]_vars PROVE TypeOK'
<1>1. ASSUME NEW t \in Task, TaskStep(t) PROVE TypeOK'
  BY <1>1, TypeStep
<1>2. ASSUME NEW x \in Id, CancelTx(x) PROVE TypeOK'
  <2>1. UNCHANGED <<pc, ops, base, depth, frame, call, panic, flag>> /\ EndTx(x, "aborted")
    BY <1>2 DEF CancelTx
  <2>2. /\ tx' \in [Id -> {"unused", "active", "committed", "aborted"}]
        /\ conn' \in [Conn -> Task \cup Id \cup {Free}]
    BY <2>1, EndTxType
  <2> QED
    BY <2>1, <2>2 DEF TypeOK
<1>3. CASE UNCHANGED vars
  BY <1>3 DEF vars, TypeOK
<1> QED
  BY <1>1, <1>2, <1>3 DEF Next, Quiescent

\* A task's step leaves what belongs to the other tasks alone, ...
LEMMA OthersUnchanged ==
  ASSUME TypeOK, ControlInv, NEW t \in Task, TaskStep(t), NEW u \in Task \ {t}
  PROVE  /\ pc'[u] = pc[u] /\ ops'[u] = ops[u] /\ depth'[u] = depth[u]
         /\ frame'[u] = frame[u] /\ call'[u] = call[u] /\ panic'[u] = panic[u]
<1> USE DEF Goto, Count
<1>1. frame'[u] = frame[u]
  <2>1. CASE \E e \in BOOLEAN : TakeErr(t, e)
    BY <2>1, ErrTaken
  <2>2. CASE UNCHANGED frame
    BY <2>2
  <2>3. CASE \E f : frame' = [frame EXCEPT ![t] = f]
    BY <2>3 DEF TypeOK
  <2>4. CASE BeginJoins(t) \/ BeginOpens(t) \/ RecoverFrame(t)
    BY <2>3, <2>4 DEF BeginJoins, BeginOpens, RecoverFrame, Push
  <2>5. CASE GetConnFails(t) \/ CallOk(t) \/ CallFails(t)
    BY <2>1, <2>2, <2>5 DEF GetConnFails, CallOk, CallFails, HandleErr, RuntimePanic
  <2>6. CASE UserEnds(t) \/ BeginFails(t)
    BY <2>1, <2>6 DEF UserEnds, BeginFails
  <2>7. CASE Defer(t) \/ Pop(t)
    BY <2>2, <2>3, <2>7 DEF Defer, Pop
  <2>8. CASE Ending(t)
    BY <2>2, <2>3, <2>8 DEF Ending, RollbackAtEnd, CommitAtEnd
  <2>9. CASE BeginWaits(t) \/ StartCall(t) \/ GetConn(t) \/ UserPanics(t)
    BY <2>2, <2>9 DEF BeginWaits, StartCall, GetConn, UserPanics
  <2> QED
    BY <2>4, <2>5, <2>6, <2>7, <2>8, <2>9 DEF TaskStep
<1>2. pc'[u] = pc[u] /\ ops'[u] = ops[u]
  <2>1. /\ \A place : Goto(t, place) => pc'[u] = pc[u]
        /\ Count(t) => ops'[u] = ops[u]
        /\ UNCHANGED pc => pc'[u] = pc[u]
        /\ UNCHANGED ops => ops'[u] = ops[u]
    BY DEF TypeOK, Goto, Count
  <2> HIDE DEF Goto, Count
  <2>2. CASE BeginJoins(t) \/ BeginWaits(t) \/ BeginOpens(t) \/ BeginFails(t) \/ RecoverFrame(t)
    BY <2>1, <2>2 DEF BeginJoins, BeginWaits, BeginOpens, BeginFails, RecoverFrame
  <2>3. CASE StartCall(t) \/ GetConn(t) \/ CallOk(t)
    BY <2>1, <2>3 DEF StartCall, GetConn, CallOk
  <2>4. CASE GetConnFails(t) \/ CallFails(t)
    BY <2>1, <2>4 DEF GetConnFails, CallFails, HandleErr, RuntimePanic, Raise
  <2>5. CASE UserPanics(t) \/ UserEnds(t)
    BY <2>1, <2>5 DEF UserPanics, UserEnds, Raise
  <2>6. CASE Defer(t) \/ Ending(t) \/ Pop(t)
    BY <2>1, <2>6 DEF Defer, Ending, Pop
  <2> QED
    BY <2>2, <2>3, <2>4, <2>5, <2>6 DEF TaskStep
<1>3. depth'[u] = depth[u]
  BY DEF TaskStep, TypeOK, BeginJoins, BeginWaits, BeginOpens, BeginFails, RecoverFrame,
     StartCall, GetConn, GetConnFails, CallOk, CallFails, UserPanics, UserEnds, Defer, Ending,
     Pop, Push
<1>4. call'[u] = call[u]
  BY ZenonT(60) DEF TaskStep, TypeOK, BeginJoins, BeginWaits, BeginOpens, BeginFails, RecoverFrame,
     StartCall, GetConn, GetConnFails, CallOk, CallFails, UserPanics, UserEnds, Defer, Ending,
     Pop
<1>5. panic'[u] = panic[u]
  BY ZenonT(60) DEF TaskStep, TypeOK, BeginJoins, BeginWaits, BeginOpens, BeginFails, RecoverFrame,
     StartCall, GetConn, GetConnFails, CallOk, CallFails, UserPanics, UserEnds, Defer, Ending,
     Pop, HandleErr, RuntimePanic, Raise
<1> QED
  BY <1>1, <1>2, <1>3, <1>4, <1>5

\* ... and does one of five things to the transactions and the connections.
LEMMA PoolStep ==
  ASSUME TypeOK, ControlInv, NEW t \in Task, TaskStep(t)
  PROVE  \/ /\ UNCHANGED <<tx, conn>>
            /\ pc'[t] = "incall" => FromSqlTx(call'[t].ctx)
            /\ pc[t] # "incall"
         \/ /\ pc[t] = "begin" /\ pc'[t] = "user" /\ <<t, ops[t]>> \in Id /\ ops'[t] = ops[t]
            /\ tx' = [tx EXCEPT ![<<t, ops[t]>>] = "active"]
            /\ \E c \in Conn : conn[c] = Free /\ conn' = [conn EXCEPT ![c] = <<t, ops[t]>>]
         \/ /\ pc[t] = "getconn" /\ pc'[t] = "incall" /\ UNCHANGED <<tx, call>>
            /\ \E c \in Conn : conn[c] = Free /\ conn' = [conn EXCEPT ![c] = t]
         \/ /\ pc[t] = "incall" /\ pc'[t] # "incall"
            /\ UNCHANGED tx /\ conn' = Released(t)
         \/ /\ pc[t] # "incall" /\ pc'[t] # "incall"
            /\ \E x \in Id, state \in {"committed", "aborted"} :
                 tx[x] = "active" /\ EndTx(x, state)
<1> DEFINE A == /\ UNCHANGED <<tx, conn>>
                /\ pc'[t] = "incall" => FromSqlTx(call'[t].ctx)
                /\ pc[t] # "incall"
           D == /\ pc[t] = "incall" /\ pc'[t] # "incall"
                /\ UNCHANGED tx /\ conn' = Released(t)
           E == /\ pc[t] # "incall" /\ pc'[t] # "incall"
                /\ \E x \in Id, state \in {"committed", "aborted"} :
                     tx[x] = "active" /\ EndTx(x, state)
<1> USE DEF Goto
<1>1. CASE BeginJoins(t) \/ BeginWaits(t) \/ BeginFails(t) \/ RecoverFrame(t) \/ UserPanics(t)
  <2>1. A
    BY <1>1 DEF TypeOK, BeginJoins, BeginWaits, BeginFails, RecoverFrame, UserPanics, Raise, CanAct
  <2> QED
    BY <2>1
<1>2. CASE BeginOpens(t)
  <2>1. /\ pc[t] = "begin" /\ pc'[t] = "user" /\ ops'[t] = ops[t]
        /\ tx' = [tx EXCEPT ![<<t, ops[t]>>] = "active"]
        /\ \E c \in Conn : conn[c] = Free /\ conn' = [conn EXCEPT ![c] = <<t, ops[t]>>]
    BY <1>2 DEF BeginOpens, TypeOK
  <2>2. <<t, ops[t]>> \in Id
    BY <2>1 DEF TypeOK, ControlInv, Id
  <2> QED
    BY <2>1, <2>2
<1>3. CASE StartCall(t)
  <2>1. A
    BY <1>3 DEF StartCall, CanAct, TypeOK, GetEnableSqlTx, FromSqlTx
  <2> QED
    BY <2>1
<1>4. CASE GetConn(t)
  BY <1>4 DEF GetConn, TypeOK
<1>5. CASE GetConnFails(t) \/ Defer(t) \/ Pop(t)
  <2>1. A
    BY <1>5 DEF GetConnFails, HandleErr, RuntimePanic, Raise, Defer, Unwinding, Pop, TypeOK
  <2> QED
    BY <2>1
<1>6. CASE CallOk(t) \/ CallFails(t)
  <2>1. D
    BY <1>6 DEF CallOk, CallFails, HandleErr, RuntimePanic, Raise, TypeOK
  <2> QED
    BY <2>1
<1>7. CASE UserEnds(t)
  <2>1. CtxOf(t).tx \in Id /\ pc[t] # "incall" /\ pc'[t] # "incall"
    BY <1>7, ContextTypes DEF UserEnds, CanAct, TypeOK
  <2>2. A \/ E
    BY <1>7, <2>1 DEF UserEnds
  <2> QED
    BY <2>2
<1>8. CASE Ending(t)
  <2>1. pc[t] # "incall" /\ pc'[t] # "incall"
    BY <1>8 DEF Ending, TypeOK
  <2>2. Top(t).guard = "autocommit" => Top(t).ctx.tx \in Id
    <3>1. depth[t] \in 1..depth[t]
      BY <1>8 DEF Ending, ControlInv, TypeOK
    <3>2. Top(t) \in LiveFrame
      BY <3>1 DEF TypeOK, Top
    <3> QED
      BY <3>2 DEF LiveFrame
  <2>3. A \/ E
    BY <1>8, <2>1, <2>2 DEF Ending, RollbackAtEnd, CommitAtEnd
  <2> QED
    BY <2>3
<1> QED
  BY <1>1, <1>2, <1>3, <1>4, <1>5, <1>6, <1>7, <1>8 DEF TaskStep

\* Where a task can be: each step keeps ControlInv.
LEMMA ControlStep ==
  ASSUME TypeOK, ControlInv, TypeOK', NEW t \in Task, TaskStep(t)
  PROVE  ControlInv'
<1> DEFINE C(u) == /\ pc[u] = "begin" => ops[u] >= 1 /\ depth[u] < MaxDepth
                   /\ pc[u] \in {"panicking", "ending", "returned"} => depth[u] >= 1
                   /\ pc[u] = "getconn" => ~FromSqlTx(call[u].ctx)
                   /\ panic[u] # "none" => pc[u] \in {"panicking", "ending", "returned", "dead"}
<1>1. ASSUME NEW u \in Task \ {t} PROVE C(u)'
  BY OthersUnchanged DEF ControlInv, FromSqlTx
<1>2. C(t)'
  <2> USE DEF Goto
  <2>1. C(t) /\ ops[t] \in 0..MaxOps /\ depth[t] \in 0..MaxDepth
    BY DEF ControlInv, TypeOK
  <2>2. CASE BeginJoins(t) \/ RecoverFrame(t)
    BY <2>1, <2>2 DEF BeginJoins, RecoverFrame, CanAct, TypeOK
  <2>3. CASE BeginWaits(t)
    BY <2>1, <2>3 DEF BeginWaits, CanAct, Count, TypeOK
  <2>4. CASE BeginOpens(t) \/ BeginFails(t) \/ UserEnds(t) \/ CallOk(t)
    BY <2>1, <2>4 DEF BeginOpens, BeginFails, UserEnds, CallOk, CanAct, TypeOK
  <2>5. CASE StartCall(t)
    BY <2>1, <2>5 DEF StartCall, CanAct, GetEnableSqlTx, FromSqlTx, TypeOK
  <2>6. CASE GetConn(t)
    BY <2>1, <2>6 DEF GetConn, TypeOK
  <2>7. CASE GetConnFails(t) \/ CallFails(t)
    <3>1. /\ UNCHANGED <<ops, depth>>
          /\ \/ \E kind \in PanicKind : Raise(t, kind)
             \/ Goto(t, "user") /\ UNCHANGED panic
          /\ pc[t] \in {"getconn", "incall"}
      BY <2>7 DEF GetConnFails, CallFails, HandleErr, RuntimePanic, PanicKind
    <3>2. panic[t] = "none"
      BY <2>1, <3>1
    <3>3. CASE Goto(t, "user") /\ UNCHANGED panic
      BY <3>2, <3>3 DEF TypeOK
    <3>4. CASE \E kind \in PanicKind : Raise(t, kind)
      BY <2>1, <3>1, <3>4 DEF Raise, TypeOK
    <3> QED
      BY <3>1, <3>3, <3>4
  <2>8. CASE UserPanics(t)
    BY <2>1, <2>8 DEF UserPanics, CanAct, Raise, TypeOK
  <2>9. CASE Defer(t)
    BY <2>1, <2>9 DEF Defer, Unwinding, TypeOK
  <2>10. CASE Ending(t)
    BY <2>1, <2>10 DEF Ending, TypeOK
  <2>11. CASE Pop(t)
    BY <2>1, <2>11 DEF Pop, TypeOK
  <2> QED
    BY <2>2, <2>3, <2>4, <2>5, <2>6, <2>7, <2>8, <2>9, <2>10, <2>11 DEF TaskStep
<1> QED
  BY <1>1, <1>2 DEF ControlInv

\* Only Begin's wait for a connection names something new.
LEMMA CountStep ==
  ASSUME TypeOK, NEW t \in Task, TaskStep(t)
  PROVE  /\ ops'[t] = ops[t] \/ ops'[t] = ops[t] + 1
         /\ pc'[t] = "begin" => ops'[t] = ops[t] + 1
<1> USE DEF Goto
<1>1. CASE BeginJoins(t) \/ BeginWaits(t) \/ RecoverFrame(t) \/ StartCall(t) \/ UserPanics(t)
           \/ UserEnds(t)
  BY <1>1 DEF BeginJoins, BeginWaits, RecoverFrame, StartCall, UserPanics, UserEnds, CanAct,
     Count, TypeOK
<1>2. CASE BeginOpens(t) \/ BeginFails(t) \/ GetConn(t) \/ GetConnFails(t) \/ CallOk(t)
           \/ CallFails(t)
  BY <1>2 DEF BeginOpens, BeginFails, GetConn, GetConnFails, CallOk, CallFails, HandleErr, RuntimePanic,
     Raise, TypeOK
<1>3. CASE Defer(t) \/ Ending(t) \/ Pop(t)
  BY <1>3 DEF Defer, Ending, Pop, TypeOK
<1> QED
  BY <1>1, <1>2, <1>3 DEF TaskStep

\* A transaction never becomes unused again, and becomes active only by BeginOpens.
LEMMA TxStep ==
  ASSUME TypeOK, ControlInv, FreshInv, NEW t \in Task, TaskStep(t), NEW x \in Id
  PROVE  /\ tx[x] # "unused" => tx'[x] # "unused"
         /\ tx[x] \in {"committed", "aborted"} => tx'[x] = tx[x]
         /\ tx[x] = "unused" /\ tx'[x] # "unused" =>
              BeginOpens(t) /\ x = <<t, ops[t]>> /\ pc[t] = "begin"
         /\ tx[x] = "active" /\ tx'[x] # "active" => tx'[x] \in {"committed", "aborted"}
<1>1. CASE BeginOpens(t)
  <2>1. pc[t] = "begin" /\ tx' = [tx EXCEPT ![<<t, ops[t]>>] = "active"] /\ ops[t] \in 1..MaxOps
    BY <1>1 DEF BeginOpens, ControlInv, TypeOK
  <2>2. tx[<<t, ops[t]>>] = "unused"
    BY <2>1 DEF FreshInv
  <2> QED
    BY <1>1, <2>1, <2>2 DEF TypeOK
<1>2. CASE pc[t] # "begin" \/ UNCHANGED tx
  <2>1. \/ UNCHANGED tx
        \/ \E y \in Id, state \in {"committed", "aborted"} :
             tx[y] = "active" /\ tx' = [tx EXCEPT ![y] = state]
    BY <1>2, PoolStep DEF EndTx
  <2> QED
    BY <2>1 DEF TypeOK
<1>3. CASE pc[t] = "begin" /\ ~BeginOpens(t)
  <2>1. BeginFails(t)
    BY <1>3 DEF TaskStep, BeginJoins, BeginWaits, BeginFails, RecoverFrame, StartCall, GetConn,
       GetConnFails, CallOk, CallFails, UserPanics, UserEnds, Defer, Unwinding, Ending, Pop, CanAct
  <2>2. UNCHANGED tx
    BY <2>1 DEF BeginFails
  <2> QED
    BY <1>2, <2>2
<1> QED
  BY <1>1, <1>2, <1>3

\* The next unused transaction stays unused.
LEMMA FreshStep ==
  ASSUME TypeOK, ControlInv, FreshInv, NEW t \in Task, TaskStep(t) PROVE FreshInv'
<1> SUFFICES ASSUME NEW u \in Task, NEW n \in 1..MaxOps,
                    n > ops'[u] \/ (n = ops'[u] /\ pc'[u] = "begin")
             PROVE  tx'[<<u, n>>] = "unused"
  BY DEF FreshInv
<1>1. <<u, n>> \in Id /\ ops[u] \in Nat /\ ops[t] \in Nat
  BY DEF Id, TypeOK
<1>2. n > ops[u] \/ (n = ops[u] /\ pc[u] = "begin" /\ u # t)
  BY <1>1, CountStep, OthersUnchanged
<1>3. tx[<<u, n>>] = "unused"
  BY <1>2 DEF FreshInv
<1>4. <<u, n>> # <<t, ops[t]>>
  BY <1>1, <1>2
<1> QED
  BY <1>1, <1>3, <1>4, TxStep

\* The connections stay accounted for.
LEMMA ConnStep ==
  ASSUME TypeOK, TypeOK', ControlInv, FreshInv, ConnAccounting, NEW t \in Task, TaskStep(t)
  PROVE  ConnAccounting'
<1>1. \A u \in Task \ {t} : pc'[u] = pc[u] /\ call'[u] = call[u]
  BY OthersUnchanged
<1>2. Task \cap Id = {} /\ Free \notin Task \cup Id
  OBVIOUS
<1>3. \A c \in Conn : conn[c] \in Task \cup Id \cup {Free}
  BY DEF TypeOK
<1> USE DEF FromSqlTx
<1>4. CASE UNCHANGED <<tx, conn>> /\ (pc'[t] = "incall" => FromSqlTx(call'[t].ctx))
           /\ pc[t] # "incall"
  BY <1>1, <1>3, <1>4 DEF ConnAccounting
<1>5. ASSUME NEW c \in Conn, conn[c] = Free, pc[t] = "begin", pc'[t] = "user",
             <<t, ops[t]>> \in Id, conn' = [conn EXCEPT ![c] = <<t, ops[t]>>],
             tx' = [tx EXCEPT ![<<t, ops[t]>>] = "active"]
      PROVE  ConnAccounting'
  <2>1. tx[<<t, ops[t]>>] = "unused"
    BY <1>5 DEF FreshInv, Id
  <2>2. \A x \in Id : tx'[x] = IF x = <<t, ops[t]>> THEN "active" ELSE tx[x]
    BY <1>5 DEF TypeOK
  <2>3. \A b \in Conn : conn'[b] = IF b = c THEN <<t, ops[t]>> ELSE conn[b]
    BY <1>5 DEF TypeOK
  <2> QED
    BY <1>1, <1>2, <1>3, <1>5, <2>1, <2>2, <2>3 DEF ConnAccounting
<1>6. ASSUME NEW c \in Conn, conn[c] = Free, pc[t] = "getconn", pc'[t] = "incall",
             UNCHANGED <<tx, call>>, conn' = [conn EXCEPT ![c] = t]
      PROVE  ConnAccounting'
  <2>1. ~FromSqlTx(call[t].ctx)
    BY <1>6 DEF ControlInv
  <2>2. \A b \in Conn : conn'[b] = IF b = c THEN t ELSE conn[b]
    BY <1>6 DEF TypeOK
  <2> QED
    BY <1>1, <1>2, <1>3, <1>6, <2>1, <2>2 DEF ConnAccounting
<1>7. CASE pc[t] = "incall" /\ pc'[t] # "incall" /\ UNCHANGED tx /\ conn' = Released(t)
  <2>1. \A b \in Conn : conn'[b] = IF conn[b] = t THEN Free ELSE conn[b]
    BY <1>7 DEF Released
  <2> QED
    BY <1>1, <1>2, <1>3, <1>7, <2>1 DEF ConnAccounting
<1>8. ASSUME NEW x \in Id, NEW state \in {"committed", "aborted"}, tx[x] = "active",
             EndTx(x, state), pc[t] # "incall", pc'[t] # "incall"
      PROVE  ConnAccounting'
  <2>1. \A b \in Conn : conn'[b] = IF conn[b] = x THEN Free ELSE conn[b]
    BY <1>8 DEF EndTx, Released
  <2>2. \A y \in Id : tx'[y] = IF y = x THEN state ELSE tx[y]
    BY <1>8 DEF EndTx, TypeOK
  <2> QED
    BY <1>1, <1>2, <1>3, <1>8, <2>1, <2>2 DEF ConnAccounting
<1> QED
  BY <1>4, <1>5, <1>6, <1>7, <1>8, PoolStep

\* The frames of a task change at the top only.
LEMMA FrameStep ==
  ASSUME TypeOK, ControlInv, NEW t \in Task, TaskStep(t)
  PROVE  /\ \A d \in 1..depth[t] : d <= depth'[t] =>
              frame'[t][d].guard = frame[t][d].guard /\ frame'[t][d].ctx = frame[t][d].ctx
         /\ depth'[t] > depth[t] => /\ depth'[t] = depth[t] + 1
                                    /\ LET f == frame'[t][depth'[t]] IN
                                       \/ f.ctx.tx = CtxOf(t).tx
                                       \/ /\ BeginOpens(t) /\ f.guard = "autocommit"
                                          /\ f.ctx.tx = <<t, ops[t]>>
         /\ BeginOpens(t) => depth'[t] > depth[t]
                             /\ frame'[t][depth'[t]].guard = "autocommit"
                             /\ frame'[t][depth'[t]].ctx.tx = <<t, ops[t]>>
         /\ depth'[t] < depth[t] => Pop(t) /\ depth'[t] = depth[t] - 1
<1>1. depth[t] \in 0..MaxDepth /\ 1..depth[t] \subseteq 1..MaxDepth
  BY DEF TypeOK
<1>2. CASE UNCHANGED <<frame, depth>> /\ ~BeginOpens(t)
  BY <1>1, <1>2
<1>3. CASE UNCHANGED depth /\ ~BeginOpens(t) /\ \E e \in BOOLEAN : TakeErr(t, e)
  BY <1>1, <1>3, ErrTaken
<1>4. CASE UNCHANGED depth /\ ~BeginOpens(t) /\ depth[t] >= 1
           /\ frame' = [frame EXCEPT ![t][depth[t]].err = TRUE]
  BY <1>1, <1>4, ErrAssigned
<1>5. CASE BeginJoins(t) \/ RecoverFrame(t)
  <2> DEFINE id  == <<t, ops[t] + 1>>
             new == NewRecover(CtxOf(t), id)
  <2>1. PICK guard \in {"autocommit", "recover"} : Push(t, guard, new) /\ depth[t] < MaxDepth
    BY <1>5 DEF BeginJoins, RecoverFrame
  <2>2. id \in Id
    BY <1>5 DEF BeginJoins, RecoverFrame, CanAct, TypeOK, Id
  <2>3. new \in Ctx /\ new.tx = CtxOf(t).tx
    BY <2>2, ContextTypes
  <2>4. ~BeginOpens(t)
    BY <1>5 DEF BeginJoins, RecoverFrame, CanAct, BeginOpens
  <2> HIDE DEF new
  <2>5. /\ depth'[t] = depth[t] + 1
        /\ frame'[t][depth'[t]] = [guard |-> guard, ctx |-> new, err |-> FALSE]
        /\ \A d \in 1..depth[t] : frame'[t][d] = frame[t][d]
    BY <2>1, <2>3, Pushed
  <2> QED
    BY <1>1, <2>3, <2>4, <2>5
<1>6. CASE BeginOpens(t)
  <2> DEFINE id  == <<t, ops[t]>>
             new == NewSqlTx(NewRecover(CtxOf(t), id), id)
  <2>1. Push(t, "autocommit", new) /\ depth[t] < MaxDepth /\ id \in Id
    BY <1>6 DEF BeginOpens, ControlInv, TypeOK, Id
  <2>2. new \in Ctx /\ new.tx = id
    BY <2>1, ContextTypes
  <2> HIDE DEF new
  <2>3. /\ depth'[t] = depth[t] + 1
        /\ frame'[t][depth'[t]] = [guard |-> "autocommit", ctx |-> new, err |-> FALSE]
        /\ \A d \in 1..depth[t] : frame'[t][d] = frame[t][d]
    BY <2>1, <2>2, Pushed
  <2> QED
    BY <1>1, <1>6, <2>2, <2>3
<1>7. CASE Pop(t)
  <2>1. depth[t] >= 1 /\ depth'[t] = depth[t] - 1 /\ ~BeginOpens(t)
    BY <1>7 DEF Pop, ControlInv, TypeOK, BeginOpens
  <2>2. PICK v : frame' = [frame EXCEPT ![t] = [n \in 1..MaxDepth |->
                   IF n = depth[t] THEN NoFrame
                   ELSE IF n = depth[t] - 1 /\ panic[t] = "none" THEN [frame[t][n] EXCEPT !.err = v]
                   ELSE frame[t][n]]]
    BY <1>7 DEF Pop
  <2>3. ASSUME NEW d \in 1..depth[t], d <= depth'[t]
        PROVE  frame'[t][d].guard = frame[t][d].guard /\ frame'[t][d].ctx = frame[t][d].ctx
    <3>1. d \in 1..MaxDepth /\ d # depth[t] /\ frame[t][d] \in Frame
      BY <1>1, <2>1, <2>3 DEF TypeOK
    <3>2. frame'[t][d] = IF d = depth[t] - 1 /\ panic[t] = "none"
                         THEN [frame[t][d] EXCEPT !.err = v] ELSE frame[t][d]
      BY <2>2, <3>1 DEF TypeOK
    <3> QED
      BY <3>1, <3>2 DEF Frame
  <2> QED
    BY <1>1, <1>7, <2>1, <2>3
<1>8. CASE BeginWaits(t) \/ StartCall(t) \/ GetConn(t) \/ UserPanics(t)
  BY <1>2, <1>8 DEF BeginWaits, StartCall, GetConn, UserPanics, CanAct, BeginOpens
<1>9. CASE BeginFails(t)
  <2>1. UNCHANGED depth /\ TakeErr(t, TRUE) /\ depth'[t] = depth[t]
    BY <1>9 DEF BeginFails
  <2>2. ~BeginOpens(t)
    BY <1>1, <2>1 DEF BeginOpens, Push, TypeOK
  <2> QED
    BY <1>3, <2>1, <2>2
<1>10. CASE GetConnFails(t) \/ CallOk(t) \/ CallFails(t)
  BY <1>2, <1>3, <1>10 DEF GetConnFails, CallOk, CallFails, HandleErr, RuntimePanic, BeginOpens
<1>11. CASE UserEnds(t)
  BY <1>3, <1>11 DEF UserEnds, CanAct, BeginOpens
<1>12. CASE Defer(t)
  <2>1. depth[t] >= 1 /\ ~BeginOpens(t) /\ UNCHANGED depth
    BY <1>1, <1>12 DEF Defer, Unwinding, ControlInv, BeginOpens
  <2> QED
    BY <1>2, <1>4, <1>12, <2>1 DEF Defer
<1>13. CASE Ending(t)
  <2>1. depth[t] >= 1 /\ ~BeginOpens(t) /\ UNCHANGED depth
    BY <1>1, <1>13 DEF Ending, ControlInv, BeginOpens
  <2> QED
    BY <1>2, <1>4, <1>13, <2>1 DEF Ending, RollbackAtEnd, CommitAtEnd
<1> QED
  BY <1>5, <1>6, <1>7, <1>8, <1>9, <1>10, <1>11, <1>12, <1>13 DEF TaskStep

\* The transaction in the context of a live frame.
LEMMA LiveTx ==
  ASSUME TypeOK, NEW u \in Task, NEW d \in 1..depth[u]
  PROVE  /\ frame[u][d] \in LiveFrame /\ d \in 1..MaxDepth
         /\ frame[u][d].ctx.tx \in Id \cup {NoTx}
         /\ frame[u][d].guard = "autocommit" => frame[u][d].ctx.tx \in Id
<1>1. frame[u][d] \in LiveFrame /\ d \in 1..MaxDepth
  BY DEF TypeOK
<1> QED
  BY <1>1 DEF LiveFrame, Frame, Ctx

\* The transaction of a live frame has been opened.
LEMMA OpenedStep ==
  ASSUME TypeOK, TypeOK', ControlInv, FreshInv, OpenedInv, NEW t \in Task, TaskStep(t)
  PROVE  OpenedInv'
<1> SUFFICES ASSUME NEW u \in Task, NEW d \in 1..depth'[u], frame'[u][d].ctx.tx \in Id
             PROVE  tx'[frame'[u][d].ctx.tx] # "unused"
  BY DEF OpenedInv
<1>1. depth[u] \in Nat /\ depth'[u] \in Nat
  BY DEF TypeOK
<1>2. CASE u # t
  <2>1. frame'[u][d] = frame[u][d] /\ d \in 1..depth[u]
    BY <1>2, OthersUnchanged
  <2> QED
    BY <2>1, TxStep DEF OpenedInv
<1>3. CASE u = t /\ d <= depth[t]
  <2>1. d \in 1..depth[t] /\ frame'[t][d].ctx = frame[t][d].ctx
    BY <1>1, <1>3, FrameStep
  <2> QED
    BY <1>3, <2>1, TxStep DEF OpenedInv
<1>4. CASE u = t /\ d > depth[t]
  <2>1. d = depth'[t]
    BY <1>1, <1>4, FrameStep
  <2>2. CASE frame'[t][d].ctx.tx = CtxOf(t).tx
    <3>1. depth[t] # 0 /\ CtxOf(t) = frame[t][depth[t]].ctx
      BY <1>1, <1>4, <2>2 DEF CtxOf, Top
    <3>2. depth[t] \in 1..depth[t]
      BY <1>1, <1>4, <3>1
    <3> QED
      BY <1>4, <2>2, <3>1, <3>2, TxStep DEF OpenedInv
  <2>3. CASE BeginOpens(t) /\ frame'[t][d].ctx.tx = <<t, ops[t]>>
    BY <1>4, <2>3 DEF BeginOpens, TypeOK
  <2> QED
    BY <1>1, <1>4, <2>1, <2>2, <2>3, FrameStep
<1> QED
  BY <1>1, <1>3, <1>2, <1>4

\* What a task has done when its deferred handler is through: a transaction that an
\* AutoCommit frame carries is over, and committed if the function reports success.
LEMMA ReturnedStep ==
  ASSUME TypeOK, TypeOK', ControlInv, FreshInv, OpenedInv, NEW t \in Task, TaskStep(t),
         pc'[t] = "returned", Top(t)'.guard = "autocommit", panic'[t] # "other"
  PROVE  /\ tx'[Top(t)'.ctx.tx] \in {"committed", "aborted"}
         /\ panic'[t] = "none" /\ ~Top(t)'.err => tx'[Top(t)'.ctx.tx] = "committed"
<1>1. Ending(t) \/ Defer(t)
  <2> USE DEF Goto
  <2>1. CASE BeginJoins(t) \/ RecoverFrame(t) \/ UserEnds(t)
    BY <2>1 DEF BeginJoins, RecoverFrame, UserEnds, CanAct
  <2>2. CASE BeginWaits(t) \/ BeginOpens(t) \/ BeginFails(t) \/ GetConn(t) \/ CallOk(t)
    BY <2>2 DEF BeginWaits, BeginOpens, BeginFails, GetConn, CallOk, TypeOK
  <2>3. CASE StartCall(t) \/ UserPanics(t)
    BY <2>3 DEF StartCall, UserPanics, Raise, TypeOK
  <2>4. CASE GetConnFails(t) \/ CallFails(t)
    BY <2>4 DEF GetConnFails, CallFails, HandleErr, RuntimePanic, Raise, TypeOK
  <2>5. CASE Pop(t)
    BY <2>5 DEF Pop, TypeOK
  <2> QED
    BY <2>1, <2>2, <2>3, <2>4, <2>5 DEF TaskStep
<1>2. CASE Defer(t)
  BY <1>2 DEF Defer, Goto, TypeOK
<1>3. CASE Ending(t)
  <2> DEFINE x == Top(t).ctx.tx
  <2>1. depth[t] >= 1 /\ UNCHANGED <<depth, panic>> /\ depth[t] \in 1..depth[t]
    BY <1>3 DEF Ending, ControlInv, TypeOK
  <2>2. Top(t)'.guard = Top(t).guard /\ Top(t)'.ctx = Top(t).ctx
    BY <2>1, FrameStep DEF Top
  <2>3. x \in Id /\ tx[x] \in {"active", "committed", "aborted"}
    BY <2>1, <2>2, LiveTx DEF Top, OpenedInv, TypeOK
  <2>4. CASE Top(t).err /\ RollbackAtEnd(t, x)
    <3>1. Top(t)'.err
      BY <2>1, <2>4 DEF RollbackAtEnd, Top
    <3>2. tx'[x] \in {"committed", "aborted"}
      BY <2>3, <2>4 DEF RollbackAtEnd, EndTx, TypeOK
    <3> QED
      BY <2>2, <3>1, <3>2
  <2>5. CASE CommitAtEnd(t, x)
    <3>1. CASE tx[x] = "active" /\ EndTx(x, "committed")
      <4>1. tx'[x] = "committed"
        BY <2>3, <3>1 DEF EndTx, TypeOK
      <4> QED
        BY <2>2, <4>1
    <3>2. CASE /\ IF tx[x] = "active" THEN EndTx(x, "aborted") ELSE UNCHANGED <<tx, conn>>
               /\ frame' = [frame EXCEPT ![t][depth[t]].err = TRUE]
      <4>1. tx'[x] \in {"committed", "aborted"}
        BY <2>3, <3>2 DEF EndTx, TypeOK
      <4>2. Top(t)'.err
        BY <2>1, <3>2, ErrAssigned DEF Top
      <4> QED
        BY <2>2, <4>1, <4>2
    <3> QED
      BY <2>5, <3>1, <3>2 DEF CommitAtEnd
  <2> QED
    BY <1>3, <2>2, <2>4, <2>5 DEF Ending
<1> QED
  BY <1>1, <1>2, <1>3

\* An AutoCommit frame past its recover() has ended its transaction.
LEMMA EndedStep ==
  ASSUME TypeOK, TypeOK', ControlInv, FreshInv, OpenedInv, EndedInv, NilMeansCommitted,
         NEW t \in Task, TaskStep(t)
  PROVE  EndedInv' /\ NilMeansCommitted'
<1>1. ASSUME NEW u \in Task, u # t, pc'[u] = "returned", Top(u)'.guard = "autocommit"
      PROVE  /\ Top(u)' = Top(u) /\ pc[u] = "returned" /\ panic'[u] = panic[u]
             /\ Top(u).ctx.tx \in Id
             /\ tx[Top(u).ctx.tx] \in {"committed", "aborted"} =>
                  tx'[Top(u).ctx.tx] = tx[Top(u).ctx.tx]
  <2>1. Top(u)' = Top(u) /\ pc[u] = "returned" /\ panic'[u] = panic[u]
    BY <1>1, OthersUnchanged DEF Top
  <2>2. depth[u] \in 1..depth[u]
    BY <2>1 DEF ControlInv, TypeOK
  <2>3. Top(u).ctx.tx \in Id
    BY <1>1, <2>1, <2>2, LiveTx DEF Top
  <2> QED
    BY <2>1, <2>3, TxStep
<1>2. EndedInv'
  <2> SUFFICES ASSUME NEW u \in Task, pc'[u] = "returned", Top(u)'.guard = "autocommit",
                      panic'[u] # "other"
               PROVE  tx'[Top(u)'.ctx.tx] \in {"committed", "aborted"}
    BY DEF EndedInv
  <2>1. CASE u = t
    BY <2>1, ReturnedStep
  <2>2. CASE u # t
    BY <1>1, <2>2 DEF EndedInv
  <2> QED
    BY <2>1, <2>2
<1>3. NilMeansCommitted'
  <2> SUFFICES ASSUME NEW u \in Task, pc'[u] = "returned", Top(u)'.guard = "autocommit",
                      panic'[u] = "none", ~Top(u)'.err
               PROVE  tx'[Top(u)'.ctx.tx] = "committed"
    BY DEF NilMeansCommitted
  <2>1. CASE u = t
    BY <2>1, ReturnedStep
  <2>2. CASE u # t
    BY <1>1, <2>2 DEF NilMeansCommitted
  <2> QED
    BY <2>1, <2>2
<1> QED
  BY <1>2, <1>3

\* A panic whose value is not an error stays until it has left the task.
LEMMA OtherPanicStays ==
  ASSUME TypeOK, ControlInv, NEW t \in Task, TaskStep(t), panic[t] = "other"
  PROVE  panic'[t] = "other"
<1>1. pc[t] \in {"panicking", "ending", "returned", "dead"}
  BY DEF ControlInv
<1>2. Defer(t) \/ Ending(t) \/ Pop(t)
  BY <1>1 DEF TaskStep, BeginJoins, BeginWaits, BeginOpens, BeginFails, RecoverFrame, StartCall,
     GetConn, GetConnFails, CallOk, CallFails, UserPanics, UserEnds, CanAct
<1> QED
  BY <1>2 DEF Defer, Ending, Pop

\* Every active transaction keeps its frame.
LEMMA OrphanStep ==
  ASSUME TypeOK, TypeOK', ControlInv, FreshInv, EndedInv, NoOrphanTx, NEW t \in Task, TaskStep(t)
  PROVE  NoOrphanTx'
<1> SUFFICES ASSUME NEW x \in Id, tx'[x] = "active"
             PROVE  HasFrame(x)' \/ panic'[x[1]] = "other"
  BY DEF NoOrphanTx
<1>1. x[1] \in Task /\ depth[t] \in Nat /\ depth'[t] \in Nat
  BY DEF Id, TypeOK
<1>2. CASE tx[x] = "active" /\ x[1] # t
  <2>1. depth'[x[1]] = depth[x[1]] /\ frame'[x[1]] = frame[x[1]] /\ panic'[x[1]] = panic[x[1]]
    BY <1>1, <1>2, OthersUnchanged
  <2> QED
    BY <1>2, <2>1 DEF NoOrphanTx, HasFrame
<1>3. CASE tx[x] = "active" /\ x[1] = t
  <2>1. CASE panic[t] = "other"
    BY <1>3, <2>1, OtherPanicStays
  <2>2. CASE panic[t] # "other"
    <3>1. PICK d \in 1..depth[t] : frame[t][d].guard = "autocommit" /\ frame[t][d].ctx.tx = x
      BY <1>3, <2>2 DEF NoOrphanTx, HasFrame
    <3>2. d <= depth'[t]
      <4>1. SUFFICES ASSUME d > depth'[t] PROVE FALSE
        BY <1>1
      <4>2. Pop(t) /\ d = depth[t]
        BY <1>1, <4>1, FrameStep
      <4>3. pc[t] = "returned" /\ Top(t).guard = "autocommit" /\ Top(t).ctx.tx = x
        BY <3>1, <4>2 DEF Pop, Top
      <4> QED
        BY <1>3, <2>2, <4>3 DEF EndedInv
    <3>3. d \in 1..depth'[t] /\ frame'[t][d].guard = "autocommit" /\ frame'[t][d].ctx.tx = x
      BY <1>1, <3>1, <3>2, FrameStep
    <3> QED
      BY <1>3, <3>3 DEF HasFrame
  <2> QED
    BY <2>1, <2>2
<1>4. CASE tx[x] # "active"
  <2>1. BeginOpens(t) /\ x = <<t, ops[t]>>
    <3>1. tx[x] \in {"unused", "committed", "aborted"}
      BY <1>4 DEF TypeOK
    <3> QED
      BY <3>1, TxStep
  <2>2. /\ depth'[t] \in 1..depth'[t] /\ frame'[t][depth'[t]].guard = "autocommit"
        /\ frame'[t][depth'[t]].ctx.tx = x /\ x[1] = t
    BY <1>1, <2>1, FrameStep
  <2> QED
    BY <2>2 DEF HasFrame
<1> QED
  BY <1>2, <1>3, <1>4

\* The cancellation of a transaction's context keeps the invariant.
LEMMA CancelStep ==
  ASSUME Inv, TypeOK', NEW x \in Id, CancelTx(x) PROVE Inv'
<1>1. /\ TypeOK /\ ControlInv /\ FreshInv /\ OpenedInv /\ EndedInv /\ ConnAccounting
      /\ NoOrphanTx /\ NilMeansCommitted
  BY DEF Inv
<1>2. /\ tx[x] = "active" /\ UNCHANGED <<pc, ops, base, depth, frame, call, panic, flag>>
      /\ \A y \in Id : tx'[y] = IF y = x THEN "aborted" ELSE tx[y]
      /\ \A b \in Conn : conn'[b] = IF conn[b] = x THEN Free ELSE conn[b]
  BY <1>1 DEF CancelTx, EndTx, Released, TypeOK
<1>3. ControlInv'
  BY <1>1, <1>2 DEF ControlInv, FromSqlTx
<1>4. FreshInv'
  BY <1>1, <1>2 DEF FreshInv, Id
<1>5. OpenedInv'
  BY <1>1, <1>2 DEF OpenedInv
<1>6. ASSUME NEW u \in Task, pc[u] = "returned", Top(u).guard = "autocommit"
      PROVE  Top(u).ctx.tx \in Id /\ Top(u)' = Top(u)
  <2>1. depth[u] \in 1..depth[u]
    BY <1>1, <1>6 DEF ControlInv, TypeOK
  <2> QED
    BY <1>1, <1>2, <1>6, <2>1, LiveTx DEF Top
<1>7. EndedInv' /\ NilMeansCommitted'
  <2>1. ASSUME NEW u \in Task, pc[u] = "returned", Top(u).guard = "autocommit",
               tx[Top(u).ctx.tx] \in {"committed", "aborted"}
        PROVE  tx'[Top(u)'.ctx.tx] = tx[Top(u).ctx.tx]
    BY <1>2, <1>6, <2>1
  <2>2. \A u \in Task : Top(u)' = Top(u)
    BY <1>2 DEF Top
  <2>3. EndedInv'
    BY <1>1, <1>2, <2>1, <2>2 DEF EndedInv
  <2>4. NilMeansCommitted'
    BY <1>1, <1>2, <2>1, <2>2 DEF NilMeansCommitted
  <2> QED
    BY <2>3, <2>4
<1>8. NoOrphanTx'
  BY <1>1, <1>2 DEF NoOrphanTx, HasFrame
<1>9. ConnAccounting'
  <2>1. Task \cap Id = {} /\ Free \notin Task \cup Id
        /\ \A c \in Conn : conn[c] \in Task \cup Id \cup {Free}
    BY <1>1 DEF TypeOK
  <2> QED
    BY <1>1, <1>2, <2>1 DEF ConnAccounting, FromSqlTx
<1> QED
  BY <1>3, <1>4, <1>5, <1>7, <1>8, <1>9 DEF Inv

\* Every step keeps the invariant.
LEMMA InvStep == Inv /\ [Next]_vars => Inv'
<1> SUFFICES ASSUME Inv, [Next]_vars PROVE Inv'
  OBVIOUS
<1>1. /\ TypeOK /\ ControlInv /\ FreshInv /\ OpenedInv /\ EndedInv /\ ConnAccounting
      /\ NoOrphanTx /\ NilMeansCommitted
  BY DEF Inv
<1>2. TypeOK'
  BY <1>1, TypeNext
<1>3. ASSUME NEW t \in Task, TaskStep(t) PROVE Inv'
  BY <1>1, <1>2, <1>3, ControlStep, FreshStep, OpenedStep, EndedStep, ConnStep, OrphanStep DEF Inv
<1>4. ASSUME NEW x \in Id, CancelTx(x) PROVE Inv'
  BY <1>2, <1>4, CancelStep
<1>5. CASE UNCHANGED vars
  <2> USE <1>1, <1>5 DEF vars
  <2>1. ControlInv' /\ FreshInv' /\ OpenedInv'
    BY DEF ControlInv, FreshInv, OpenedInv, FromSqlTx
  <2>2. EndedInv' /\ NilMeansCommitted'
    BY DEF EndedInv, NilMeansCommitted, Top
  <2>3. ConnAccounting' /\ NoOrphanTx'
    BY DEF ConnAccounting, NoOrphanTx, FromSqlTx, HasFrame
  <2> QED
    BY <1>2, <2>1, <2>2, <2>3 DEF Inv
<1> QED
  BY <1>3, <1>4, <1>5 DEF Next, Quiescent

\* The invariant holds in every reachable state.
LEMMA Invariance == Spec => []Inv
<1>1. Init => Inv
  BY InitInv
<1>2. Inv /\ [Next]_vars => Inv'
  BY InvStep
<1> QED
  BY <1>1, <1>2, PTL DEF Spec

\* Types are respected; every deferred AutoCommit finds a recover cell and a transaction
\* in its context (sql_tx.go BeginTx, AutoCommit).
THEOREM TypeCorrect == Spec => []TypeOK
<1>1. Inv => TypeOK
  BY DEF Inv
<1> QED
  BY <1>1, Invariance, PTL

\* No connection leaks and none is held twice: what is out of the pool belongs to a call
\* in progress or to an active transaction (makefunc_context.go, deferred conn.Close).
THEOREM ConnectionsAccounted == Spec => []ConnAccounting
<1>1. Inv => ConnAccounting
  BY DEF Inv
<1> QED
  BY <1>1, Invariance, PTL

\* An active transaction has a deferred AutoCommit ahead of it unless its owner unwinds
\* with a panic whose value is not an error (sql_tx.go AutoCommit re-panics).
THEOREM TransactionsOwned == Spec => []NoOrphanTx
<1>1. Inv => NoOrphanTx
  BY DEF Inv
<1> QED
  BY <1>1, Invariance, PTL

\* A function whose AutoCommit reports success has its transaction committed (sql_tx.go
\* AutoCommit, Commit, Rollback and joined Begins).
THEOREM SuccessIsCommitted == Spec => []NilMeansCommitted
<1>1. Inv => NilMeansCommitted
  BY DEF Inv
<1> QED
  BY <1>1, Invariance, PTL
-----------------------------------------------------------------------------
\* What makes NoHoldAndWait and DbPanicNeverCommits inductive.  The frames of a task share
\* one recover cell, and one that carries a transaction passes it to every frame above, ...
ChainInv ==
  \A t \in Task : \A d \in 1..depth[t] :
    /\ frame[t][d].ctx.tx \in Id => frame[t][d].ctx.tx[1] = t
    /\ \A e \in 1..d : /\ frame[t][e].ctx.cell = frame[t][d].ctx.cell
                       /\ frame[t][e].ctx.tx \in Id => frame[t][d].ctx.tx = frame[t][e].ctx.tx

\* ... a disciplined call has the context of its frame, and a Begin waits outside any
\* transaction, ...
WaitInv ==
  \A t \in Task : /\ pc[t] \in {"getconn", "incall"} => call[t].ctx = CtxOf(t)
                  /\ pc[t] = "begin" => ~FromSqlTx(CtxOf(t))

\* ... and while the panic of a database function unwinds a task, the flag of its frames'
\* cell is set and an AutoCommit that did not recover it has an error to roll back for.
FlagInv ==
  \A t \in Task : panic[t] = "db" =>
    /\ \A d \in 1..depth[t] : flag[frame[t][d].ctx.cell] = TRUE
    /\ pc[t] = "ending" => Top(t).err = TRUE

DisciplineInv == ChainInv /\ WaitInv /\ FlagInv

\* A frame pushed on others keeps their cell, and their transaction if they carry one.
LEMMA PushKeeps ==
  ASSUME TypeOK, ControlInv, WaitInv, NEW t \in Task, TaskStep(t), depth'[t] > depth[t]
  PROVE  LET ctx == frame'[t][depth'[t]].ctx IN
         /\ depth[t] >= 1 => ctx.cell = CtxOf(t).cell
         /\ CtxOf(t).tx \in Id => ctx.tx = CtxOf(t).tx
         /\ ctx.tx \in Id => ctx.tx = CtxOf(t).tx \/ ctx.tx[1] = t
<1>1. depth[t] \in 0..MaxDepth
  BY DEF TypeOK
<1>2. BeginJoins(t) \/ RecoverFrame(t) \/ BeginOpens(t)
  <2>1. depth' # depth
    BY <1>1
  <2>2. ASSUME Pop(t) PROVE FALSE
    <3>1. depth' = [depth EXCEPT ![t] = depth[t] - 1]
      BY <2>2 DEF Pop
    <3> QED
      BY <1>1, <3>1 DEF TypeOK
  <2> QED
    BY <2>1, <2>2 DEF TaskStep, BeginWaits, BeginFails, StartCall, GetConn, GetConnFails,
       CallOk, CallFails, UserPanics, UserEnds, Defer, Ending
<1>3. depth[t] >= 1 => FromRecover(CtxOf(t))
  <2>1. depth[t] >= 1 => CtxOf(t) = frame[t][depth[t]].ctx /\ depth[t] \in 1..depth[t]
    BY <1>1 DEF CtxOf, Top
  <2>2. depth[t] >= 1 => frame[t][depth[t]] \in LiveFrame
    BY <2>1 DEF TypeOK
  <2> QED
    BY <2>1, <2>2 DEF LiveFrame, FromRecover, Cell
<1>4. depth[t] >= 1 => frame'[t][depth'[t]].ctx.cell = CtxOf(t).cell
  <2>1. CASE BeginJoins(t) \/ RecoverFrame(t)
    <3>1. PICK guard \in {"autocommit", "recover"} :
            Push(t, guard, NewRecover(CtxOf(t), <<t, ops[t] + 1>>)) /\ depth[t] < MaxDepth
      BY <2>1 DEF BeginJoins, RecoverFrame
    <3>2. <<t, ops[t] + 1>> \in Id
      BY <2>1 DEF BeginJoins, RecoverFrame, CanAct, TypeOK, Id
    <3>3. NewRecover(CtxOf(t), <<t, ops[t] + 1>>) \in Ctx
      BY <3>2, ContextTypes
    <3>4. frame'[t][depth'[t]] = [guard |-> guard, err |-> FALSE,
                                  ctx |-> NewRecover(CtxOf(t), <<t, ops[t] + 1>>)]
      BY <3>1, <3>3, Pushed
    <3> QED
      BY <1>3, <3>4 DEF NewRecover
  <2>2. CASE BeginOpens(t)
    <3> DEFINE id  == <<t, ops[t]>>
               new == NewSqlTx(NewRecover(CtxOf(t), id), id)
    <3>1. Push(t, "autocommit", new) /\ depth[t] < MaxDepth /\ id \in Id
      BY <2>2 DEF BeginOpens, ControlInv, TypeOK, Id
    <3>2. new \in Ctx /\ CtxOf(t) \in Ctx
      BY <3>1, ContextTypes
    <3>3. depth[t] >= 1 => new.cell = CtxOf(t).cell
      BY <1>3, <3>2 DEF NewRecover, NewSqlTx, Ctx
    <3> HIDE DEF new
    <3>4. frame'[t][depth'[t]] = [guard |-> "autocommit", ctx |-> new, err |-> FALSE]
      BY <3>1, <3>2, Pushed
    <3> QED
      BY <3>3, <3>4
  <2> QED
    BY <1>2, <2>1, <2>2
<1>5. LET x == frame'[t][depth'[t]].ctx.tx IN
      x = CtxOf(t).tx \/ (x = <<t, ops[t]>> /\ CtxOf(t).tx \notin Id)
  BY FrameStep DEF BeginOpens, WaitInv, FromSqlTx
<1> QED
  BY <1>4, <1>5

\* The chain of contexts: each step keeps ChainInv.
LEMMA ChainStep ==
  ASSUME TypeOK, TypeOK', ControlInv, WaitInv, ChainInv, NEW t \in Task, TaskStep(t)
  PROVE  ChainInv'
<1> SUFFICES ASSUME NEW u \in Task, NEW d \in 1..depth'[u]
             PROVE  /\ frame'[u][d].ctx.tx \in Id => frame'[u][d].ctx.tx[1] = u
                    /\ \A e \in 1..d :
                         /\ frame'[u][e].ctx.cell = frame'[u][d].ctx.cell
                         /\ frame'[u][e].ctx.tx \in Id =>
                              frame'[u][d].ctx.tx = frame'[u][e].ctx.tx
  BY DEF ChainInv
<1>1. depth[u] \in Nat /\ depth'[u] \in Nat /\ d \in Nat
  BY DEF TypeOK
<1>2. CASE u # t
  <2>1. depth'[u] = depth[u] /\ frame'[u] = frame[u]
    BY <1>2, OthersUnchanged
  <2> QED
    BY <2>1 DEF ChainInv
<1>3. CASE u = t /\ d <= depth[t]
  <2>1. d \in 1..depth[t] /\ \A e \in 1..d : frame'[t][e].ctx = frame[t][e].ctx
    BY <1>1, <1>3, FrameStep
  <2> QED
    BY <1>1, <1>3, <2>1 DEF ChainInv
<1>4. CASE u = t /\ d > depth[t]
  <2> DEFINE ctx == frame'[t][depth'[t]].ctx
  <2>1. d = depth'[t] /\ d = depth[t] + 1 /\ depth'[t] > depth[t]
    BY <1>1, <1>4, FrameStep
  <2>2. CtxOf(t).tx \in Id => CtxOf(t).tx[1] = t /\ depth[t] >= 1
    <3>1. depth[t] >= 1 => CtxOf(t) = frame[t][depth[t]].ctx /\ depth[t] \in 1..depth[t]
      BY <1>1, <1>4 DEF CtxOf, Top
    <3>2. depth[t] = 0 => CtxOf(t).tx = NoTx
      BY DEF CtxOf
    <3> QED
      BY <1>1, <1>4, <3>1, <3>2 DEF ChainInv
  <2>3. ctx.tx \in Id => ctx.tx[1] = t
    BY <2>1, <2>2, PushKeeps
  <2>4. ASSUME NEW e \in 1..depth[t]
        PROVE  /\ frame'[t][e].ctx.cell = ctx.cell
               /\ frame'[t][e].ctx.tx \in Id => ctx.tx = frame'[t][e].ctx.tx
    <3>1. frame'[t][e].ctx = frame[t][e].ctx
      <4>1. e \in 1..depth[t] /\ e <= depth'[t]
        BY <1>1, <1>4, <2>1
      <4> QED
        BY <4>1, FrameStep
    <3>2. depth[t] >= 1 /\ depth[t] \in 1..depth[t] /\ e \in 1..depth[t]
      BY <1>1, <1>4
    <3>3. CtxOf(t) = frame[t][depth[t]].ctx
      BY <3>2 DEF CtxOf, Top
    <3>4. /\ frame[t][e].ctx.cell = CtxOf(t).cell
          /\ frame[t][e].ctx.tx \in Id => CtxOf(t).tx = frame[t][e].ctx.tx
      BY <3>2, <3>3 DEF ChainInv
    <3> QED
      BY <2>1, <3>1, <3>2, <3>4, PushKeeps
  <2>5. \A e \in 1..d : e = d \/ e \in 1..depth[t]
    BY <1>1, <1>4, <2>1
  <2> QED
    BY <1>4, <2>1, <2>3, <2>4, <2>5
<1> QED
  BY <1>1, <1>2, <1>3, <1>4

\* Where a disciplined task waits: each step keeps WaitInv.
LEMMA WaitStep ==
  ASSUME Disciplined = TRUE, TypeOK, ControlInv, WaitInv, NEW t \in Task, TaskStep(t)
  PROVE  WaitInv'
<1> DEFINE W(u) == /\ pc[u] \in {"getconn", "incall"} => call[u].ctx = CtxOf(u)
                   /\ pc[u] = "begin" => ~FromSqlTx(CtxOf(u))
<1>1. ASSUME NEW u \in Task \ {t} PROVE W(u)'
  <2>1. base' = base
    BY DEF TaskStep, BeginJoins, BeginWaits, BeginOpens, BeginFails, RecoverFrame,
       StartCall, GetConn, GetConnFails, CallOk, CallFails, UserPanics, UserEnds, Defer, Ending, Pop
  <2>2. CtxOf(u)' = CtxOf(u)
    BY <2>1, OthersUnchanged DEF CtxOf, Top
  <2> QED
    BY <2>2, OthersUnchanged DEF WaitInv, FromSqlTx
<1>2. W(t)'
  <2> USE DEF Goto
  <2>1. UNCHANGED <<base, depth, frame>> => CtxOf(t)' = CtxOf(t)
    BY DEF CtxOf, Top
  <2>2. CASE BeginWaits(t)
    BY <2>1, <2>2 DEF BeginWaits, FromSqlTx, TypeOK
  <2>3. CASE StartCall(t)
    <3>1. PICK kind \in CallKind :
            call' = [call EXCEPT ![t] = [kind |-> kind, ctx |-> CtxOf(t)]]
      BY <2>3 DEF StartCall
    <3>2. call'[t].ctx = CtxOf(t)
      BY <3>1 DEF TypeOK
    <3>3. pc'[t] \in {"getconn", "incall"}
      BY <2>3 DEF StartCall, TypeOK
    <3> QED
      BY <2>1, <2>3, <3>2, <3>3 DEF StartCall
  <2>4. CASE GetConn(t)
    BY <2>1, <2>4 DEF GetConn, WaitInv, TypeOK
  <2>5. CASE pc'[t] \notin {"getconn", "incall", "begin"}
    BY <2>5
  <2>6. CASE BeginJoins(t) \/ RecoverFrame(t) \/ UserEnds(t)
    BY <2>5, <2>6 DEF BeginJoins, RecoverFrame, UserEnds, CanAct
  <2>7. CASE BeginOpens(t) \/ BeginFails(t) \/ CallOk(t) \/ UserPanics(t)
    BY <2>5, <2>7 DEF BeginOpens, BeginFails, CallOk, UserPanics, Raise, TypeOK
  <2>8. CASE GetConnFails(t) \/ CallFails(t)
    <3>1. Goto(t, "user") \/ \E kind \in PanicKind : Raise(t, kind)
      BY <2>8 DEF GetConnFails, CallFails, HandleErr, RuntimePanic, PanicKind
    <3>2. pc'[t] \in {"user", "dead", "panicking"}
      BY <3>1 DEF Raise, TypeOK
    <3> QED
      BY <2>5, <3>2
  <2>9. CASE Defer(t) \/ Ending(t) \/ Pop(t)
    BY <2>5, <2>9 DEF Defer, Ending, Pop, TypeOK
  <2> QED
    BY <2>2, <2>3, <2>4, <2>6, <2>7, <2>8, <2>9 DEF TaskStep
<1> QED
  BY <1>1, <1>2 DEF WaitInv

\* A recover flag is never reset.
LEMMA FlagStays ==
  ASSUME TypeOK, NEW t \in Task, TaskStep(t), NEW c \in Cell, flag[c] = TRUE
  PROVE  flag'[c] = TRUE
<1>1. CASE UNCHANGED flag
  BY <1>1
<1>2. CASE flag' = enableRecover(call[t].ctx)
  BY <1>2 DEF enableRecover, TypeOK
<1> QED
  BY <1>1, <1>2 DEF TaskStep, BeginJoins, BeginWaits, BeginOpens, BeginFails, RecoverFrame,
     StartCall, GetConn, GetConnFails, CallOk, CallFails, HandleErr, RuntimePanic, UserPanics,
     UserEnds, Defer, Ending, Pop

\* The panic of a database function starts in handleErr, which sets the flag of the call's
\* context first.
LEMMA DbPanicStarts ==
  ASSUME TypeOK, ControlInv, WaitInv, NEW t \in Task, TaskStep(t),
         panic[t] # "db", panic'[t] = "db"
  PROVE  /\ flag' = enableRecover(CtxOf(t)) /\ UNCHANGED <<depth, frame>>
         /\ pc'[t] \in {"dead", "panicking"}
<1>1. GetConnFails(t) \/ CallFails(t)
  <2>1. ~(BeginJoins(t) \/ BeginWaits(t) \/ BeginOpens(t) \/ BeginFails(t) \/ RecoverFrame(t)
          \/ StartCall(t) \/ GetConn(t) \/ CallOk(t) \/ UserEnds(t) \/ Ending(t) \/ Pop(t))
    BY DEF BeginJoins, BeginWaits, BeginOpens, BeginFails, RecoverFrame, StartCall, GetConn,
       CallOk, UserEnds, Ending, Pop
  <2>2. ~UserPanics(t) /\ ~Defer(t)
    BY DEF UserPanics, Raise, Defer, TypeOK
  <2> QED
    BY <2>1, <2>2 DEF TaskStep
<1>2. HandleErr(t) /\ call[t].kind = "panicfunc" /\ UNCHANGED depth
  BY <1>1 DEF GetConnFails, CallFails, HandleErr, RuntimePanic, Raise, TypeOK
<1>3. call[t].ctx = CtxOf(t)
  BY <1>1 DEF GetConnFails, CallFails, WaitInv
<1>4. pc'[t] \in {"dead", "panicking"}
  BY <1>2 DEF HandleErr, RuntimePanic, Raise, Goto, TypeOK
<1> QED
  BY <1>2, <1>3, <1>4 DEF HandleErr, RuntimePanic

\* While such a panic unwinds a task, the task only runs deferred handlers.
LEMMA DbPanicUnwinds ==
  ASSUME ControlInv, NEW t \in Task, TaskStep(t), panic[t] = "db"
  PROVE  Defer(t) \/ Ending(t) \/ Pop(t)
<1>1. pc[t] \in {"panicking", "ending", "returned", "dead"}
  BY DEF ControlInv
<1> QED
  BY <1>1 DEF TaskStep, BeginJoins, BeginWaits, BeginOpens, BeginFails, RecoverFrame, StartCall,
     GetConn, GetConnFails, CallOk, CallFails, UserPanics, UserEnds, CanAct

\* The cell of a live frame.
LEMMA LiveCell ==
  ASSUME TypeOK, NEW u \in Task, NEW d \in 1..depth[u]
  PROVE  frame[u][d].ctx.cell \in Cell /\ frame[u][d].err \in BOOLEAN
<1>1. frame[u][d] \in LiveFrame
  BY DEF TypeOK
<1> QED
  BY <1>1 DEF LiveFrame, Frame

\* Recovery is enabled wherever a database panic passes: each step keeps FlagInv.
LEMMA FlagStep ==
  ASSUME TypeOK, TypeOK', ControlInv, WaitInv, ChainInv, FlagInv, NEW t \in Task, TaskStep(t)
  PROVE  FlagInv'
<1> DEFINE F(u) == panic[u] = "db" =>
             /\ \A d \in 1..depth[u] : flag[frame[u][d].ctx.cell] = TRUE
             /\ pc[u] = "ending" => Top(u).err = TRUE
<1>1. ASSUME NEW u \in Task \ {t} PROVE F(u)'
  <2>1. SUFFICES ASSUME panic'[u] = "db" PROVE F(u)'
    OBVIOUS
  <2>2. panic[u] = "db" /\ depth'[u] = depth[u] /\ frame'[u] = frame[u] /\ pc'[u] = pc[u]
    BY <2>1, OthersUnchanged
  <2>3. Top(u)' = Top(u)
    BY <2>2 DEF Top
  <2>4. \A d \in 1..depth[u] : flag'[frame[u][d].ctx.cell] = TRUE
    BY <2>2, LiveCell, FlagStays DEF FlagInv
  <2> QED
    BY <2>2, <2>3, <2>4 DEF FlagInv
<1>2. F(t)'
  <2>1. SUFFICES ASSUME panic'[t] = "db" PROVE F(t)'
    OBVIOUS
  <2>2. depth[t] \in Nat /\ depth'[t] \in Nat
    BY DEF TypeOK
  <2>3. CASE panic[t] = "db"
    <3>1. Defer(t) \/ Ending(t) \/ Pop(t)
      BY <2>3, DbPanicUnwinds
    <3>2. depth'[t] <= depth[t]
      <4>1. CASE Defer(t) \/ Ending(t)
        BY <2>2, <4>1 DEF Defer, Ending
      <4>2. CASE Pop(t)
        BY <2>2, <4>2 DEF Pop, TypeOK
      <4> QED
        BY <3>1, <4>1, <4>2
    <3>3. ASSUME NEW d \in 1..depth'[t] PROVE flag'[frame'[t][d].ctx.cell] = TRUE
      <4>1. d \in 1..depth[t] /\ frame'[t][d].ctx = frame[t][d].ctx
        BY <2>2, <3>2, FrameStep
      <4> QED
        BY <2>3, <4>1, LiveCell, FlagStays DEF FlagInv
    <3>4. ASSUME pc'[t] = "ending" PROVE Top(t)'.err = TRUE
      <4>1. Defer(t)
        BY <3>1, <3>4 DEF Ending, Pop, Goto, TypeOK
      <4>2. ~Recovers(t) /\ UNCHANGED <<frame, depth>>
        BY <2>1, <2>3, <3>4, <4>1 DEF Defer, Goto, TypeOK
      <4>3. depth[t] \in 1..depth[t]
        BY <2>2, <4>1 DEF Defer, Unwinding, ControlInv
      <4>4. Top(t).ctx.cell \in Cell /\ flag[Top(t).ctx.cell] = TRUE /\ Top(t).err \in BOOLEAN
        BY <2>3, <4>3, LiveCell DEF FlagInv, Top
      <4>5. Top(t).err = TRUE
        BY <4>2, <4>4 DEF Recovers, FromRecover, Cell
      <4> QED
        BY <4>2, <4>5 DEF Top
    <3> QED
      BY <3>3, <3>4
  <2>4. CASE panic[t] # "db"
    <3>1. /\ flag' = enableRecover(CtxOf(t)) /\ UNCHANGED <<depth, frame>>
          /\ pc'[t] \in {"dead", "panicking"}
      BY <2>1, <2>4, DbPanicStarts
    <3>2. ASSUME NEW d \in 1..depth[t] PROVE flag'[frame[t][d].ctx.cell] = TRUE
      <4>1. depth[t] \in 1..depth[t] /\ CtxOf(t) = frame[t][depth[t]].ctx
        BY <2>2 DEF CtxOf, Top
      <4>2. frame[t][d].ctx.cell = CtxOf(t).cell /\ CtxOf(t).cell \in Cell
        BY <4>1, LiveCell DEF ChainInv
      <4>3. flag' = [flag EXCEPT ![CtxOf(t).cell] = TRUE]
        BY <3>1, <4>2 DEF enableRecover, FromRecover, Cell
      <4> QED
        BY <4>2, <4>3 DEF TypeOK
    <3> QED
      BY <3>1, <3>2
  <2> QED
    BY <2>3, <2>4
<1> QED
  BY <1>1, <1>2 DEF FlagInv

\* For disciplined users every step keeps the three.
LEMMA DisciplineStep ==
  ASSUME Disciplined = TRUE, Inv, Inv', DisciplineInv, [Next]_vars
  PROVE  DisciplineInv'
<1>1. TypeOK /\ TypeOK' /\ ControlInv /\ ChainInv /\ WaitInv /\ FlagInv
  BY DEF Inv, DisciplineInv
<1>2. ASSUME NEW t \in Task, TaskStep(t) PROVE DisciplineInv'
  BY <1>1, <1>2, ChainStep, WaitStep, FlagStep DEF DisciplineInv
<1>3. CASE UNCHANGED <<pc, base, depth, frame, call, panic, flag>>
  <2>1. \A t \in Task : Top(t)' = Top(t) /\ CtxOf(t)' = CtxOf(t)
    BY <1>3 DEF Top, CtxOf
  <2>2. ChainInv'
    BY <1>1, <1>3 DEF ChainInv
  <2>3. WaitInv'
    BY <1>1, <1>3, <2>1 DEF WaitInv, FromSqlTx
  <2>4. FlagInv'
    BY <1>1, <1>3, <2>1 DEF FlagInv
  <2> QED
    BY <2>2, <2>3, <2>4 DEF DisciplineInv
<1> QED
  BY <1>2, <1>3 DEF Next, CancelTx, Quiescent, vars

\* Disciplined users start in a state of the strengthened invariant and stay in it.
LEMMA DisciplineInvariance ==
  ASSUME Disciplined = TRUE PROVE Spec => [](Inv /\ DisciplineInv)
<1>1. Init => Inv /\ DisciplineInv
  <2>1. Init => DisciplineInv
    BY DEF Init, DisciplineInv, ChainInv, WaitInv, FlagInv
  <2> QED
    BY <2>1, InitInv
<1>2. Inv /\ DisciplineInv /\ [Next]_vars => (Inv /\ DisciplineInv)'
  BY InvStep, DisciplineStep
<1> QED
  BY <1>1, <1>2, PTL DEF Spec

\* Tasks that share an exhausted pool cannot wait for each other: whoever waits for a
\* connection, in Begin or in a generated function (makefunc_context.go), holds none.
THEOREM WaitersHoldNothing ==
  ASSUME Disciplined = TRUE PROVE Spec => []NoHoldAndWait
<1>1. Inv /\ DisciplineInv => NoHoldAndWait
  <2> SUFFICES ASSUME Inv, DisciplineInv, NEW t \in Task, pc[t] \in {"begin", "getconn"},
                      NEW x \in Id, x[1] = t, tx[x] = "active"
               PROVE  FALSE
    BY DEF NoHoldAndWait
  <2>1. TypeOK /\ ControlInv /\ NoOrphanTx /\ ChainInv /\ WaitInv
    BY DEF Inv, DisciplineInv
  <2>2. ~FromSqlTx(CtxOf(t)) /\ panic[t] = "none"
    BY <2>1 DEF ControlInv, WaitInv, FromSqlTx
  <2>3. PICK d \in 1..depth[t] : frame[t][d].ctx.tx = x
    BY <2>1, <2>2 DEF NoOrphanTx, HasFrame
  <2>4. depth[t] \in 1..depth[t] /\ d \in 1..depth[t] /\ CtxOf(t) = frame[t][depth[t]].ctx
    BY <2>1 DEF TypeOK, CtxOf, Top
  <2>5. CtxOf(t).tx = x
    BY <2>1, <2>3, <2>4 DEF ChainInv
  <2> QED
    BY <2>2, <2>5 DEF FromSqlTx
<1> QED
  BY <1>1, DisciplineInvariance, PTL

\* The transaction a step commits is the one in the context of the stepping task, which
\* commits it itself or returns without an error.
LEMMA Commits ==
  ASSUME TypeOK, ControlInv, NEW t \in Task, TaskStep(t), NEW x \in Id,
         tx[x] = "active", tx'[x] = "committed"
  PROVE  /\ depth[t] >= 1 /\ Top(t).ctx.tx = x
         /\ pc[t] = "user" \/ (pc[t] = "ending" /\ ~Top(t).err)
<1>1. CASE UNCHANGED tx
  BY <1>1
<1>2. CASE BeginOpens(t)
  BY <1>2 DEF BeginOpens, TypeOK
<1>3. CASE UserEnds(t)
  <2>1. x = CtxOf(t).tx /\ pc[t] = "user"
    BY <1>3 DEF UserEnds, EndTx, TypeOK, CanAct
  <2> QED
    BY <2>1 DEF CtxOf, TypeOK
<1>4. CASE Ending(t)
  <2>1. depth[t] >= 1 /\ pc[t] = "ending"
    BY <1>4 DEF Ending, ControlInv
  <2>2. CASE RollbackAtEnd(t, Top(t).ctx.tx)
    BY <2>2 DEF RollbackAtEnd, EndTx, TypeOK
  <2>3. CASE ~Top(t).err /\ CommitAtEnd(t, Top(t).ctx.tx)
    BY <2>1, <2>3 DEF CommitAtEnd, EndTx, TypeOK
  <2> QED
    BY <1>1, <1>4, <2>2, <2>3 DEF Ending
<1> QED
  BY <1>1, <1>2, <1>3, <1>4 DEF TaskStep, BeginJoins, BeginWaits, BeginFails, RecoverFrame,
     StartCall, GetConn, GetConnFails, CallOk, CallFails, UserPanics, Defer, Pop

\* A function without an error result that fails inside a transaction, and panics from
\* handleErr with the flag set (makefunc_context.go), never has its transaction committed on
\* the way out (AutoCommit of sql_tx.go).  Runtime panics in a call are not meant: they set no flag.
THEOREM DbPanicRollsBack ==
  ASSUME Disciplined = TRUE PROVE Spec => DbPanicNeverCommits
<1>1. ASSUME Inv, DisciplineInv, [Next]_vars, NEW x \in Id, panic[x[1]] = "db",
             tx[x] = "active", tx'[x] = "committed"
      PROVE  FALSE
  <2>1. TypeOK /\ ControlInv /\ ChainInv /\ FlagInv
    BY <1>1 DEF Inv, DisciplineInv
  <2>2. PICK t \in Task : TaskStep(t)
    <3>1. tx' # tx
      BY <1>1
    <3>2. ASSUME NEW y \in Id PROVE ~CancelTx(y)
      BY <1>1, <2>1 DEF CancelTx, EndTx, TypeOK
    <3> QED
      BY <1>1, <3>1, <3>2 DEF Next, Quiescent, vars
  <2>3. /\ depth[t] >= 1 /\ Top(t).ctx.tx = x
        /\ pc[t] = "user" \/ (pc[t] = "ending" /\ ~Top(t).err)
    BY <1>1, <2>1, <2>2, Commits
  <2>4. t = x[1]
    <3>1. depth[t] \in 1..depth[t] /\ frame[t][depth[t]].ctx.tx = x
      BY <2>1, <2>3 DEF TypeOK, Top
    <3> QED
      BY <2>1, <3>1 DEF ChainInv
  <2> QED
    BY <1>1, <2>1, <2>3, <2>4 DEF ControlInv, FlagInv
<1>2. Inv /\ DisciplineInv /\ [Next]_vars =>
        [\A x \in Id : panic[x[1]] = "db" /\ tx[x] = "active" => tx'[x] # "committed"]_vars
  BY <1>1
<1> QED
  BY <1>2, DisciplineInvariance, PTL DEF Spec, DbPanicNeverCommits
=============================================================================
