-------------------------- MODULE TemplateExecProof -------------------------
(***************************************************************************)
(* The variables in scope and the values carried while a template is       *)
(* executed, for any programs, data and depth of nesting.                  *)
(*                                                                         *)
(* A frame counts on the first variables of its stack, and the frames of   *)
(* one execution on more and more of them (VarsInv), because a pop and a   *)
(* loop cut the stack back to what the list below them has in scope        *)
(* (FramesInv).  Exact then says that the list being walked has its scope, *)
(* no more and no less.                                                    *)
(*                                                                         *)
(* Every value a frame, a variable or a parameter of the writer carries is *)
(* well formed: its text and its parameters match (IsValue), and a call    *)
(* that needs an argument has one (Ready).  DataInv says so of the whole   *)
(* state, and what is written and interpolated is read off it.             *)
(***************************************************************************)
EXTENDS TemplateExec, FiniteSetTheorems, SequenceTheorems, WellFoundedInduction, TLAPS

Evaluating == {"action", "if", "with", "range", "template"}
Carrier == {"list", "loop", "pop"} \cup Evaluating
Op == Carrier \cup {"pipeline", "call", "return"}
IsSeq(s) == s \in Seq({s[i] : i \in DOMAIN s})
FrameRec(f) ==
  [op : Op, dot : {f.dot}, nodes : Seq(Nodes), cmds : Seq(Commands), args : Seq(Arguments), list : {f.list},
   items : {f.items}, decls : Seq(STRING), isAssign : BOOLEAN, name : {f.name}, value : {f.value}, mark : Nat,
   top : Nat, scope : {f.scope}]
IsFrame(f) == f \in FrameRec(f) /\ IsSeq(f.scope)
IsVars(vs) == IsSeq(vs) /\ \A i \in DOMAIN vs : vs[i] = Variable(vs[i].name, vs[i].v)

\* How many variables a frame counts on: those of its scope, or those a pop leaves.
Low(f) == IF f.op = "pop" THEN f.mark ELSE Len(f.scope)
\* Whether names has them.
Holds(f, names) ==
  f.op \in Carrier => /\ Low(f) <= Len(names)
                      /\ f.op # "pop" => \A k \in 1..Len(f.scope) : f.scope[k] = names[k]
\* The variables of a pipeline are the last of names, or were there before.
Covers(decls, isAssign, names) ==
  IF isAssign THEN \A j \in DOMAIN decls : \E i \in DOMAIN names : names[i] = decls[j]
  ELSE Len(decls) <= Len(names) /\ \A j \in DOMAIN decls : names[Len(names) - Len(decls) + j] = decls[j]

\* A frame by itself, and what calls it.
Alone(p, f) ==
  /\ f.op \in Evaluating => f.nodes # <<>> /\ Head(f.nodes).op = f.op /\ f.mark = Len(f.scope)
  /\ f.op = "template" => Head(f.nodes).name \in DOMAIN p.defs
  /\ f.op = "loop" => f.top = Len(f.scope) /\ Len(f.decls) <= 2 /\ Covers(f.decls, f.isAssign, f.scope)
Over(f, g) ==
  /\ g.op \in {"pop", "loop", "return"} => f.op = "list"
  /\ g.op \in {"pop", "loop"} => g.mark = Len(f.scope)
  /\ g.op \in {"list"} \cup Evaluating => f.op \in {"pop", "loop", "return"}
  /\ g.op = "pipeline" => f.op \in Evaluating \cup {"pipeline", "call"}
  /\ g.op = "call" => f.op = "pipeline"
  /\ g.op = "pipeline" /\ f.op \in Evaluating =>
       g.decls = Head(f.nodes).pipe.decls /\ g.isAssign = Head(f.nodes).pipe.isAssign

\* The execution a frame belongs to.
Exec(fs, k) == 1 + Cardinality({i \in 1..k : fs[i].op = "return"})
FramesInv(p, fs) ==
  /\ IsSeq(fs) /\ Len(fs) > 0 /\ \A i \in DOMAIN fs : IsFrame(fs[i]) /\ Alone(p, fs[i])
  /\ fs[1].op \in {"list"} \cup Evaluating
  /\ \A i \in 2..Len(fs) : Over(fs[i - 1], fs[i])
VarsInv(fs, sts) ==
  /\ IsSeq(sts) /\ Len(sts) = Exec(fs, Len(fs)) /\ \A e \in DOMAIN sts : IsVars(sts[e])
  /\ \A i \in DOMAIN fs : Holds(fs[i], Names(sts[Exec(fs, i)]))
  /\ \A i, j \in DOMAIN fs : i < j /\ Exec(fs, i) = Exec(fs, j) /\ fs[i].op \in Carrier /\ fs[j].op \in Carrier =>
       Low(fs[i]) <= Low(fs[j])
  /\ \A i \in 2..Len(fs) : fs[i].op = "return" => Names(sts[Exec(fs, i) - 1]) = fs[i - 1].scope
Exact(f, names) ==
  /\ f.op = "list" => names = f.scope
  /\ f.op = "range" => Covers(Head(f.nodes).pipe.decls, Head(f.nodes).pipe.isAssign, names)
Good(p, fs, sts) == FramesInv(p, fs) /\ VarsInv(fs, sts) /\ Exact(Last(fs), Names(Last(sts)))
Inv == prog \in Program /\ (status = "running" => Good(prog, frames, states))
-----------------------------------------------------------------------------
\* Sequences of anything.
LEMMA AsSequence ==
  ASSUME NEW n \in Nat, NEW S, NEW f \in [1..n -> S]
  PROVE  f \in Seq(S) /\ Len(f) = n
OBVIOUS

LEMMA Sequence ==
  ASSUME NEW n \in Nat, NEW s, s = [i \in 1..n |-> s[i]]
  PROVE  IsSeq(s) /\ Len(s) = n /\ DOMAIN s = 1..n
<1> DEFINE S == {s[i] : i \in DOMAIN s}
<1>1. DOMAIN s = 1..n
  OBVIOUS
<1>2. s \in [1..n -> S]
  BY <1>1
<1> HIDE DEF S
<1>3. s \in Seq(S) /\ Len(s) = n
  BY <1>2, AsSequence
<1> QED
  BY <1>1, <1>3 DEF IsSeq, S

LEMMA SeqFacts ==
  ASSUME NEW s, IsSeq(s)
  PROVE  Len(s) \in Nat /\ DOMAIN s = 1..Len(s) /\ s = [i \in 1..Len(s) |-> s[i]]
BY DEF IsSeq

LEMMA SeqOf ==
  ASSUME NEW s, IsSeq(s), NEW S, \A i \in 1..Len(s) : s[i] \in S
  PROVE  s \in Seq(S)
<1>1. Len(s) \in Nat /\ s = [i \in 1..Len(s) |-> s[i]]
  BY SeqFacts
<1> DEFINE n == Len(s)
<1>2. s \in [1..n -> S]
  BY <1>1
<1>3. n \in Nat
  BY <1>1
<1> HIDE DEF n
<1> QED
  BY <1>2, <1>3, AsSequence

LEMMA SeqIs ==
  ASSUME NEW S, NEW s \in Seq(S)
  PROVE  IsSeq(s)
<1>1. Len(s) \in Nat /\ s = [i \in 1..Len(s) |-> s[i]]
  OBVIOUS
<1> QED
  BY <1>1, Sequence

LEMMA Concatenated ==
  ASSUME NEW s, IsSeq(s), NEW t, IsSeq(t)
  PROVE  /\ IsSeq(s \o t) /\ Len(s \o t) = Len(s) + Len(t)
         /\ \A i \in 1..Len(s) : (s \o t)[i] = s[i]
         /\ \A i \in 1..Len(t) : (s \o t)[Len(s) + i] = t[i]
<1> DEFINE S == {s[i] : i \in DOMAIN s} \cup {t[i] : i \in DOMAIN t}
<1>1. /\ Len(s) \in Nat /\ DOMAIN s = 1..Len(s)
      /\ Len(t) \in Nat /\ DOMAIN t = 1..Len(t)
  BY SeqFacts
<1>2. s \in Seq(S) /\ t \in Seq(S)
  <2>1. (\A i \in 1..Len(s) : s[i] \in S) /\ \A i \in 1..Len(t) : t[i] \in S
    BY <1>1
  <2> HIDE DEF S
  <2> QED BY <2>1, SeqOf
<1> HIDE DEF S
<1>3. s \o t \in Seq(S) /\ Len(s \o t) = Len(s) + Len(t)
  BY <1>2
<1>4. \A i \in 1..Len(s) : (s \o t)[i] = s[i]
  BY <1>2
<1>5. \A i \in 1..Len(t) : (s \o t)[Len(s) + i] = t[i]
  BY <1>2
<1> QED
  BY <1>3, <1>4, <1>5, SeqIs

LEMMA ConcatenatedRight ==
  ASSUME NEW s, IsSeq(s), NEW t, IsSeq(t), NEW i \in 1..Len(t)
  PROVE  (s \o t)[Len(s) + i] = t[i]
<1> QED BY Concatenated

LEMMA Appended ==
  ASSUME NEW s, IsSeq(s), NEW x
  PROVE  LET t == Append(s, x) IN
         /\ IsSeq(t) /\ Len(t) = Len(s) + 1 /\ DOMAIN t = 1..Len(s) + 1 /\ Last(t) = x /\ t[Len(s) + 1] = x
         /\ \A i \in 1..Len(s) : t[i] = s[i]
<1> DEFINE S == {s[i] : i \in DOMAIN s} \cup {x}
           t == Append(s, x)
<1>1. Len(s) \in Nat /\ DOMAIN s = 1..Len(s)
  BY SeqFacts
<1>2. s \in Seq(S)
  <2>1. \A i \in 1..Len(s) : s[i] \in S
    BY <1>1
  <2> HIDE DEF S
  <2> QED BY <2>1, SeqOf
<1>3. x \in S
  OBVIOUS
<1> HIDE DEF S
<1>4. t \in Seq(S) /\ Len(t) = Len(s) + 1 /\ t[Len(s) + 1] = x /\ \A i \in 1..Len(s) : t[i] = s[i]
  BY <1>2, <1>3
<1> HIDE DEF t
<1>5. IsSeq(t)
  BY <1>4, SeqIs
<1>6. DOMAIN t = 1..Len(s) + 1 /\ Last(t) = x
  BY <1>4, <1>5, SeqFacts DEF Last
<1> QED
  BY <1>4, <1>5, <1>6 DEF t

LEMMA Fronted ==
  ASSUME NEW s, IsSeq(s), Len(s) > 0
  PROVE  LET t == Front(s) IN
         /\ IsSeq(t) /\ Len(t) = Len(s) - 1 /\ DOMAIN t = 1..Len(s) - 1 /\ \A i \in 1..Len(s) - 1 : t[i] = s[i]
<1> DEFINE n == Len(s) - 1
           t == Front(s)
<1>1. n \in Nat /\ n <= Len(s)
  BY SeqFacts
<1>2. t = [i \in 1..n |-> s[i]]
  BY <1>1 DEF Front
<1> HIDE DEF n, t
<1>3. t = [i \in 1..n |-> t[i]]
  BY <1>2
<1>4. IsSeq(t) /\ Len(t) = n /\ DOMAIN t = 1..n
  BY <1>1, <1>3, Sequence
<1>5. \A i \in 1..n : t[i] = s[i]
  BY <1>2
<1> QED
  BY <1>4, <1>5 DEF n, t

\* Front(s) \o <<x>> and the like, as the actions of the model write stacks.
LEMMA Joined1 ==
  ASSUME NEW s, IsSeq(s), NEW x
  PROVE  s \o <<x>> = Append(s, x)
<1> DEFINE S == {s[i] : i \in DOMAIN s} \cup {x}
<1>1. Len(s) \in Nat /\ DOMAIN s = 1..Len(s)
  BY SeqFacts
<1>2. s \in Seq(S) /\ x \in S
  <2>1. \A i \in 1..Len(s) : s[i] \in S
    BY <1>1
  <2>2. x \in S
    OBVIOUS
  <2> HIDE DEF S
  <2> QED BY <2>1, <2>2, SeqOf
<1> HIDE DEF S
<1> QED
  BY <1>2

LEMMA Joined2 ==
  ASSUME NEW s, IsSeq(s), NEW x, NEW y
  PROVE  s \o <<x, y>> = Append(Append(s, x), y)
<1> DEFINE S == {s[i] : i \in DOMAIN s} \cup {x, y}
<1>1. Len(s) \in Nat /\ DOMAIN s = 1..Len(s)
  BY SeqFacts
<1>2. s \in Seq(S) /\ x \in S /\ y \in S
  <2>1. \A i \in 1..Len(s) : s[i] \in S
    BY <1>1
  <2>2. x \in S /\ y \in S
    OBVIOUS
  <2> HIDE DEF S
  <2> QED BY <2>1, <2>2, SeqOf
<1> HIDE DEF S
<1> QED
  BY <1>2

LEMMA Joined3 ==
  ASSUME NEW s, IsSeq(s), NEW x, NEW y, NEW z
  PROVE  s \o <<x, y, z>> = Append(Append(Append(s, x), y), z)
<1> DEFINE S == {s[i] : i \in DOMAIN s} \cup {x, y, z}
<1>1. Len(s) \in Nat /\ DOMAIN s = 1..Len(s)
  BY SeqFacts
<1>2. s \in Seq(S) /\ x \in S /\ y \in S /\ z \in S
  <2>1. \A i \in 1..Len(s) : s[i] \in S
    BY <1>1
  <2>2. x \in S /\ y \in S /\ z \in S
    OBVIOUS
  <2> HIDE DEF S
  <2> QED BY <2>1, <2>2, SeqOf
<1> HIDE DEF S
<1> QED
  BY <1>2
-----------------------------------------------------------------------------
\* Executions are counted frame by frame.
LEMMA ExecNext ==
  ASSUME NEW s, NEW k \in Nat
  PROVE  /\ Exec(s, 0) = 1 /\ Exec(s, k) \in Nat /\ Exec(s, k) >= 1
         /\ s[k + 1].op = "return" => Exec(s, k + 1) = Exec(s, k) + 1
         /\ s[k + 1].op # "return" => Exec(s, k + 1) = Exec(s, k)
<1> DEFINE C(n) == {i \in 1..n : s[i].op = "return"}
<1>0. /\ Exec(s, 0) = 1 + Cardinality(C(0)) /\ Exec(s, k) = 1 + Cardinality(C(k))
      /\ Exec(s, k + 1) = 1 + Cardinality(C(k + 1))
  BY DEF Exec
<1>1. C(0) = {}
  OBVIOUS
<1>2. IsFiniteSet(1..k)
  BY FS_Interval
<1>3. IsFiniteSet(C(k)) /\ k + 1 \notin C(k)
  BY <1>2, FS_Subset
<1>4. Cardinality(C(k)) \in Nat
  BY <1>3, FS_CardinalityType
<1>5. ASSUME s[k + 1].op = "return" PROVE Cardinality(C(k + 1)) = Cardinality(C(k)) + 1
  <2>1. C(k + 1) = C(k) \cup {k + 1}
    BY <1>5
  <2> HIDE DEF C
  <2> QED BY <1>3, <2>1, FS_AddElement
<1>6. ASSUME s[k + 1].op # "return" PROVE Cardinality(C(k + 1)) = Cardinality(C(k))
  <2>1. C(k + 1) = C(k)
    BY <1>6
  <2> QED BY <2>1
<1>7. Cardinality(C(0)) = 0
  BY <1>1, FS_EmptySet
<1> HIDE DEF C
<1> QED
  BY <1>0, <1>4, <1>5, <1>6, <1>7

LEMMA ExecSame ==
  ASSUME NEW s, NEW u, NEW k \in Nat, \A i \in 1..k : s[i] = u[i]
  PROVE  Exec(s, k) = Exec(u, k)
<1>1. {i \in 1..k : s[i].op = "return"} = {i \in 1..k : u[i].op = "return"}
  OBVIOUS
<1> QED
  BY <1>1 DEF Exec

LEMMA ExecMono ==
  ASSUME NEW s, NEW k \in Nat, NEW i \in 0..k
  PROVE  Exec(s, i) \in 1..Exec(s, k)
<1> DEFINE C(n) == {j \in 1..n : s[j].op = "return"}
<1>1. C(i) \subseteq C(k) /\ IsFiniteSet(1..k)
  BY FS_Interval
<1>2. IsFiniteSet(C(k))
  BY <1>1, FS_Subset
<1>3. Cardinality(C(i)) <= Cardinality(C(k)) /\ IsFiniteSet(C(i))
  BY <1>1, <1>2, FS_Subset
<1>4. Cardinality(C(i)) \in Nat /\ Cardinality(C(k)) \in Nat
  BY <1>2, <1>3, FS_CardinalityType
<1>5. Exec(s, i) = 1 + Cardinality(C(i)) /\ Exec(s, k) = 1 + Cardinality(C(k))
  BY DEF Exec
<1> HIDE DEF C
<1> QED
  BY <1>3, <1>4, <1>5

\* Frames below a return belong to an earlier execution.
LEMMA ExecBelow ==
  ASSUME NEW s, NEW k \in Nat, k > 0, s[k].op = "return", NEW i \in 0..k - 1
  PROVE  Exec(s, i) < Exec(s, k)
<1>1. k - 1 \in Nat /\ (k - 1) + 1 = k
  OBVIOUS
<1>2. Exec(s, k) = Exec(s, k - 1) + 1
  BY <1>1, ExecNext
<1>3. Exec(s, i) \in 1..Exec(s, k - 1)
  BY <1>1, ExecMono
<1>4. Exec(s, k - 1) \in Nat
  BY <1>1, ExecNext
<1> QED
  BY <1>2, <1>3, <1>4
-----------------------------------------------------------------------------
\* The stack of variables: what pushes, assignments and cuts make of the names.
LEMMA NamesFacts ==
  ASSUME NEW vs, IsVars(vs)
  PROVE  /\ Len(vs) \in Nat /\ DOMAIN vs = 1..Len(vs)
         /\ IsSeq(Names(vs)) /\ Len(Names(vs)) = Len(vs) /\ DOMAIN Names(vs) = 1..Len(vs)
         /\ \A i \in 1..Len(vs) : Names(vs)[i] = vs[i].name
<1>1. Len(vs) \in Nat /\ DOMAIN vs = 1..Len(vs)
  BY SeqFacts DEF IsVars
<1> DEFINE n == Len(vs)
           ns == Names(vs)
<1>2. ns = [i \in 1..n |-> vs[i].name]
  BY <1>1 DEF Names
<1>3. n \in Nat
  BY <1>1
<1> HIDE DEF n, ns
<1>4. ns = [i \in 1..n |-> ns[i]] /\ \A i \in 1..n : ns[i] = vs[i].name
  BY <1>2
<1>5. IsSeq(ns) /\ Len(ns) = n /\ DOMAIN ns = 1..n
  BY <1>3, <1>4, Sequence
<1> QED
  BY <1>1, <1>4, <1>5 DEF n, ns

LEMMA VariableFacts ==
  ASSUME NEW name, NEW v
  PROVE  LET x == Variable(name, v) IN x.name = name /\ x.v = v /\ x = Variable(x.name, x.v)
BY DEF Variable

\* Some variables have another value.
LEMMA Assigned ==
  ASSUME NEW vs, IsVars(vs), NEW value, NEW us, us = [i \in 1..Len(vs) |-> us[i]],
         \A i \in 1..Len(vs) : us[i] = Variable(vs[i].name, value) \/ us[i] = vs[i]
  PROVE  IsVars(us) /\ Names(us) = Names(vs) /\ Len(us) = Len(vs) /\ DOMAIN us = DOMAIN vs
<1>1. Len(vs) \in Nat /\ DOMAIN vs = 1..Len(vs)
  BY NamesFacts
<1>2. IsSeq(us) /\ Len(us) = Len(vs) /\ DOMAIN us = 1..Len(vs)
  BY <1>1, Sequence
<1>3. \A i \in 1..Len(vs) : us[i] = Variable(us[i].name, us[i].v) /\ us[i].name = vs[i].name
  <2> TAKE i \in 1..Len(vs)
  <2>1. us[i] = Variable(vs[i].name, value) \/ us[i] = vs[i]
    OBVIOUS
  <2>2. vs[i] = Variable(vs[i].name, vs[i].v)
    BY <1>1 DEF IsVars
  <2> QED BY <2>1, <2>2, VariableFacts
<1>4. Names(us) = Names(vs)
  BY <1>1, <1>2, <1>3 DEF Names
<1> QED
  BY <1>1, <1>2, <1>3, <1>4 DEF IsVars

LEMMA SetVarFacts ==
  ASSUME NEW vs, IsVars(vs), NEW k, NEW value
  PROVE  LET us == [vs EXCEPT ![k].v = value] IN
         /\ IsVars(us) /\ Names(us) = Names(vs) /\ Len(us) = Len(vs)
         /\ k \in DOMAIN vs => us[k].v = value
         /\ \A i \in DOMAIN vs : i # k => us[i] = vs[i]
<1> DEFINE us == [vs EXCEPT ![k].v = value]
<1>1. \A i \in DOMAIN vs : vs[i] = Variable(vs[i].name, vs[i].v)
  BY DEF IsVars
<1>2. us = [i \in DOMAIN vs |-> IF i = k THEN [vs[k] EXCEPT !.v = value] ELSE vs[i]]
  OBVIOUS
<1>3. k \in DOMAIN vs => [vs[k] EXCEPT !.v = value] = Variable(vs[k].name, value)
  <2> SUFFICES ASSUME k \in DOMAIN vs PROVE [vs[k] EXCEPT !.v = value] = Variable(vs[k].name, value)
    OBVIOUS
  <2> DEFINE x == vs[k]
  <2>1. x = [name |-> x.name, v |-> x.v]
    BY <1>1 DEF Variable
  <2> HIDE DEF x
  <2>2. [x EXCEPT !.v = value] = [name |-> x.name, v |-> value]
    BY <2>1
  <2> QED BY <2>2 DEF Variable, x
<1> HIDE DEF us
<1>4. \A i \in DOMAIN vs : us[i] = (IF i = k THEN Variable(vs[i].name, value) ELSE vs[i])
  BY <1>2, <1>3
<1>5. IsVars(us) /\ Names(us) = Names(vs) /\ Len(us) = Len(vs)
  <2>1. DOMAIN vs = 1..Len(vs)
    BY NamesFacts
  <2>2. us = [i \in 1..Len(vs) |-> us[i]]
    BY <1>2, <2>1
  <2>3. \A i \in 1..Len(vs) : us[i] = Variable(vs[i].name, value) \/ us[i] = vs[i]
    BY <1>4, <2>1
  <2> QED BY <2>2, <2>3, Assigned
<1>6. k \in DOMAIN vs => us[k].v = value
  BY <1>4, VariableFacts
<1>7. \A i \in DOMAIN vs : i # k => us[i] = vs[i]
  BY <1>4
<1> QED
  BY <1>5, <1>6, <1>7 DEF us


LEMMA Cut ==
  ASSUME NEW vs, IsVars(vs), NEW m \in 0..Len(vs)
  PROVE  LET us == pop(vs, m) IN
         /\ IsVars(us) /\ Len(us) = m /\ \A i \in 1..m : us[i] = vs[i] /\ Names(us)[i] = Names(vs)[i]
<1> DEFINE us == pop(vs, m)
<1>1. m \in Nat /\ Len(vs) \in Nat /\ DOMAIN vs = 1..Len(vs)
  BY NamesFacts
<1>2. us = [i \in 1..m |-> vs[i]]
  BY <1>1 DEF pop
<1> HIDE DEF us
<1>3. us = [i \in 1..m |-> us[i]] /\ \A i \in 1..m : us[i] = vs[i]
  BY <1>2
<1>4. IsSeq(us) /\ Len(us) = m /\ DOMAIN us = 1..m
  BY <1>1, <1>3, Sequence
<1>5. \A i \in 1..m : i \in DOMAIN vs
  BY <1>1
<1>6. IsVars(us)
  BY <1>3, <1>4, <1>5 DEF IsVars
<1>7. \A i \in 1..m : Names(us)[i] = Names(vs)[i]
  BY <1>1, <1>3, <1>4, <1>6, NamesFacts
<1> QED
  BY <1>3, <1>4, <1>6, <1>7 DEF us
-----------------------------------------------------------------------------
\* The stack of frames and the variables of its executions.
LEMMA StackFacts ==
  ASSUME NEW p, NEW fs, NEW sts, FramesInv(p, fs), VarsInv(fs, sts)
  PROVE  /\ IsSeq(fs) /\ Len(fs) \in Nat /\ Len(fs) > 0 /\ DOMAIN fs = 1..Len(fs) /\ Last(fs) = fs[Len(fs)]
         /\ IsFrame(Last(fs)) /\ Alone(p, Last(fs)) /\ Last(fs).op \in Op
         /\ IsSeq(sts) /\ Len(sts) \in Nat /\ Len(sts) > 0 /\ DOMAIN sts = 1..Len(sts) /\ Last(sts) = sts[Len(sts)]
         /\ Len(sts) = Exec(fs, Len(fs)) /\ IsVars(Last(sts))
         /\ Holds(Last(fs), Names(Last(sts)))
<1>1. IsSeq(fs) /\ Len(fs) \in Nat /\ Len(fs) > 0 /\ DOMAIN fs = 1..Len(fs) /\ Last(fs) = fs[Len(fs)]
  BY SeqFacts DEF FramesInv, Last
<1>2. IsFrame(Last(fs)) /\ Alone(p, Last(fs))
  BY <1>1 DEF FramesInv
<1>3. Last(fs).op \in Op
  BY <1>2 DEF IsFrame, FrameRec
<1>4. IsSeq(sts) /\ Len(sts) = Exec(fs, Len(fs)) /\ Last(sts) = sts[Len(sts)]
  BY DEF VarsInv, Last
<1>5. Len(sts) \in Nat /\ Len(sts) > 0 /\ DOMAIN sts = 1..Len(sts)
  BY <1>1, <1>4, SeqFacts, ExecNext
<1>6. IsVars(Last(sts)) /\ Holds(Last(fs), Names(Last(sts)))
  BY <1>1, <1>4, <1>5 DEF VarsInv
<1> QED
  BY <1>1, <1>2, <1>3, <1>4, <1>5, <1>6

\* A frame in the place of the last one or over it: gs is the first k frames of fs and f, which
\* counts on no fewer variables than the frames of its execution before it.
Topped(fs, gs, k, f) == IsSeq(gs) /\ Len(gs) = k + 1 /\ gs[k + 1] = f /\ \A i \in 1..k : gs[i] = fs[i]
Rises(fs, n, k, f) ==
  f.op \in Carrier => \A i \in 1..k : Exec(fs, i) = n /\ fs[i].op \in Carrier => Low(fs[i]) <= Low(f)

LEMMA Put ==
  ASSUME NEW p, NEW fs, NEW sts, FramesInv(p, fs), VarsInv(fs, sts), NEW k \in Nat,
         k = Len(fs) \/ (k = Len(fs) - 1 /\ Last(fs).op # "return"),
         NEW gs, NEW f, Topped(fs, gs, k, f), IsFrame(f), Alone(p, f), f.op # "return",
         k = 0 => f.op \in {"list"} \cup Evaluating, k > 0 => Over(fs[k], f),
         Holds(f, Names(Last(sts))),
         Rises(fs, Len(sts), k, f)
  PROVE  FramesInv(p, gs) /\ VarsInv(gs, sts) /\ Last(gs) = f
<1>0. /\ IsSeq(gs) /\ Len(gs) = k + 1 /\ gs[k + 1] = f /\ \A i \in 1..k : gs[i] = fs[i]
      /\ f.op \in Carrier => \A i \in 1..k : Exec(fs, i) = Len(sts) /\ fs[i].op \in Carrier => Low(fs[i]) <= Low(f)
  BY DEF Topped, Rises
<1> USE <1>0
<1>1. /\ Len(fs) \in Nat /\ Len(fs) > 0 /\ DOMAIN fs = 1..Len(fs) /\ Last(fs) = fs[Len(fs)]
      /\ Len(sts) = Exec(fs, Len(fs)) /\ Last(sts) = sts[Len(sts)] /\ DOMAIN sts = 1..Len(sts) /\ IsSeq(sts)
  BY StackFacts
<1>2. DOMAIN gs = 1..k + 1 /\ 1..k \subseteq DOMAIN fs /\ k <= Len(fs)
  BY <1>1, SeqFacts
<1>3. \A i \in 1..k : Exec(gs, i) = Exec(fs, i)
  <2> TAKE i \in 1..k
  <2>1. i \in Nat /\ \A j \in 1..i : gs[j] = fs[j]
    OBVIOUS
  <2> QED BY <2>1, ExecSame
<1>4. Exec(gs, k + 1) = Len(sts)
  <2>1. Exec(gs, k) = Exec(fs, k)
    BY ExecSame
  <2>2. Exec(gs, k + 1) = Exec(gs, k)
    BY ExecNext
  <2>3. CASE k = Len(fs)
    BY <1>1, <2>1, <2>2, <2>3
  <2>4. CASE k = Len(fs) - 1 /\ Last(fs).op # "return"
    <3>1. k + 1 = Len(fs) /\ fs[k + 1].op # "return"
      BY <1>1, <2>4
    <3>2. Exec(fs, k + 1) = Exec(fs, k)
      BY <3>1, ExecNext
    <3> QED BY <1>1, <2>1, <2>2, <3>1, <3>2
  <2> QED BY <2>3, <2>4
<1>5. FramesInv(p, gs)
  <2>1. \A i \in DOMAIN gs : IsFrame(gs[i]) /\ Alone(p, gs[i])
    <3> TAKE i \in DOMAIN gs
    <3>1. CASE i = k + 1
      BY <3>1
    <3>2. CASE i \in 1..k
      BY <1>2, <3>2 DEF FramesInv
    <3> QED BY <1>2, <3>1, <3>2
  <2>2. gs[1].op \in {"list"} \cup Evaluating
    <3>1. CASE k = 0
      BY <3>1
    <3>2. CASE k > 0
      <4>1. gs[1] = fs[1]
        BY <3>2
      <4> QED BY <4>1 DEF FramesInv
    <3> QED BY <3>1, <3>2
  <2>3. \A i \in 2..Len(gs) : Over(gs[i - 1], gs[i])
    <3>0. \A i \in 2..Len(fs) : Over(fs[i - 1], fs[i])
      BY DEF FramesInv
    <3> TAKE i \in 2..Len(gs)
    <3>1. CASE i = k + 1
      <4>1. k > 0 /\ i - 1 = k /\ gs[i - 1] = fs[k]
        BY <3>1
      <4> QED BY <3>1, <4>1
    <3>2. CASE i \in 2..k
      <4>2. k \in Nat /\ Len(fs) \in Nat /\ k <= Len(fs) /\ i \in 2..k
        BY <1>1, <1>2, <3>2
      <4>0. i \in 1..k /\ i - 1 \in 1..k /\ i \in 2..Len(fs)
        BY ONLY <4>2
      <4>1. gs[i] = fs[i] /\ gs[i - 1] = fs[i - 1] /\ i \in 2..Len(fs)
        BY <4>0
      <4> QED BY <3>0, <4>1
    <3> QED BY <3>1, <3>2
  <2> QED BY <2>1, <2>2, <2>3 DEF FramesInv
<1>6. \A i \in DOMAIN gs : Holds(gs[i], Names(sts[Exec(gs, i)]))
  <2> TAKE i \in DOMAIN gs
  <2>1. CASE i = k + 1
    BY <1>1, <1>4, <2>1
  <2>2. CASE i \in 1..k
    BY <1>2, <1>3, <2>2 DEF VarsInv
  <2> QED BY <1>2, <2>1, <2>2
<1>7. \A i, j \in DOMAIN gs : i < j /\ Exec(gs, i) = Exec(gs, j) /\ gs[i].op \in Carrier /\ gs[j].op \in Carrier =>
        Low(gs[i]) <= Low(gs[j])
  <2> TAKE i, j \in DOMAIN gs
  <2> HAVE i < j /\ Exec(gs, i) = Exec(gs, j) /\ gs[i].op \in Carrier /\ gs[j].op \in Carrier
  <2>1. i \in 1..k
    BY <1>2
  <2>2. CASE j = k + 1
    BY <1>3, <1>4, <2>1, <2>2
  <2>3. CASE j \in 1..k
    BY <1>2, <1>3, <2>1, <2>3 DEF VarsInv
  <2> QED BY <1>2, <2>2, <2>3
<1>8. \A i \in 2..Len(gs) : gs[i].op = "return" => Names(sts[Exec(gs, i) - 1]) = gs[i - 1].scope
  <2>0. \A i \in 2..Len(fs) : fs[i].op = "return" => Names(sts[Exec(fs, i) - 1]) = fs[i - 1].scope
    BY DEF VarsInv
  <2> TAKE i \in 2..Len(gs)
  <2> HAVE gs[i].op = "return"
  <2>1. i \in 2..k /\ i - 1 \in 1..k /\ i \in 1..k
    BY <1>2
  <2>4. k \in Nat /\ Len(fs) \in Nat /\ k <= Len(fs) /\ i \in 2..k
    BY <1>1, <1>2, <2>1
  <2>3. i \in 2..Len(fs)
    BY ONLY <2>4
  <2>2. i \in 2..Len(fs) /\ fs[i].op = "return" /\ Exec(gs, i) = Exec(fs, i) /\ gs[i - 1] = fs[i - 1]
    BY <1>3, <2>1, <2>3
  <2> QED BY <2>0, <2>2
<1>9. VarsInv(gs, sts)
  BY <1>1, <1>4, <1>6, <1>7, <1>8 DEF VarsInv
<1> QED
  BY <1>5, <1>9 DEF Last

LEMMA ReplaceTop ==
  ASSUME NEW p, NEW fs, NEW sts, FramesInv(p, fs), VarsInv(fs, sts), Last(fs).op # "return",
         NEW f, IsFrame(f), Alone(p, f), f.op # "return",
         Len(fs) = 1 => f.op \in {"list"} \cup Evaluating, Len(fs) > 1 => Over(fs[Len(fs) - 1], f),
         Holds(f, Names(Last(sts))),
         f.op \in Carrier => Last(fs).op \in Carrier /\ Low(Last(fs)) <= Low(f)
  PROVE  LET gs == Append(Front(fs), f) IN
         /\ FramesInv(p, gs) /\ VarsInv(gs, sts) /\ Last(gs) = f /\ Len(gs) = Len(fs)
         /\ \A i \in 1..Len(fs) - 1 : gs[i] = fs[i]
<1> DEFINE gs == Append(Front(fs), f)
           k == Len(fs) - 1
<1>0. /\ IsSeq(fs) /\ Len(fs) \in Nat /\ Len(fs) > 0 /\ DOMAIN fs = 1..Len(fs) /\ Last(fs) = fs[Len(fs)]
      /\ Len(sts) = Exec(fs, Len(fs)) /\ IsFrame(Last(fs))
  BY StackFacts
<1>1. /\ k \in Nat /\ k = Len(fs) - 1 /\ Len(fs) = k + 1 /\ DOMAIN fs = 1..k + 1 /\ Last(fs) = fs[k + 1]
      /\ Len(sts) = Exec(fs, k + 1) /\ IsFrame(Last(fs))
  BY <1>0
<1>2. IsSeq(gs) /\ Len(gs) = k + 1 /\ gs[k + 1] = f /\ \A i \in 1..k : gs[i] = fs[i]
  <2>1. IsSeq(Front(fs)) /\ Len(Front(fs)) = k /\ \A i \in 1..k : Front(fs)[i] = fs[i]
    BY <1>0, Fronted
  <2>2. IsSeq(gs) /\ Len(gs) = k + 1 /\ gs[k + 1] = f /\ \A i \in 1..k : gs[i] = Front(fs)[i]
    BY <2>1, Appended
  <2> HIDE DEF gs, k
  <2> QED BY <2>1, <2>2
<1> HIDE DEF gs, k
<1>3. ASSUME f.op \in Carrier, NEW i \in 1..k, Exec(fs, i) = Len(sts), fs[i].op \in Carrier
      PROVE  Low(fs[i]) <= Low(f)
  <2>1. i \in DOMAIN fs /\ k + 1 \in DOMAIN fs /\ i < k + 1
    BY <1>1
  <2>2. Low(fs[i]) <= Low(Last(fs))
    <3>1. \A m, j \in DOMAIN fs : m < j /\ Exec(fs, m) = Exec(fs, j) /\ fs[m].op \in Carrier /\ fs[j].op \in Carrier =>
            Low(fs[m]) <= Low(fs[j])
      BY DEF VarsInv
    <3>2. Exec(fs, i) = Exec(fs, k + 1) /\ fs[k + 1].op \in Carrier
      BY <1>1, <1>3
    <3> QED BY <1>1, <1>3, <2>1, <3>1, <3>2
  <2>3. IsFrame(fs[i])
    BY <2>1 DEF FramesInv
  <2>4. Low(fs[i]) \in Nat /\ Low(Last(fs)) \in Nat /\ Low(f) \in Nat
    BY <1>1, <2>3, SeqFacts DEF Low, IsFrame, FrameRec
  <2>5. Low(Last(fs)) <= Low(f)
    BY <1>3
  <2> QED BY <2>2, <2>4, <2>5
<1>4. (k = 0 => Len(fs) = 1) /\ (k > 0 => Len(fs) > 1)
  BY <1>1
<1>5. (k = 0 => f.op \in {"list"} \cup Evaluating) /\ (k > 0 => Over(fs[k], f))
  BY <1>1, <1>4
<1>6. k = Len(fs) \/ (k = Len(fs) - 1 /\ Last(fs).op # "return")
  BY <1>1
<1>7. Rises(fs, Len(sts), k, f)
  BY <1>3 DEF Rises
<1>8. k \in Nat /\ Topped(fs, gs, k, f)
  BY <1>1, <1>2 DEF Topped
<1>9. FramesInv(p, fs) /\ VarsInv(fs, sts) /\ IsFrame(f) /\ Alone(p, f) /\ f.op # "return" /\ Holds(f, Names(Last(sts)))
  OBVIOUS
<1>10. FramesInv(p, gs) /\ VarsInv(gs, sts) /\ Last(gs) = f
  BY ONLY <1>5, <1>6, <1>7, <1>8, <1>9, Put
<1> QED
  BY <1>1, <1>2, <1>10 DEF gs

LEMMA PushTop ==
  ASSUME NEW p, NEW fs, NEW sts, FramesInv(p, fs), VarsInv(fs, sts),
         NEW f, IsFrame(f), Alone(p, f), f.op # "return", Over(Last(fs), f),
         Holds(f, Names(Last(sts))),
         f.op \in Carrier => Last(fs).op = "return" \/ (Last(fs).op \in Carrier /\ Low(Last(fs)) <= Low(f))
  PROVE  LET gs == Append(fs, f) IN
         /\ FramesInv(p, gs) /\ VarsInv(gs, sts) /\ Last(gs) = f /\ Len(gs) = Len(fs) + 1
         /\ \A i \in 1..Len(fs) : gs[i] = fs[i]
<1> DEFINE gs == Append(fs, f)
           k == Len(fs)
<1>0. /\ IsSeq(fs) /\ Len(fs) \in Nat /\ Len(fs) > 0 /\ DOMAIN fs = 1..Len(fs) /\ Last(fs) = fs[Len(fs)]
      /\ Len(sts) = Exec(fs, Len(fs)) /\ IsFrame(Last(fs))
  BY StackFacts
<1>2. IsSeq(gs) /\ Len(gs) = k + 1 /\ gs[k + 1] = f /\ \A i \in 1..k : gs[i] = fs[i]
  BY <1>0, Appended
<1>1. /\ k \in Nat /\ k > 0 /\ DOMAIN fs = 1..k /\ Last(fs) = fs[k]
      /\ Len(sts) = Exec(fs, k) /\ IsFrame(Last(fs)) /\ k = Len(fs)
  BY <1>0
<1> HIDE DEF gs, k
<1>3. ASSUME f.op \in Carrier, NEW i \in 1..k, Exec(fs, i) = Len(sts), fs[i].op \in Carrier
      PROVE  Low(fs[i]) <= Low(f)
  <2>1. CASE Last(fs).op = "return"
    <3>1. i # k
      BY <1>1, <1>3, <2>1 DEF Carrier, Evaluating
    <3>2. i \in 0..k - 1 /\ k \in Nat /\ k > 0
      BY <1>1, <3>1
    <3>3. fs[k].op = "return"
      BY <1>1, <2>1
    <3>4. Exec(fs, i) < Exec(fs, k)
      BY <3>2, <3>3, ExecBelow
    <3>5. Exec(fs, k) \in Nat
      BY <3>2, ExecNext
    <3> QED BY <1>1, <1>3, <3>4, <3>5
  <2>2. ASSUME i # k, Last(fs).op \in Carrier, Low(Last(fs)) <= Low(f) PROVE Low(fs[i]) <= Low(f)
    <3>1. Low(fs[i]) <= Low(Last(fs))
      <4>1. i \in DOMAIN fs /\ k \in DOMAIN fs /\ i < k
        BY <1>1, <2>2
      <4>2. \A m, j \in DOMAIN fs : m < j /\ Exec(fs, m) = Exec(fs, j) /\ fs[m].op \in Carrier /\ fs[j].op \in Carrier =>
              Low(fs[m]) <= Low(fs[j])
        BY DEF VarsInv
      <4>3. Exec(fs, i) = Exec(fs, k) /\ fs[k].op \in Carrier
        BY <1>1, <1>3, <2>2
      <4> QED BY <1>1, <1>3, <4>1, <4>2, <4>3
    <3>2. IsFrame(fs[i])
      BY <1>1 DEF FramesInv
    <3>3. Low(fs[i]) \in Nat /\ Low(Last(fs)) \in Nat /\ Low(f) \in Nat
      BY <1>1, <3>2, SeqFacts DEF Low, IsFrame, FrameRec
    <3> QED BY <2>2, <3>1, <3>3
  <2>3. ASSUME i = k, Low(Last(fs)) <= Low(f) PROVE Low(fs[i]) <= Low(f)
    BY <1>1, <2>3
  <2> QED BY <1>3, <2>1, <2>2, <2>3
<1>4. k > 0 => Over(fs[k], f)
  BY <1>1
<1>6. Rises(fs, Len(sts), k, f) /\ Topped(fs, gs, k, f)
  BY <1>2, <1>3 DEF Rises, Topped
<1>5. FramesInv(p, gs) /\ VarsInv(gs, sts) /\ Last(gs) = f
  BY <1>1, <1>4, <1>6, Put
<1> QED
  BY <1>1, <1>2, <1>5 DEF gs

\* Every frame has its execution, and a return one before it.
LEMMA ExecFacts ==
  ASSUME NEW p, NEW fs, NEW sts, FramesInv(p, fs), VarsInv(fs, sts)
  PROVE  /\ \A i \in DOMAIN fs : Exec(fs, i) \in DOMAIN sts
         /\ \A i \in 2..Len(fs) : fs[i].op = "return" => Exec(fs, i) - 1 \in 1..Len(sts) - 1
<1>1. Len(fs) \in Nat /\ DOMAIN fs = 1..Len(fs) /\ Len(sts) = Exec(fs, Len(fs)) /\ DOMAIN sts = 1..Len(sts) /\ Len(sts) \in Nat
  BY StackFacts
<1>2. ASSUME NEW i \in DOMAIN fs PROVE Exec(fs, i) \in 1..Len(sts)
  <2>1. i \in 0..Len(fs)
    BY <1>1
  <2> QED BY <1>1, <2>1, ExecMono
<1>3. ASSUME NEW i \in 2..Len(fs), fs[i].op = "return" PROVE Exec(fs, i) - 1 \in 1..Len(sts) - 1
  <2>1. i \in DOMAIN fs /\ i - 1 \in Nat /\ i - 1 + 1 = i
    BY <1>1
  <2>2. Exec(fs, i - 1) \in Nat /\ Exec(fs, i - 1) >= 1 /\ Exec(fs, i) = Exec(fs, i - 1) + 1
    BY <1>3, <2>1, ExecNext
  <2>3. Exec(fs, i) \in 1..Len(sts)
    BY <1>2, <2>1
  <2> QED BY ONLY <1>1, <2>2, <2>3
<1> QED
  BY <1>1, <1>2, <1>3

\* A call of another template: its execution has variables of its own.
LEMMA PushReturn ==
  ASSUME NEW p, NEW fs, NEW sts, FramesInv(p, fs), VarsInv(fs, sts),
         Last(fs).op = "list", Names(Last(sts)) = Last(fs).scope,
         NEW f, IsFrame(f), f.op = "return", NEW vs, IsVars(vs)
  PROVE  LET gs == Append(fs, f)
             ts == Append(sts, vs)
         IN /\ FramesInv(p, gs) /\ VarsInv(gs, ts) /\ Last(gs) = f /\ Last(ts) = vs /\ Len(gs) = Len(fs) + 1
<1> DEFINE gs == Append(fs, f)
           ts == Append(sts, vs)
           n == Len(fs)
           m == Len(sts)
<1>1. /\ IsSeq(fs) /\ n \in Nat /\ n > 0 /\ DOMAIN fs = 1..n /\ Last(fs) = fs[n] /\ n = Len(fs)
      /\ IsSeq(sts) /\ m \in Nat /\ m > 0 /\ DOMAIN sts = 1..m /\ m = Exec(fs, n) /\ Last(sts) = sts[m] /\ m = Len(sts)
  BY StackFacts
<1>2. IsSeq(gs) /\ Len(gs) = n + 1 /\ DOMAIN gs = 1..n + 1 /\ gs[n + 1] = f /\ Last(gs) = f /\ \A i \in 1..n : gs[i] = fs[i]
  BY <1>1, Appended
<1>3. IsSeq(ts) /\ Len(ts) = m + 1 /\ DOMAIN ts = 1..m + 1 /\ ts[m + 1] = vs /\ Last(ts) = vs /\ \A i \in 1..m : ts[i] = sts[i]
  BY <1>1, Appended
<1>4. /\ \A i \in 1..n : Exec(fs, i) \in 1..m
      /\ \A i \in 2..n : fs[i].op = "return" => Exec(fs, i) - 1 \in 1..m - 1
  BY <1>1, ExecFacts
<1> HIDE DEF gs, ts, n, m
<1>5. \A i \in 1..n : Exec(gs, i) = Exec(fs, i)
  <2> TAKE i \in 1..n
  <2>1. i \in Nat /\ \A j \in 1..i : gs[j] = fs[j]
    BY <1>1, <1>2
  <2> QED BY <2>1, ExecSame
<1>6. Exec(gs, n + 1) = m + 1
  <2>1. Exec(gs, n) = m
    <3>1. n \in 1..n
      BY <1>1
    <3> QED BY <1>1, <1>5, <3>1
  <2>2. n \in Nat /\ gs[n + 1].op = "return"
    BY <1>1, <1>2
  <2>3. Exec(gs, n + 1) = Exec(gs, n) + 1
    BY <2>2, ExecNext
  <2> QED BY <2>1, <2>3
<1>7. FramesInv(p, gs)
  <2>1. \A i \in DOMAIN gs : IsFrame(gs[i]) /\ Alone(p, gs[i])
    <3> TAKE i \in DOMAIN gs
    <3>1. CASE i = n + 1
      BY <1>2, <3>1 DEF Alone, Evaluating
    <3>2. CASE i \in 1..n
      BY <1>1, <1>2, <3>2 DEF FramesInv
    <3> QED BY <1>1, <1>2, <3>1, <3>2
  <2>2. gs[1].op \in {"list"} \cup Evaluating
    <3>1. gs[1] = fs[1]
      BY <1>1, <1>2
    <3> QED BY <3>1 DEF FramesInv
  <2>3. \A i \in 2..Len(gs) : Over(gs[i - 1], gs[i])
    <3>0. \A i \in 2..n : Over(fs[i - 1], fs[i])
      BY <1>1 DEF FramesInv
    <3> TAKE i \in 2..Len(gs)
    <3>1. CASE i = n + 1
      <4>1. gs[i] = f /\ gs[i - 1] = fs[n]
        BY <1>1, <1>2, <3>1
      <4> QED BY <1>1, <4>1 DEF Over, Evaluating
    <3>2. CASE i \in 2..n
      <4>1. gs[i] = fs[i] /\ gs[i - 1] = fs[i - 1]
        BY <1>1, <1>2, <3>2
      <4> QED BY <3>0, <3>2, <4>1
    <3> QED BY <1>1, <1>2, <3>1, <3>2
  <2> QED BY <1>1, <1>2, <2>1, <2>2, <2>3 DEF FramesInv
<1>8. VarsInv(gs, ts)
  <2>1. \A e \in DOMAIN ts : IsVars(ts[e])
    <3> TAKE e \in DOMAIN ts
    <3>1. CASE e = m + 1
      BY <1>3, <3>1
    <3>2. CASE e \in 1..m
      BY <1>1, <1>3, <3>2 DEF VarsInv
    <3> QED BY <1>1, <1>3, <3>1, <3>2
  <2>2. \A i \in DOMAIN gs : Holds(gs[i], Names(ts[Exec(gs, i)]))
    <3> TAKE i \in DOMAIN gs
    <3>1. CASE i = n + 1
      BY <1>2, <3>1 DEF Holds, Carrier, Evaluating
    <3>2. CASE i \in 1..n
      <4>1. gs[i] = fs[i] /\ ts[Exec(gs, i)] = sts[Exec(fs, i)]
        BY <1>2, <1>3, <1>4, <1>5, <3>2
      <4> QED BY <1>1, <3>2, <4>1 DEF VarsInv
    <3> QED BY <1>1, <1>2, <3>1, <3>2
  <2>3. \A i, j \in DOMAIN gs : i < j /\ Exec(gs, i) = Exec(gs, j) /\ gs[i].op \in Carrier /\ gs[j].op \in Carrier =>
          Low(gs[i]) <= Low(gs[j])
    <3> TAKE i, j \in DOMAIN gs
    <3> HAVE i < j /\ Exec(gs, i) = Exec(gs, j) /\ gs[i].op \in Carrier /\ gs[j].op \in Carrier
    <3>1. j # n + 1
      BY <1>2 DEF Carrier, Evaluating
    <3>2. i \in 1..n /\ j \in 1..n
      BY <1>1, <1>2, <3>1
    <3> QED BY <1>1, <1>2, <1>5, <3>2 DEF VarsInv
  <2>4. \A i \in 2..Len(gs) : gs[i].op = "return" => Names(ts[Exec(gs, i) - 1]) = gs[i - 1].scope
    <3>0. \A i \in 2..n : fs[i].op = "return" => Names(sts[Exec(fs, i) - 1]) = fs[i - 1].scope
      BY <1>1 DEF VarsInv
    <3> TAKE i \in 2..Len(gs)
    <3> HAVE gs[i].op = "return"
    <3>1. CASE i = n + 1
      <4>1. gs[i - 1] = fs[n] /\ Exec(gs, i) - 1 = m /\ ts[m] = sts[m]
        BY <1>1, <1>2, <1>3, <1>6, <3>1
      <4> QED BY <1>1, <4>1
    <3>2. CASE i \in 2..n
      <4>1. gs[i] = fs[i] /\ gs[i - 1] = fs[i - 1] /\ i \in 1..n
        BY <1>1, <1>2, <3>2
      <4>2. Exec(fs, i) - 1 \in 1..m
        BY <1>1, <1>4, <3>2, <4>1
      <4>3. ts[Exec(gs, i) - 1] = sts[Exec(fs, i) - 1]
        BY <1>3, <1>5, <4>1, <4>2
      <4> QED BY <3>0, <3>2, <4>1, <4>3
    <3> QED BY <1>1, <1>2, <3>1, <3>2
  <2> QED BY <1>2, <1>3, <1>6, <2>1, <2>2, <2>3, <2>4 DEF VarsInv
<1> QED
  BY <1>2, <1>3, <1>7, <1>8 DEF gs, ts, n

\* The last frame but a return is left.
LEMMA PopTop ==
  ASSUME NEW p, NEW fs, NEW sts, FramesInv(p, fs), VarsInv(fs, sts), Len(fs) > 1, Last(fs).op # "return"
  PROVE  LET gs == Front(fs) IN
         /\ FramesInv(p, gs) /\ VarsInv(gs, sts) /\ Len(gs) = Len(fs) - 1 /\ Last(gs) = fs[Len(fs) - 1]
         /\ \A i \in 1..Len(fs) - 1 : gs[i] = fs[i]
<1> DEFINE gs == Front(fs)
           k == Len(fs) - 1
<1>1. /\ IsSeq(fs) /\ Len(fs) \in Nat /\ Len(fs) = k + 1 /\ k \in Nat /\ k > 0 /\ DOMAIN fs = 1..k + 1 /\ Last(fs) = fs[k + 1]
      /\ Len(sts) = Exec(fs, k + 1) /\ k = Len(fs) - 1
  BY StackFacts
<1>2. IsSeq(gs) /\ Len(gs) = k /\ DOMAIN gs = 1..k /\ \A i \in 1..k : gs[i] = fs[i]
  <2>1. IsSeq(fs) /\ Len(fs) > 0
    BY StackFacts
  <2> QED BY <2>1, Fronted
<1> HIDE DEF gs, k
<1>3. \A i \in 1..k : Exec(gs, i) = Exec(fs, i)
  <2> TAKE i \in 1..k
  <2>1. i \in Nat /\ \A j \in 1..i : gs[j] = fs[j]
    BY <1>1, <1>2
  <2> QED BY <2>1, ExecSame
<1>4. Exec(gs, k) = Len(sts)
  <2>1. Exec(fs, k + 1) = Exec(fs, k)
    BY <1>1, ExecNext
  <2> QED BY <1>1, <1>3, <2>1
<1>5. FramesInv(p, gs)
  <2>1. \A i \in DOMAIN gs : IsFrame(gs[i]) /\ Alone(p, gs[i])
    BY <1>1, <1>2 DEF FramesInv
  <2>2. gs[1].op \in {"list"} \cup Evaluating
    BY <1>1, <1>2 DEF FramesInv
  <2>3. \A i \in 2..Len(gs) : Over(gs[i - 1], gs[i])
    <3>0. \A i \in 2..k + 1 : Over(fs[i - 1], fs[i])
      BY <1>1 DEF FramesInv
    <3> TAKE i \in 2..Len(gs)
    <3>1. i \in 2..k + 1 /\ gs[i] = fs[i] /\ gs[i - 1] = fs[i - 1]
      BY <1>1, <1>2
    <3> QED BY <3>0, <3>1
  <2> QED BY <1>1, <1>2, <2>1, <2>2, <2>3 DEF FramesInv
<1>6. VarsInv(gs, sts)
  <2>2. \A i \in DOMAIN gs : Holds(gs[i], Names(sts[Exec(gs, i)]))
    BY <1>1, <1>2, <1>3 DEF VarsInv
  <2>3. \A i, j \in DOMAIN gs : i < j /\ Exec(gs, i) = Exec(gs, j) /\ gs[i].op \in Carrier /\ gs[j].op \in Carrier =>
          Low(gs[i]) <= Low(gs[j])
    <3> TAKE i, j \in DOMAIN gs
    <3>1. i \in 1..k /\ j \in 1..k /\ i \in DOMAIN fs /\ j \in DOMAIN fs
      BY <1>1, <1>2
    <3> QED BY <1>2, <1>3, <3>1 DEF VarsInv
  <2>4. \A i \in 2..Len(gs) : gs[i].op = "return" => Names(sts[Exec(gs, i) - 1]) = gs[i - 1].scope
    <3>0. \A i \in 2..k + 1 : fs[i].op = "return" => Names(sts[Exec(fs, i) - 1]) = fs[i - 1].scope
      BY <1>1 DEF VarsInv
    <3> TAKE i \in 2..Len(gs)
    <3>1. i \in 2..k + 1 /\ gs[i] = fs[i] /\ gs[i - 1] = fs[i - 1] /\ Exec(gs, i) = Exec(fs, i)
      BY <1>1, <1>2, <1>3
    <3> QED BY <3>0, <3>1
  <2> QED BY <1>2, <1>4, <2>2, <2>3, <2>4 DEF VarsInv
<1> QED
  BY <1>1, <1>2, <1>5, <1>6 DEF gs, k, Last

\* A return is left, with the variables of its execution.
LEMMA PopReturn ==
  ASSUME NEW p, NEW fs, NEW sts, FramesInv(p, fs), VarsInv(fs, sts), Last(fs).op = "return"
  PROVE  LET gs == Front(fs)
             ts == Front(sts)
         IN FramesInv(p, gs) /\ VarsInv(gs, ts) /\ Last(gs).op = "list" /\ Names(Last(ts)) = Last(gs).scope
<1> DEFINE gs == Front(fs)
           ts == Front(sts)
           k == Len(fs) - 1
           m == Len(sts) - 1
<1>0. Len(fs) > 1
  <2>1. Len(fs) # 1
    BY DEF FramesInv, Evaluating, Last
  <2>2. Len(fs) \in Nat /\ Len(fs) > 0
    BY StackFacts
  <2> QED BY <2>1, <2>2
<1>1. /\ IsSeq(fs) /\ Len(fs) \in Nat /\ Len(fs) = k + 1 /\ k \in Nat /\ k > 0 /\ DOMAIN fs = 1..k + 1 /\ Last(fs) = fs[k + 1]
      /\ IsSeq(sts) /\ Len(sts) = m + 1 /\ Len(sts) = Exec(fs, k + 1) /\ k = Len(fs) - 1 /\ Len(sts) \in Nat
      /\ Len(sts) > 0 /\ DOMAIN sts = 1..m + 1 /\ m \in Nat
  BY <1>0, StackFacts
<1>2. IsSeq(gs) /\ Len(gs) = k /\ DOMAIN gs = 1..k /\ \A i \in 1..k : gs[i] = fs[i]
  <2>1. IsSeq(fs) /\ Len(fs) > 0
    BY StackFacts
  <2> QED BY <2>1, Fronted
<1>3. IsSeq(ts) /\ Len(ts) = m /\ DOMAIN ts = 1..m /\ \A i \in 1..m : ts[i] = sts[i]
  <2>1. IsSeq(sts) /\ Len(sts) > 0
    BY StackFacts
  <2> QED BY <2>1, Fronted
<1> HIDE DEF gs, ts, k, m
<1>4. \A i \in 1..k : Exec(gs, i) = Exec(fs, i)
  <2> TAKE i \in 1..k
  <2>1. i \in Nat /\ \A j \in 1..i : gs[j] = fs[j]
    BY <1>1, <1>2
  <2> QED BY <2>1, ExecSame
<1>5. Exec(fs, k) = m /\ m \in Nat /\ m > 0
  <2>1. Exec(fs, k + 1) = Exec(fs, k) + 1 /\ Exec(fs, k) \in Nat /\ Exec(fs, k) >= 1
    BY <1>1, ExecNext
  <2> QED BY ONLY <1>1, <2>1
<1>6. \A i \in 1..k : Exec(fs, i) \in 1..m
  <2> TAKE i \in 1..k
  <2>1. i \in 0..k
    OBVIOUS
  <2> QED BY <1>1, <1>5, <2>1, ExecMono
<1>7. FramesInv(p, gs)
  <2>1. \A i \in DOMAIN gs : IsFrame(gs[i]) /\ Alone(p, gs[i])
    BY <1>1, <1>2 DEF FramesInv
  <2>2. gs[1].op \in {"list"} \cup Evaluating
    BY <1>1, <1>2 DEF FramesInv
  <2>3. \A i \in 2..Len(gs) : Over(gs[i - 1], gs[i])
    <3>0. \A i \in 2..k + 1 : Over(fs[i - 1], fs[i])
      BY <1>1 DEF FramesInv
    <3> TAKE i \in 2..Len(gs)
    <3>1. i \in 2..k + 1 /\ gs[i] = fs[i] /\ gs[i - 1] = fs[i - 1]
      BY <1>1, <1>2
    <3> QED BY <3>0, <3>1
  <2> QED BY <1>1, <1>2, <2>1, <2>2, <2>3 DEF FramesInv
<1>8. VarsInv(gs, ts)
  <2>1. \A e \in DOMAIN ts : IsVars(ts[e])
    BY <1>1, <1>3, <1>5 DEF VarsInv
  <2>2. \A i \in DOMAIN gs : Holds(gs[i], Names(ts[Exec(gs, i)]))
    <3> TAKE i \in DOMAIN gs
    <3>1. i \in 1..k /\ i \in DOMAIN fs /\ gs[i] = fs[i] /\ ts[Exec(gs, i)] = sts[Exec(fs, i)]
      BY <1>1, <1>2, <1>3, <1>4, <1>6
    <3> QED BY <3>1 DEF VarsInv
  <2>3. \A i, j \in DOMAIN gs : i < j /\ Exec(gs, i) = Exec(gs, j) /\ gs[i].op \in Carrier /\ gs[j].op \in Carrier =>
          Low(gs[i]) <= Low(gs[j])
    <3> TAKE i, j \in DOMAIN gs
    <3>1. i \in 1..k /\ j \in 1..k /\ i \in DOMAIN fs /\ j \in DOMAIN fs
      BY <1>1, <1>2
    <3> QED BY <1>2, <1>4, <3>1 DEF VarsInv
  <2>4. \A i \in 2..Len(gs) : gs[i].op = "return" => Names(ts[Exec(gs, i) - 1]) = gs[i - 1].scope
    <3>0. \A i \in 2..k + 1 : fs[i].op = "return" => Names(sts[Exec(fs, i) - 1]) = fs[i - 1].scope
      BY <1>1 DEF VarsInv
    <3> TAKE i \in 2..Len(gs)
    <3> HAVE gs[i].op = "return"
    <3>1. i \in 2..k + 1 /\ i \in 1..k /\ gs[i] = fs[i] /\ gs[i - 1] = fs[i - 1] /\ Exec(gs, i) = Exec(fs, i)
      BY <1>1, <1>2, <1>4
    <3>2. Exec(fs, i) \in 1..m /\ Exec(fs, i) - 1 \in 1..Len(sts) - 1
      BY <1>1, <1>6, <3>1, ExecFacts
    <3>3. ts[Exec(gs, i) - 1] = sts[Exec(fs, i) - 1]
      <4>1. Exec(fs, i) - 1 \in 1..m
        BY <1>5, <3>2
      <4> QED BY <1>3, <3>1, <4>1
    <3> QED BY <3>0, <3>1, <3>3
  <2> QED BY <1>2, <1>3, <1>4, <1>5, <1>1, <2>1, <2>2, <2>3, <2>4 DEF VarsInv
<1>9. Last(gs).op = "list" /\ Names(Last(ts)) = Last(gs).scope
  <2>1. k + 1 \in 2..Len(fs) /\ k + 1 - 1 = k /\ fs[k + 1].op = "return"
    BY <1>1
  <2>2. Over(fs[k], fs[k + 1])
    <3>1. \A i \in 2..Len(fs) : Over(fs[i - 1], fs[i])
      BY DEF FramesInv
    <3>2. ASSUME NEW j \in 2..Len(fs), j = k + 1 PROVE Over(fs[k], fs[k + 1])
      <4>1. j - 1 = k
        BY <1>1, <3>2
      <4>2. Over(fs[j - 1], fs[j])
        BY <3>1
      <4> QED BY <3>2, <4>1, <4>2
    <3> QED BY <2>1, <3>2
  <2>3. Names(sts[Exec(fs, k + 1) - 1]) = fs[k].scope
    <3>1. \A i \in 2..Len(fs) : fs[i].op = "return" => Names(sts[Exec(fs, i) - 1]) = fs[i - 1].scope
      BY DEF VarsInv
    <3>2. ASSUME NEW j \in 2..Len(fs), j = k + 1 PROVE Names(sts[Exec(fs, k + 1) - 1]) = fs[k].scope
      <4>1. j - 1 = k /\ fs[j].op = "return"
        BY <1>1, <2>1, <3>2
      <4>2. Names(sts[Exec(fs, j) - 1]) = fs[j - 1].scope
        BY <3>1, <4>1
      <4> QED BY <3>2, <4>1, <4>2
    <3> QED BY <2>1, <3>2
  <2>4. Exec(fs, k + 1) - 1 = m /\ Last(gs) = fs[k] /\ Last(ts) = sts[m]
    BY <1>1, <1>2, <1>3, <1>5 DEF Last
  <2> QED BY <2>1, <2>2, <2>3, <2>4 DEF Over
<1> QED
  BY <1>7, <1>8, <1>9 DEF gs, ts

\* The last execution's variables change, but for the first m, on which its frames count.
LEMMA SetTop ==
  ASSUME NEW p, NEW fs, NEW sts, FramesInv(p, fs), VarsInv(fs, sts), NEW vs, IsVars(vs), NEW m \in Nat,
         m <= Len(vs), m <= Len(Last(sts)), \A k \in 1..m : Names(vs)[k] = Names(Last(sts))[k],
         \A i \in DOMAIN fs : Exec(fs, i) = Len(sts) /\ fs[i].op \in Carrier => Low(fs[i]) <= m
  PROVE  LET ts == [sts EXCEPT ![Len(sts)] = vs] IN VarsInv(fs, ts) /\ Last(ts) = vs
<1> DEFINE n == Len(sts)
           ts == [sts EXCEPT ![n] = vs]
<1>1. /\ n \in Nat /\ n > 0 /\ DOMAIN sts = 1..n /\ sts = [i \in 1..n |-> sts[i]] /\ Last(sts) = sts[n] /\ n = Len(sts)
      /\ Len(fs) \in Nat /\ DOMAIN fs = 1..Len(fs) /\ n = Exec(fs, Len(fs))
  <2>1. IsSeq(sts)
    BY StackFacts
  <2> QED BY <2>1, StackFacts, SeqFacts
<1> HIDE DEF n
<1>2. ts = [i \in 1..n |-> IF i = n THEN vs ELSE sts[i]]
  BY <1>1
<1> HIDE DEF ts
<1>3. /\ ts = [i \in 1..n |-> ts[i]] /\ ts[n] = vs
      /\ \A i \in 1..n : i # n => ts[i] = sts[i]
  <2>1. ts = [i \in 1..n |-> ts[i]] /\ \A i \in 1..n : ts[i] = IF i = n THEN vs ELSE sts[i]
    BY <1>2
  <2>2. n \in 1..n
    <3>1. n \in Nat /\ n > 0
      BY <1>1
    <3> QED BY ONLY <3>1
  <2> QED BY <2>1, <2>2
<1>4. IsSeq(ts) /\ Len(ts) = n /\ DOMAIN ts = 1..n
  BY <1>1, <1>3, Sequence
<1>5. \A i \in DOMAIN fs : Holds(fs[i], Names(ts[Exec(fs, i)]))
  <2> TAKE i \in DOMAIN fs
  <2>1. Exec(fs, i) \in 1..n
    BY <1>1, ExecFacts
  <2>2. ASSUME Exec(fs, i) = n, fs[i].op \in Carrier PROVE Holds(fs[i], Names(vs))
    <3>1. Low(fs[i]) <= m
      BY <1>1, <2>2
    <3>2. Holds(fs[i], Names(sts[n]))
      BY <1>1, <2>2 DEF VarsInv
    <3>3. IsFrame(fs[i])
      BY DEF FramesInv
    <3>4. Low(fs[i]) \in Nat /\ Len(fs[i].scope) \in Nat
      BY <3>3, SeqFacts DEF Low, IsFrame, FrameRec
    <3>5. Len(Names(vs)) = Len(vs) /\ Len(vs) \in Nat
      BY NamesFacts
    <3>6. Low(fs[i]) <= Len(Names(vs))
      BY <3>1, <3>4, <3>5
    <3>7. ASSUME fs[i].op # "pop", NEW k \in 1..Len(fs[i].scope) PROVE fs[i].scope[k] = Names(vs)[k]
      <4>1. Low(fs[i]) = Len(fs[i].scope)
        BY <3>7 DEF Low
      <4>2. k \in 1..m
        BY <3>1, <3>4, <4>1
      <4>3. fs[i].scope[k] = Names(sts[n])[k]
        BY <2>2, <3>2, <3>7 DEF Holds
      <4> QED BY <1>1, <4>2, <4>3
    <3> QED BY <3>6, <3>7 DEF Holds
  <2>3. CASE Exec(fs, i) = n
    BY <1>3, <2>2, <2>3 DEF Holds
  <2>4. CASE Exec(fs, i) # n
    BY <1>3, <2>1, <2>4 DEF VarsInv
  <2> QED BY <2>3, <2>4
<1>6. \A i \in 2..Len(fs) : fs[i].op = "return" => Names(ts[Exec(fs, i) - 1]) = fs[i - 1].scope
  <2>0. \A i \in 2..Len(fs) : fs[i].op = "return" => Names(sts[Exec(fs, i) - 1]) = fs[i - 1].scope
    BY DEF VarsInv
  <2> TAKE i \in 2..Len(fs)
  <2> HAVE fs[i].op = "return"
  <2>1. Exec(fs, i) - 1 \in 1..n - 1
    BY <1>1, ExecFacts
  <2>2. Exec(fs, i) - 1 \in 1..n /\ Exec(fs, i) - 1 # n
    <3>0. n \in Nat
      BY <1>1
    <3>1. ASSUME NEW e \in 1..n - 1 PROVE e \in 1..n /\ e # n
      BY ONLY <3>0
    <3> QED BY <2>1, <3>1
  <2>3. ts[Exec(fs, i) - 1] = sts[Exec(fs, i) - 1]
    BY <1>3, <2>2
  <2> QED BY <2>0, <2>3
<1>7. \A e \in DOMAIN ts : IsVars(ts[e])
  <2> TAKE e \in DOMAIN ts
  <2>1. CASE e = n
    BY <1>3, <2>1
  <2>2. CASE e # n
    BY <1>1, <1>3, <1>4, <2>2 DEF VarsInv
  <2> QED BY <2>1, <2>2
<1>8. VarsInv(fs, ts)
  BY <1>1, <1>4, <1>5, <1>6, <1>7 DEF VarsInv
<1>9. Last(ts) = vs
  BY <1>3, <1>4 DEF Last
<1> QED
  BY <1>8, <1>9 DEF ts, n

\* Variables are added, or have other values.
LEMMA Extend ==
  ASSUME NEW p, NEW fs, NEW sts, FramesInv(p, fs), VarsInv(fs, sts), NEW vs, IsVars(vs),
         Len(Last(sts)) <= Len(vs), \A k \in 1..Len(Last(sts)) : Names(vs)[k] = Names(Last(sts))[k]
  PROVE  LET ts == [sts EXCEPT ![Len(sts)] = vs] IN VarsInv(fs, ts) /\ Last(ts) = vs
<1> DEFINE m == Len(Last(sts))
<1>1. IsVars(Last(sts)) /\ Len(sts) \in Nat /\ Len(sts) > 0 /\ Last(sts) = sts[Len(sts)]
  BY StackFacts
<1>2. m \in Nat /\ Len(Names(Last(sts))) = m
  BY <1>1, NamesFacts
<1>3. ASSUME NEW i \in DOMAIN fs, Exec(fs, i) = Len(sts), fs[i].op \in Carrier PROVE Low(fs[i]) <= m
  <2>1. Holds(fs[i], Names(Last(sts)))
    BY <1>1, <1>3 DEF VarsInv
  <2> QED BY <1>2, <1>3, <2>1 DEF Holds
<1> QED
  BY <1>2, <1>3, SetTop

\* The variables are cut back to those the last frame counts on, or to more.
LEMMA CutBack ==
  ASSUME NEW p, NEW fs, NEW sts, FramesInv(p, fs), VarsInv(fs, sts), NEW vs, IsVars(vs), Last(fs).op \in Carrier,
         Low(Last(fs)) <= Len(vs), \A k \in 1..Low(Last(fs)) : Names(vs)[k] = Names(Last(sts))[k]
  PROVE  LET ts == [sts EXCEPT ![Len(sts)] = vs] IN VarsInv(fs, ts) /\ Last(ts) = vs
<1> DEFINE m == Low(Last(fs))
           n == Len(fs)
<1>1. /\ IsVars(Last(sts)) /\ Holds(Last(fs), Names(Last(sts))) /\ IsFrame(Last(fs)) /\ n \in Nat /\ n > 0
      /\ DOMAIN fs = 1..n /\ Len(sts) = Exec(fs, n) /\ Last(fs) = fs[n] /\ n = Len(fs)
  BY StackFacts
<1>2. m \in Nat
  BY <1>1, SeqFacts DEF Low, IsFrame, FrameRec
<1>3. m <= Len(Last(sts))
  <2>1. Len(Names(Last(sts))) = Len(Last(sts))
    BY <1>1, NamesFacts
  <2> QED BY <1>1, <2>1 DEF Holds
<1> HIDE DEF n
<1>4. ASSUME NEW i \in DOMAIN fs, Exec(fs, i) = Len(sts), fs[i].op \in Carrier PROVE Low(fs[i]) <= m
  <2>1. CASE i = n
    BY <1>1, <1>2, <2>1
  <2>2. CASE i # n
    <3>1. \A a, j \in DOMAIN fs : a < j /\ Exec(fs, a) = Exec(fs, j) /\ fs[a].op \in Carrier /\ fs[j].op \in Carrier =>
            Low(fs[a]) <= Low(fs[j])
      BY DEF VarsInv
    <3>2. i < n /\ n \in DOMAIN fs /\ Exec(fs, i) = Exec(fs, n) /\ fs[n].op \in Carrier
      BY <1>1, <1>4, <2>2
    <3> QED BY <1>1, <1>4, <3>1, <3>2
  <2> QED BY <2>1, <2>2
<1> HIDE DEF m
<1>5. m <= Len(vs) /\ \A k \in 1..m : Names(vs)[k] = Names(Last(sts))[k]
  BY DEF m
<1> QED
  BY <1>2, <1>3, <1>4, <1>5, SetTop
-----------------------------------------------------------------------------
\* Frames: what their fields may be, and what becomes of them.
Fields == {"op", "dot", "nodes", "cmds", "args", "list", "items", "decls", "isAssign", "name", "value", "mark", "top",
           "scope"}
IsRecord(f) == f = [x \in Fields |-> f[x]]

LEMMA RecordForm ==
  ASSUME NEW f
  PROVE  IsRecord(f) <=>
         f = [op |-> f.op, dot |-> f.dot, nodes |-> f.nodes, cmds |-> f.cmds, args |-> f.args, list |-> f.list,
              items |-> f.items, decls |-> f.decls, isAssign |-> f.isAssign, name |-> f.name, value |-> f.value,
              mark |-> f.mark, top |-> f.top, scope |-> f.scope]
BY DEF IsRecord, Fields

LEMMA FrameForm ==
  ASSUME NEW f, IsRecord(f), f.op \in Op, f.nodes \in Seq(Nodes), f.cmds \in Seq(Commands), f.args \in Seq(Arguments),
         f.decls \in Seq(STRING), f.isAssign \in BOOLEAN, f.mark \in Nat, f.top \in Nat, IsSeq(f.scope)
  PROVE  IsFrame(f)
<1> HIDE DEF Op, Commands, Arguments
<1>1. f \in FrameRec(f)
  BY RecordForm DEF FrameRec
<1> QED BY <1>1 DEF IsFrame

LEMMA FrameFields ==
  ASSUME NEW f, IsFrame(f)
  PROVE  /\ f.op \in Op /\ f.nodes \in Seq(Nodes) /\ f.cmds \in Seq(Commands) /\ f.args \in Seq(Arguments)
         /\ f.decls \in Seq(STRING) /\ f.isAssign \in BOOLEAN /\ f.mark \in Nat /\ f.top \in Nat /\ IsSeq(f.scope)
         /\ IsRecord(f)
<1>1. f \in FrameRec(f) /\ IsSeq(f.scope)
  BY DEF IsFrame
<1> HIDE DEF Op, Commands, Arguments
<1> QED BY <1>1, RecordForm DEF FrameRec

LEMMA EmptyFields ==
  /\ <<>> \in Seq(Nodes) /\ <<>> \in Seq(Commands) /\ <<>> \in Seq(Arguments) /\ <<>> \in Seq(STRING)
  /\ IsSeq(<<>>) /\ 0 \in Nat /\ FALSE \in BOOLEAN
<1>1. \A S : <<>> \in Seq(S)
  OBVIOUS
<1>2. <<>> \in Seq(Nodes)
  BY <1>1
<1>3. IsSeq(<<>>)
  BY <1>2, SeqIs
<1> QED BY <1>1, <1>3

LEMMA FrameFacts ==
  ASSUME NEW op \in Op, NEW dot
  PROVE  LET f == Frame(op, dot) IN
         /\ IsRecord(f) /\ f.op = op /\ f.nodes = <<>> /\ f.cmds = <<>> /\ f.args = <<>> /\ f.decls = <<>>
         /\ f.isAssign = FALSE /\ f.mark = 0 /\ f.top = 0 /\ f.scope = <<>>
<1> DEFINE f == Frame(op, dot)
<1>1. f = [op |-> op, dot |-> dot, nodes |-> <<>>, cmds |-> <<>>, args |-> <<>>, list |-> <<>>, items |-> <<>>,
           decls |-> <<>>, isAssign |-> FALSE, name |-> "", value |-> Invalid, mark |-> 0, top |-> 0, scope |-> <<>>]
  BY DEF Frame
<1> HIDE DEF f
<1>2. f = [op |-> f.op, dot |-> f.dot, nodes |-> f.nodes, cmds |-> f.cmds, args |-> f.args, list |-> f.list,
           items |-> f.items, decls |-> f.decls, isAssign |-> f.isAssign, name |-> f.name, value |-> f.value,
           mark |-> f.mark, top |-> f.top, scope |-> f.scope]
  BY <1>1
<1>3. IsRecord(f)
  BY ONLY <1>2, RecordForm
<1>4. /\ f.op = op /\ f.nodes = <<>> /\ f.cmds = <<>> /\ f.args = <<>> /\ f.decls = <<>>
      /\ f.isAssign = FALSE /\ f.mark = 0 /\ f.top = 0 /\ f.scope = <<>>
  BY ONLY <1>1
<1> QED BY <1>3, <1>4 DEF f

LEMMA ListFrame ==
  ASSUME NEW dot, NEW nodes \in Seq(Nodes), NEW scope, IsSeq(scope)
  PROVE  LET f == List(dot, nodes, scope) IN IsFrame(f) /\ f.op = "list" /\ f.scope = scope /\ f.nodes = nodes
<1> DEFINE f == List(dot, nodes, scope)
           e == Frame("list", dot)
<1>0. /\ IsRecord(e) /\ e.op = "list" /\ e.nodes = <<>> /\ e.cmds = <<>> /\ e.args = <<>> /\ e.decls = <<>>
      /\ e.isAssign = FALSE /\ e.mark = 0 /\ e.top = 0 /\ e.scope = <<>>
  <2>1. "list" \in Op
    BY DEF Op, Carrier
  <2> QED BY <2>1, FrameFacts
<1>1. f = [e EXCEPT !.nodes = nodes, !.scope = scope]
  BY DEF List
<1> HIDE DEF e, f
<1>2. IsRecord(f)
  BY <1>0, <1>1 DEF IsRecord
<1>3. /\ f.op = e.op /\ f.nodes = nodes /\ f.cmds = e.cmds /\ f.args = e.args /\ f.decls = e.decls
      /\ f.isAssign = e.isAssign /\ f.mark = e.mark /\ f.top = e.top /\ f.scope = scope
  BY <1>0, <1>1 DEF IsRecord, Fields
<1>4. IsFrame(f)
  <2>1. f.op \in Op
    BY <1>0, <1>3 DEF Op, Carrier
  <2> QED BY <1>0, <1>2, <1>3, <2>1, EmptyFields, FrameForm
<1> QED BY <1>0, <1>3, <1>4 DEF f

LEMMA PipelineFrame ==
  ASSUME NEW dot, NEW pipe \in Pipes
  PROVE  LET f == Pipeline(dot, pipe) IN IsFrame(f) /\ f.op = "pipeline" /\ f.decls = pipe.decls /\ f.isAssign = pipe.isAssign
<1> DEFINE f == Pipeline(dot, pipe)
           e == Frame("pipeline", dot)
           value == IF pipe.cmds = <<>> THEN Invalid ELSE Missing
<1>0. /\ IsRecord(e) /\ e.op = "pipeline" /\ e.nodes = <<>> /\ e.cmds = <<>> /\ e.args = <<>> /\ e.decls = <<>>
      /\ e.isAssign = FALSE /\ e.mark = 0 /\ e.top = 0 /\ e.scope = <<>>
  <2>1. "pipeline" \in Op
    BY DEF Op, Carrier
  <2> QED BY <2>1, FrameFacts
<1>5. pipe.cmds \in Seq(Commands) /\ pipe.decls \in Seq(STRING) /\ pipe.isAssign \in BOOLEAN
  BY ProgramAssumption
<1>1. f = [e EXCEPT !.cmds = pipe.cmds, !.decls = pipe.decls, !.isAssign = pipe.isAssign, !.value = value]
  BY DEF Pipeline
<1> HIDE DEF e, f
<1>2. IsRecord(f)
  BY <1>0, <1>1 DEF IsRecord
<1>3. /\ f.op = e.op /\ f.nodes = e.nodes /\ f.cmds = pipe.cmds /\ f.args = e.args /\ f.decls = pipe.decls
      /\ f.isAssign = pipe.isAssign /\ f.mark = e.mark /\ f.top = e.top /\ f.scope = e.scope
  BY <1>0, <1>1 DEF IsRecord, Fields
<1>4. IsFrame(f)
  <2>1. f.op \in Op
    BY <1>0, <1>3 DEF Op, Carrier
  <2> QED BY <1>0, <1>5, <1>2, <1>3, <2>1, EmptyFields, FrameForm
<1> QED BY <1>0, <1>3, <1>4 DEF f

LEMMA PopFrame ==
  ASSUME NEW m \in Nat
  PROVE  LET f == Pop(m) IN IsFrame(f) /\ f.op = "pop" /\ f.mark = m
<1> DEFINE f == Pop(m)
           e == Frame("pop", Top.dot)
<1>0. /\ IsRecord(e) /\ e.op = "pop" /\ e.nodes = <<>> /\ e.cmds = <<>> /\ e.args = <<>> /\ e.decls = <<>>
      /\ e.isAssign = FALSE /\ e.mark = 0 /\ e.top = 0 /\ e.scope = <<>>
  <2>1. "pop" \in Op
    BY DEF Op, Carrier
  <2> QED BY <2>1, FrameFacts
<1>1. f = [e EXCEPT !.mark = m]
  BY DEF Pop
<1> HIDE DEF e, f
<1>2. IsRecord(f)
  BY <1>0, <1>1 DEF IsRecord
<1>3. /\ f.op = e.op /\ f.nodes = e.nodes /\ f.cmds = e.cmds /\ f.args = e.args /\ f.decls = e.decls
      /\ f.isAssign = e.isAssign /\ f.mark = m /\ f.top = e.top /\ f.scope = e.scope
  BY <1>0, <1>1 DEF IsRecord, Fields
<1>4. IsFrame(f)
  <2>1. f.op \in Op
    BY <1>0, <1>3 DEF Op, Carrier
  <2> QED BY <1>0, <1>2, <1>3, <2>1, EmptyFields, FrameForm
<1> QED BY <1>0, <1>3, <1>4 DEF f

LEMMA ReturnFrame ==
  ASSUME NEW dot
  PROVE  LET f == Frame("return", dot) IN IsFrame(f) /\ f.op = "return"
<1> DEFINE f == Frame("return", dot)
           e == Frame("return", dot)
<1>0. /\ IsRecord(e) /\ e.op = "return" /\ e.nodes = <<>> /\ e.cmds = <<>> /\ e.args = <<>> /\ e.decls = <<>>
      /\ e.isAssign = FALSE /\ e.mark = 0 /\ e.top = 0 /\ e.scope = <<>>
  <2>1. "return" \in Op
    BY DEF Op, Carrier
  <2> QED BY <2>1, FrameFacts
<1>1. f = e
  OBVIOUS
<1> HIDE DEF e, f
<1>2. IsRecord(f)
  BY <1>0, <1>1 DEF IsRecord
<1>3. /\ f.op = e.op /\ f.nodes = e.nodes /\ f.cmds = e.cmds /\ f.args = e.args /\ f.decls = e.decls
      /\ f.isAssign = e.isAssign /\ f.mark = e.mark /\ f.top = e.top /\ f.scope = e.scope
  BY <1>0, <1>1 DEF IsRecord, Fields
<1>4. IsFrame(f)
  <2>1. f.op \in Op
    BY <1>0, <1>3 DEF Op, Carrier
  <2> QED BY <1>0, <1>2, <1>3, <2>1, EmptyFields, FrameForm
<1> QED BY <1>0, <1>3, <1>4 DEF f

Calling(dot, name, args, value) == [Frame("call", dot) EXCEPT !.name = name, !.args = args, !.value = value]

LEMMA CallFrame ==
  ASSUME NEW dot, NEW name, NEW args \in Seq(Arguments), NEW value
  PROVE  LET f == Calling(dot, name, args, value) IN IsFrame(f) /\ f.op = "call"
<1> DEFINE f == Calling(dot, name, args, value)
           e == Frame("call", dot)
<1>0. /\ IsRecord(e) /\ e.op = "call" /\ e.nodes = <<>> /\ e.cmds = <<>> /\ e.args = <<>> /\ e.decls = <<>>
      /\ e.isAssign = FALSE /\ e.mark = 0 /\ e.top = 0 /\ e.scope = <<>>
  <2>1. "call" \in Op
    BY DEF Op, Carrier
  <2> QED BY <2>1, FrameFacts
<1>1. f = [e EXCEPT !.name = name, !.args = args, !.value = value]
  BY DEF Calling
<1> HIDE DEF e, f
<1>2. IsRecord(f)
  BY <1>0, <1>1 DEF IsRecord
<1>3. /\ f.op = e.op /\ f.nodes = e.nodes /\ f.cmds = e.cmds /\ f.args = args /\ f.decls = e.decls
      /\ f.isAssign = e.isAssign /\ f.mark = e.mark /\ f.top = e.top /\ f.scope = e.scope
  BY <1>0, <1>1 DEF IsRecord, Fields
<1>4. IsFrame(f)
  <2>1. f.op \in Op
    BY <1>0, <1>3 DEF Op, Carrier
  <2> QED BY <1>0, <1>2, <1>3, <2>1, EmptyFields, FrameForm
<1> QED BY <1>0, <1>3, <1>4 DEF f

Looping(dot, nodes, decls, isAssign, items, m, top, scope) ==
  [Frame("loop", dot) EXCEPT !.nodes = nodes, !.decls = decls, !.isAssign = isAssign, !.items = items, !.mark = m,
     !.top = top, !.scope = scope]

LEMMA LoopFrame ==
  ASSUME NEW dot, NEW nodes \in Seq(Nodes), NEW decls \in Seq(STRING), NEW isAssign \in BOOLEAN, NEW items,
         NEW m \in Nat, NEW top \in Nat, NEW scope, IsSeq(scope)
  PROVE  LET f == Looping(dot, nodes, decls, isAssign, items, m, top, scope) IN /\ IsFrame(f) /\ f.op = "loop" /\ f.scope = scope /\ f.nodes = nodes /\ f.decls = decls
            /\ f.isAssign = isAssign /\ f.mark = m /\ f.top = top /\ f.items = items
<1> DEFINE f == Looping(dot, nodes, decls, isAssign, items, m, top, scope)
           e == Frame("loop", dot)
<1>0. /\ IsRecord(e) /\ e.op = "loop" /\ e.nodes = <<>> /\ e.cmds = <<>> /\ e.args = <<>> /\ e.decls = <<>>
      /\ e.isAssign = FALSE /\ e.mark = 0 /\ e.top = 0 /\ e.scope = <<>>
  <2>1. "loop" \in Op
    BY DEF Op, Carrier
  <2> QED BY <2>1, FrameFacts
<1>1. f = [e EXCEPT !.nodes = nodes, !.decls = decls, !.isAssign = isAssign, !.items = items, !.mark = m, !.top = top, !.scope = scope]
  BY DEF Looping
<1> HIDE DEF e, f
<1>2. IsRecord(f)
  BY <1>0, <1>1 DEF IsRecord
<1>3. /\ f.op = e.op /\ f.nodes = nodes /\ f.cmds = e.cmds /\ f.args = e.args /\ f.decls = decls
      /\ f.isAssign = isAssign /\ f.mark = m /\ f.top = top /\ f.scope = scope /\ f.items = items
  BY <1>0, <1>1 DEF IsRecord, Fields
<1>4. IsFrame(f)
  <2>1. f.op \in Op
    BY <1>0, <1>3 DEF Op, Carrier
  <2> QED BY <1>0, <1>2, <1>3, <2>1, EmptyFields, FrameForm
<1> QED BY <1>0, <1>3, <1>4 DEF f

\* A list goes on, or its node is evaluated; behind the node, the list has the node's variables or not.
LEMMA Onward ==
  ASSUME NEW f, IsFrame(f), NEW nodes \in Seq(Nodes)
  PROVE  LET g == [f EXCEPT !.nodes = nodes] IN
         /\ IsFrame(g) /\ g.op = f.op /\ g.nodes = nodes /\ g.cmds = f.cmds /\ g.args = f.args /\ g.decls = f.decls
         /\ g.isAssign = f.isAssign /\ g.mark = f.mark /\ g.top = f.top /\ g.scope = f.scope
<1> DEFINE g == [f EXCEPT !.nodes = nodes]
<1>1. /\ f.op \in Op /\ f.nodes \in Seq(Nodes) /\ f.cmds \in Seq(Commands) /\ f.args \in Seq(Arguments)
      /\ f.decls \in Seq(STRING) /\ f.isAssign \in BOOLEAN /\ f.mark \in Nat /\ f.top \in Nat /\ IsSeq(f.scope)
      /\ IsRecord(f)
  BY FrameFields
<1>2. IsRecord(g)
  BY <1>1 DEF IsRecord
<1>3. /\ g.op = f.op /\ g.nodes = nodes /\ g.cmds = f.cmds /\ g.args = f.args /\ g.decls = f.decls
      /\ g.isAssign = f.isAssign /\ g.mark = f.mark /\ g.top = f.top /\ g.scope = f.scope
  BY <1>1 DEF IsRecord, Fields
<1> HIDE DEF g
<1>4. IsFrame(g)
  BY <1>1, <1>2, <1>3, EmptyFields, FrameForm
<1> QED BY <1>3, <1>4 DEF g

Started(f, op, m) == [f EXCEPT !.op = op, !.mark = m]
LEMMA Starting ==
  ASSUME NEW f, IsFrame(f), NEW op \in Op, NEW m \in Nat
  PROVE  LET g == Started(f, op, m) IN
         /\ IsFrame(g) /\ g.op = op /\ g.nodes = f.nodes /\ g.cmds = f.cmds /\ g.args = f.args /\ g.decls = f.decls
         /\ g.isAssign = f.isAssign /\ g.mark = m /\ g.top = f.top /\ g.scope = f.scope
<1> DEFINE g == Started(f, op, m)
<1>1. /\ f.op \in Op /\ f.nodes \in Seq(Nodes) /\ f.cmds \in Seq(Commands) /\ f.args \in Seq(Arguments)
      /\ f.decls \in Seq(STRING) /\ f.isAssign \in BOOLEAN /\ f.mark \in Nat /\ f.top \in Nat /\ IsSeq(f.scope)
      /\ IsRecord(f)
  BY FrameFields
<1>2. IsRecord(g)
  BY <1>1 DEF IsRecord, Started
<1>3. /\ g.op = op /\ g.nodes = f.nodes /\ g.cmds = f.cmds /\ g.args = f.args /\ g.decls = f.decls
      /\ g.isAssign = f.isAssign /\ g.mark = m /\ g.top = f.top /\ g.scope = f.scope
  BY <1>1 DEF IsRecord, Fields, Started
<1> HIDE DEF g
<1>4. IsFrame(g)
  <2>1. g.op \in Op
    BY <1>1, <1>3 DEF Op, Carrier
  <2> QED BY <1>1, <1>2, <1>3, <2>1, FrameForm
<1> QED BY <1>3, <1>4 DEF g

ListAgain(f, nodes) == [f EXCEPT !.op = "list", !.nodes = nodes]
LEMMA Behind ==
  ASSUME NEW f, IsFrame(f), NEW nodes \in Seq(Nodes)
  PROVE  LET g == ListAgain(f, nodes) IN
         /\ IsFrame(g) /\ g.op = "list" /\ g.nodes = nodes /\ g.cmds = f.cmds /\ g.args = f.args /\ g.decls = f.decls
         /\ g.isAssign = f.isAssign /\ g.mark = f.mark /\ g.top = f.top /\ g.scope = f.scope
<1> DEFINE g == ListAgain(f, nodes)
<1>1. /\ f.op \in Op /\ f.nodes \in Seq(Nodes) /\ f.cmds \in Seq(Commands) /\ f.args \in Seq(Arguments)
      /\ f.decls \in Seq(STRING) /\ f.isAssign \in BOOLEAN /\ f.mark \in Nat /\ f.top \in Nat /\ IsSeq(f.scope)
      /\ IsRecord(f)
  BY FrameFields
<1>2. IsRecord(g)
  BY <1>1 DEF IsRecord, ListAgain
<1>3. /\ g.op = "list" /\ g.nodes = nodes /\ g.cmds = f.cmds /\ g.args = f.args /\ g.decls = f.decls
      /\ g.isAssign = f.isAssign /\ g.mark = f.mark /\ g.top = f.top /\ g.scope = f.scope
  BY <1>1 DEF IsRecord, Fields, ListAgain
<1> HIDE DEF g
<1>4. IsFrame(g)
  <2>1. g.op \in Op
    BY <1>1, <1>3 DEF Op, Carrier
  <2> QED BY <1>1, <1>2, <1>3, <2>1, FrameForm
<1> QED BY <1>3, <1>4 DEF g

ListWith(f, nodes, scope) == [f EXCEPT !.op = "list", !.nodes = nodes, !.scope = scope]
LEMMA BehindWith ==
  ASSUME NEW f, IsFrame(f), NEW nodes \in Seq(Nodes), NEW scope, IsSeq(scope)
  PROVE  LET g == ListWith(f, nodes, scope) IN
         /\ IsFrame(g) /\ g.op = "list" /\ g.nodes = nodes /\ g.cmds = f.cmds /\ g.args = f.args /\ g.decls = f.decls
         /\ g.isAssign = f.isAssign /\ g.mark = f.mark /\ g.top = f.top /\ g.scope = scope
<1> DEFINE g == ListWith(f, nodes, scope)
<1>1. /\ f.op \in Op /\ f.nodes \in Seq(Nodes) /\ f.cmds \in Seq(Commands) /\ f.args \in Seq(Arguments)
      /\ f.decls \in Seq(STRING) /\ f.isAssign \in BOOLEAN /\ f.mark \in Nat /\ f.top \in Nat /\ IsSeq(f.scope)
      /\ IsRecord(f)
  BY FrameFields
<1>2. IsRecord(g)
  BY <1>1 DEF IsRecord, ListWith
<1>3. /\ g.op = "list" /\ g.nodes = nodes /\ g.cmds = f.cmds /\ g.args = f.args /\ g.decls = f.decls
      /\ g.isAssign = f.isAssign /\ g.mark = f.mark /\ g.top = f.top /\ g.scope = scope
  BY <1>1 DEF IsRecord, Fields, ListWith
<1> HIDE DEF g
<1>4. IsFrame(g)
  <2>1. g.op \in Op
    BY <1>1, <1>3 DEF Op, Carrier
  <2> QED BY <1>1, <1>2, <1>3, <2>1, FrameForm
<1> QED BY <1>3, <1>4 DEF g

\* A pipeline, a call or a loop goes on.
LEMMA NextCommand ==
  ASSUME NEW f, IsFrame(f), NEW cmds \in Seq(Commands)
  PROVE  LET g == [f EXCEPT !.cmds = cmds] IN
         /\ IsFrame(g) /\ g.op = f.op /\ g.nodes = f.nodes /\ g.cmds = cmds /\ g.args = f.args /\ g.decls = f.decls
         /\ g.isAssign = f.isAssign /\ g.mark = f.mark /\ g.top = f.top /\ g.scope = f.scope
<1> DEFINE g == [f EXCEPT !.cmds = cmds]
<1>1. /\ f.op \in Op /\ f.nodes \in Seq(Nodes) /\ f.cmds \in Seq(Commands) /\ f.args \in Seq(Arguments)
      /\ f.decls \in Seq(STRING) /\ f.isAssign \in BOOLEAN /\ f.mark \in Nat /\ f.top \in Nat /\ IsSeq(f.scope)
      /\ IsRecord(f)
  BY FrameFields
<1>2. IsRecord(g)
  BY <1>1 DEF IsRecord
<1>3. /\ g.op = f.op /\ g.nodes = f.nodes /\ g.cmds = cmds /\ g.args = f.args /\ g.decls = f.decls
      /\ g.isAssign = f.isAssign /\ g.mark = f.mark /\ g.top = f.top /\ g.scope = f.scope
  BY <1>1 DEF IsRecord, Fields
<1> HIDE DEF g
<1>4. IsFrame(g)
  BY <1>1, <1>2, <1>3, EmptyFields, FrameForm
<1> QED BY <1>3, <1>4 DEF g

LEMMA NextArgument ==
  ASSUME NEW f, IsFrame(f), NEW args \in Seq(Arguments)
  PROVE  LET g == [f EXCEPT !.args = args] IN
         /\ IsFrame(g) /\ g.op = f.op /\ g.nodes = f.nodes /\ g.cmds = f.cmds /\ g.args = args /\ g.decls = f.decls
         /\ g.isAssign = f.isAssign /\ g.mark = f.mark /\ g.top = f.top /\ g.scope = f.scope
<1> DEFINE g == [f EXCEPT !.args = args]
<1>1. /\ f.op \in Op /\ f.nodes \in Seq(Nodes) /\ f.cmds \in Seq(Commands) /\ f.args \in Seq(Arguments)
      /\ f.decls \in Seq(STRING) /\ f.isAssign \in BOOLEAN /\ f.mark \in Nat /\ f.top \in Nat /\ IsSeq(f.scope)
      /\ IsRecord(f)
  BY FrameFields
<1>2. IsRecord(g)
  BY <1>1 DEF IsRecord
<1>3. /\ g.op = f.op /\ g.nodes = f.nodes /\ g.cmds = f.cmds /\ g.args = args /\ g.decls = f.decls
      /\ g.isAssign = f.isAssign /\ g.mark = f.mark /\ g.top = f.top /\ g.scope = f.scope
  BY <1>1 DEF IsRecord, Fields
<1> HIDE DEF g
<1>4. IsFrame(g)
  BY <1>1, <1>2, <1>3, EmptyFields, FrameForm
<1> QED BY <1>3, <1>4 DEF g

LEMMA FewerItems ==
  ASSUME NEW f, IsFrame(f), NEW items
  PROVE  LET g == [f EXCEPT !.items = items] IN
         /\ IsFrame(g) /\ g.op = f.op /\ g.nodes = f.nodes /\ g.cmds = f.cmds /\ g.args = f.args /\ g.decls = f.decls
         /\ g.isAssign = f.isAssign /\ g.mark = f.mark /\ g.top = f.top /\ g.scope = f.scope
<1> DEFINE g == [f EXCEPT !.items = items]
<1>1. /\ f.op \in Op /\ f.nodes \in Seq(Nodes) /\ f.cmds \in Seq(Commands) /\ f.args \in Seq(Arguments)
      /\ f.decls \in Seq(STRING) /\ f.isAssign \in BOOLEAN /\ f.mark \in Nat /\ f.top \in Nat /\ IsSeq(f.scope)
      /\ IsRecord(f)
  BY FrameFields
<1>2. IsRecord(g)
  BY <1>1 DEF IsRecord
<1>3. /\ g.op = f.op /\ g.nodes = f.nodes /\ g.cmds = f.cmds /\ g.args = f.args /\ g.decls = f.decls
      /\ g.isAssign = f.isAssign /\ g.mark = f.mark /\ g.top = f.top /\ g.scope = f.scope
  BY <1>1 DEF IsRecord, Fields
<1> HIDE DEF g
<1>4. IsFrame(g)
  BY <1>1, <1>2, <1>3, EmptyFields, FrameForm
<1> QED BY <1>3, <1>4 DEF g

LEMMA WithValue ==
  ASSUME NEW f, IsFrame(f), NEW value
  PROVE  LET g == [f EXCEPT !.value = value] IN
         /\ IsFrame(g) /\ g.op = f.op /\ g.nodes = f.nodes /\ g.cmds = f.cmds /\ g.args = f.args /\ g.decls = f.decls
         /\ g.isAssign = f.isAssign /\ g.mark = f.mark /\ g.top = f.top /\ g.scope = f.scope
<1> DEFINE g == [f EXCEPT !.value = value]
<1>1. /\ f.op \in Op /\ f.nodes \in Seq(Nodes) /\ f.cmds \in Seq(Commands) /\ f.args \in Seq(Arguments)
      /\ f.decls \in Seq(STRING) /\ f.isAssign \in BOOLEAN /\ f.mark \in Nat /\ f.top \in Nat /\ IsSeq(f.scope)
      /\ IsRecord(f)
  BY FrameFields
<1>2. IsRecord(g)
  BY <1>1 DEF IsRecord
<1>3. /\ g.op = f.op /\ g.nodes = f.nodes /\ g.cmds = f.cmds /\ g.args = f.args /\ g.decls = f.decls
      /\ g.isAssign = f.isAssign /\ g.mark = f.mark /\ g.top = f.top /\ g.scope = f.scope
  BY <1>1 DEF IsRecord, Fields
<1> HIDE DEF g
<1>4. IsFrame(g)
  BY <1>1, <1>2, <1>3, EmptyFields, FrameForm
<1> QED BY <1>3, <1>4 DEF g

LEMMA WithList ==
  ASSUME NEW f, IsFrame(f), NEW list
  PROVE  LET g == [f EXCEPT !.list = list] IN
         /\ IsFrame(g) /\ g.op = f.op /\ g.nodes = f.nodes /\ g.cmds = f.cmds /\ g.args = f.args /\ g.decls = f.decls
         /\ g.isAssign = f.isAssign /\ g.mark = f.mark /\ g.top = f.top /\ g.scope = f.scope
<1> DEFINE g == [f EXCEPT !.list = list]
<1>1. /\ f.op \in Op /\ f.nodes \in Seq(Nodes) /\ f.cmds \in Seq(Commands) /\ f.args \in Seq(Arguments)
      /\ f.decls \in Seq(STRING) /\ f.isAssign \in BOOLEAN /\ f.mark \in Nat /\ f.top \in Nat /\ IsSeq(f.scope)
      /\ IsRecord(f)
  BY FrameFields
<1>2. IsRecord(g)
  BY <1>1 DEF IsRecord
<1>3. /\ g.op = f.op /\ g.nodes = f.nodes /\ g.cmds = f.cmds /\ g.args = f.args /\ g.decls = f.decls
      /\ g.isAssign = f.isAssign /\ g.mark = f.mark /\ g.top = f.top /\ g.scope = f.scope
  BY <1>1 DEF IsRecord, Fields
<1> HIDE DEF g
<1>4. IsFrame(g)
  BY <1>1, <1>2, <1>3, EmptyFields, FrameForm
<1> QED BY <1>3, <1>4 DEF g

\* Two frames that differ in what the invariant does not read.
Like(f, g) ==
  /\ IsFrame(g) /\ g.op = f.op /\ g.nodes = f.nodes /\ g.decls = f.decls /\ g.isAssign = f.isAssign
  /\ g.mark = f.mark /\ g.top = f.top /\ g.scope = f.scope

LEMMA Alike ==
  ASSUME NEW p, NEW f, NEW g, Like(f, g), Alone(p, f)
  PROVE  /\ Alone(p, g) /\ Low(g) = Low(f) /\ \A x : Over(x, f) => Over(x, g)
         /\ \A names : Holds(f, names) => Holds(g, names)
<1>1. Alone(p, g)
  BY DEF Like, Alone
<1>2. Low(g) = Low(f)
  BY DEF Like, Low
<1>3. \A x : Over(x, f) => Over(x, g)
  BY DEF Like, Over
<1>4. \A names : Holds(f, names) => Holds(g, names)
  BY <1>2 DEF Like, Holds
<1> QED BY <1>1, <1>2, <1>3, <1>4

LEMMA GivenFacts ==
  ASSUME NEW f, IsFrame(f), NEW v
  PROVE  Like(f, Given(f, v))
<1>1. CASE f.op = "pipeline"
  <2> DEFINE w == indirectInterface(v)
  <2> HIDE DEF w
  <2>1. Given(f, v) = [f EXCEPT !.value = w]
    BY <1>1 DEF Given, w
  <2>2. Like(f, [f EXCEPT !.value = w])
    BY WithValue DEF Like
  <2> QED BY <2>1, <2>2
<1>2. CASE f.op \notin {"pipeline", "call"}
  <2>1. Given(f, v) = [f EXCEPT !.value = v]
    BY <1>2 DEF Given
  <2>2. Like(f, [f EXCEPT !.value = v])
    BY WithValue DEF Like
  <2> QED BY <2>1, <2>2
<1>3. CASE f.op = "call" /\ Decides(f.name, v)
  <2> DEFINE list == Append(f.list, v)
             missing == Missing
  <2> HIDE DEF list, missing
  <2>1. Given(f, v) = [f EXCEPT !.list = list, !.args = <<>>, !.value = missing]
    <3>1. Given(f, v) = [f EXCEPT !.list = Append(@, v), !.args = <<>>, !.value = Missing]
      BY <1>3 DEF Given
    <3> QED BY <3>1 DEF list, missing
  <2> DEFINE g == Given(f, v)
  <2> HIDE DEF g
  <2>2. g = [f EXCEPT !.list = list, !.args = <<>>, !.value = missing]
    BY <2>1 DEF g
  <2>3. Like(f, g)
    <3>1. IsRecord(f) /\ f.op \in Op /\ f.nodes \in Seq(Nodes) /\ f.cmds \in Seq(Commands) /\ f.args \in Seq(Arguments)
      BY FrameFields
    <3>2. f.decls \in Seq(STRING) /\ f.isAssign \in BOOLEAN /\ f.mark \in Nat /\ f.top \in Nat /\ IsSeq(f.scope)
      BY FrameFields
    <3>3. IsRecord(g)
      BY <2>2, <3>1 DEF IsRecord
    <3>4. /\ g.op = f.op /\ g.nodes = f.nodes /\ g.cmds = f.cmds /\ g.args = <<>> /\ g.decls = f.decls
          /\ g.isAssign = f.isAssign /\ g.mark = f.mark /\ g.top = f.top /\ g.scope = f.scope
      BY <2>2, <3>1 DEF IsRecord, Fields
    <3>5. IsFrame(g)
      BY <3>1, <3>2, <3>3, <3>4, EmptyFields, FrameForm
    <3> QED BY <3>4, <3>5 DEF Like
  <2> QED BY <2>3 DEF g
<1>4. CASE f.op = "call" /\ ~Decides(f.name, v)
  <2> DEFINE list == Append(f.list, v)
  <2> HIDE DEF list
  <2>1. Given(f, v) = [f EXCEPT !.list = list]
    <3>1. Given(f, v) = [f EXCEPT !.list = Append(@, v)]
      BY <1>4 DEF Given
    <3> QED BY <3>1 DEF list
  <2>2. Like(f, [f EXCEPT !.list = list])
    BY WithList DEF Like
  <2> QED BY <2>1, <2>2
<1> QED BY <1>1, <1>2, <1>3, <1>4

\* The call below the last frame.
LEMMA Below ==
  ASSUME NEW p, NEW fs, NEW sts, FramesInv(p, fs), VarsInv(fs, sts)
  PROVE  /\ Len(fs) > 1 => Over(fs[Len(fs) - 1], Last(fs))
         /\ Len(fs) = 1 => Last(fs).op \in {"list"} \cup Evaluating
<1>1. Len(fs) \in Nat /\ Last(fs) = fs[Len(fs)]
  BY StackFacts
<1>2. ASSUME Len(fs) > 1 PROVE Over(fs[Len(fs) - 1], Last(fs))
  <2>1. Len(fs) \in 2..Len(fs)
    BY <1>1, <1>2
  <2> QED BY <1>1, <2>1 DEF FramesInv
<1>3. ASSUME Len(fs) = 1 PROVE Last(fs).op \in {"list"} \cup Evaluating
  BY <1>1, <1>3 DEF FramesInv
<1> QED BY <1>2, <1>3

LEMMA ReplaceLike ==
  ASSUME NEW p, NEW fs, NEW sts, FramesInv(p, fs), VarsInv(fs, sts), Last(fs).op # "return", NEW f, Like(Last(fs), f)
  PROVE  LET gs == Append(Front(fs), f) IN
         /\ FramesInv(p, gs) /\ VarsInv(gs, sts) /\ Last(gs) = f /\ Len(gs) = Len(fs)
         /\ \A i \in 1..Len(fs) - 1 : gs[i] = fs[i]
<1>1. IsFrame(Last(fs)) /\ Alone(p, Last(fs)) /\ Holds(Last(fs), Names(Last(sts)))
  BY StackFacts
<1>2. Alone(p, f) /\ Low(f) = Low(Last(fs)) /\ Holds(f, Names(Last(sts)))
  BY <1>1, Alike
<1>3. IsFrame(f) /\ f.op = Last(fs).op
  BY DEF Like
<1>4. Len(fs) = 1 => f.op \in {"list"} \cup Evaluating
  BY <1>3, Below
<1>5. Len(fs) > 1 => Over(fs[Len(fs) - 1], f)
  BY <1>1, Below, Alike
<1>6. Low(f) \in Nat
  BY <1>3, SeqFacts, FrameFields DEF Low
<1>7. f.op \in Carrier => Last(fs).op \in Carrier /\ Low(Last(fs)) <= Low(f)
  BY <1>2, <1>3, <1>6
<1>8. f.op # "return"
  BY <1>3
<1> QED BY <1>2, <1>3, <1>4, <1>5, <1>7, <1>8, ReplaceTop

\* A list, or one whose node is evaluated, goes on as a list.
LEMMA BecomeList ==
  ASSUME NEW p, NEW fs, NEW sts, FramesInv(p, fs), VarsInv(fs, sts), Last(fs).op \in {"list"} \cup Evaluating,
         NEW f, IsFrame(f), f.op = "list", Len(Last(fs).scope) <= Len(f.scope), Holds(f, Names(Last(sts)))
  PROVE  LET gs == Append(Front(fs), f) IN
         /\ FramesInv(p, gs) /\ VarsInv(gs, sts) /\ Last(gs) = f /\ Len(gs) = Len(fs)
         /\ \A i \in 1..Len(fs) - 1 : gs[i] = fs[i]
<1>1. Alone(p, f)
  BY DEF Alone, Evaluating
<1>2. Len(fs) > 1 => Over(fs[Len(fs) - 1], f)
  <2>1. \A x : Over(x, Last(fs)) => Over(x, f)
    BY DEF Over, Evaluating
  <2> QED BY <2>1, Below
<1>3. f.op \in Carrier => Last(fs).op \in Carrier /\ Low(Last(fs)) <= Low(f)
  BY DEF Low, Carrier, Evaluating
<1>4. Last(fs).op # "return" /\ f.op # "return"
  BY DEF Evaluating
<1> QED BY <1>1, <1>2, <1>3, <1>4, ReplaceTop

\* With what a node has declared, the scope is that of all variables.
LEMMA InnerNames ==
  ASSUME IsVars(Vars), IsFrame(Top), Holds(Top, Names(Vars)), Top.op \in Evaluating
  PROVE  Inner = Names(Vars)
<1> DEFINE s == Top.scope
           ns == Names(Vars)
           m == Len(s)
           n == Len(Vars)
<1>1. IsSeq(s) /\ m \in Nat /\ DOMAIN s = 1..m /\ m = Len(s)
  BY FrameFields, SeqFacts
<1>2. IsSeq(ns) /\ Len(ns) = n /\ n \in Nat /\ DOMAIN ns = 1..n
  BY NamesFacts
<1>3. m <= n /\ \A k \in 1..m : s[k] = ns[k]
  <2>1. Top.op \in Carrier /\ Top.op # "pop"
    BY DEF Carrier, Evaluating
  <2> QED BY <1>2, <2>1 DEF Holds, Low
<1> DEFINE d == SubSeq(ns, m + 1, n)
<1>4. Inner = s \o d
  BY DEF Inner, Declared
<1> HIDE DEF s, ns, m, n
<1>6. n - m \in Nat
  BY <1>1, <1>2, <1>3
<1>7. IsSeq(d) /\ Len(d) = n - m /\ \A i \in 1..n - m : d[i] = ns[m + i]
  <2> DEFINE S == {ns[i] : i \in DOMAIN ns}
             a == m + 1
  <2>1. ns \in Seq(S)
    BY <1>2 DEF IsSeq
  <2>2. a \in 1..Len(ns) + 1 /\ n \in a - 1..Len(ns) /\ n - a + 1 = n - m /\ \A i \in 1..n - m : a + i - 1 = m + i
    BY <1>1, <1>2, <1>3
  <2> HIDE DEF S, a
  <2>3. /\ SubSeq(ns, a, n) \in Seq(S) /\ Len(SubSeq(ns, a, n)) = IF a <= n THEN n - a + 1 ELSE 0
        /\ \A i \in 1..n - a + 1 : SubSeq(ns, a, n)[i] = ns[a + i - 1]
    BY <2>1, <2>2, SubSeqProperties
  <2>4. d = SubSeq(ns, a, n)
    BY DEF d, a
  <2>5. IsSeq(d)
    BY <2>3, <2>4, SeqIs
  <2>6. Len(d) = n - m
    <3>1. (a <= n => n - a + 1 = n - m) /\ (~(a <= n) => n - m = 0)
      <4>1. m \in Nat /\ n \in Nat /\ m <= n
        BY <1>1, <1>2, <1>3
      <4> QED BY ONLY <4>1 DEF a
    <3> QED BY <2>3, <2>4, <3>1
  <2> QED BY <2>2, <2>3, <2>4, <2>5, <2>6
<1>5. /\ IsSeq(s \o d) /\ Len(s \o d) = m + (n - m) /\ \A i \in 1..m : (s \o d)[i] = s[i]
      /\ \A j \in 1..n - m : (s \o d)[m + j] = d[j]
  <2>1. IsSeq(s) /\ IsSeq(d) /\ Len(s) = m /\ Len(d) = n - m
    BY <1>1, <1>7
  <2>2. IsSeq(s \o d) /\ Len(s \o d) = Len(s) + Len(d)
    BY ONLY <2>1, Concatenated
  <2>3. \A i \in 1..Len(s) : (s \o d)[i] = s[i]
    BY ONLY <2>1, Concatenated
  <2>4. \A i \in 1..Len(d) : (s \o d)[Len(s) + i] = d[i]
    <3> TAKE i \in 1..Len(d)
    <3>1. IsSeq(s) /\ IsSeq(d)
      BY <2>1
    <3> QED BY ONLY <3>1, i \in 1..Len(d), ConcatenatedRight, Zenon
  <2> QED BY ONLY <2>1, <2>2, <2>3, <2>4
<1>8. IsSeq(s \o d) /\ Len(s \o d) = n
  <2>1. m \in Nat /\ n \in Nat
    BY <1>1, <1>2
  <2> QED BY ONLY <1>5, <2>1
<1>9. \A i \in 1..n : (s \o d)[i] = ns[i]
  <2> TAKE i \in 1..n
  <2>1. CASE i \in 1..m
    BY <1>3, <1>5, <2>1
  <2>2. CASE i \notin 1..m
    <3>1. i - m \in 1..n - m /\ m + (i - m) = i
      BY <1>1, <1>2, <1>3, <2>2
    <3>2. \A j \in 1..n - m : m + j = i => (s \o d)[i] = ns[i]
      BY <1>5, <1>7
    <3> QED BY <3>1, <3>2
  <2> QED BY <2>1, <2>2
<1>10. s \o d = ns
  <2>1. s \o d = [i \in 1..n |-> (s \o d)[i]]
    BY <1>8, SeqFacts
  <2>2. ns = [i \in 1..n |-> ns[i]]
    BY <1>2, SeqFacts
  <2> QED BY <1>9, <2>1, <2>2
<1> QED BY <1>4, <1>10 DEF ns
-----------------------------------------------------------------------------
\* The last variable of a name.
LEMMA Greatest ==
  ASSUME NEW n \in Nat, NEW S, S \subseteq 1..n, S # {}
  PROVE  \E x \in S : \A y \in S : y <= x
<1> DEFINE P(k) == \A T : T \subseteq 1..k /\ T # {} => \E x \in T : \A y \in T : y <= x
           Bad == {k \in Nat : ~P(k)}
<1>1. Bad = {}
  <2> SUFFICES ASSUME Bad # {} PROVE FALSE
    OBVIOUS
  <2> DEFINE R == OpToRel(<, Nat)
  <2>1. IsWellFoundedOn(R, Nat)
    BY NatLessThanWellFounded
  <2>2. \A x, y \in Nat : x < y => <<x, y>> \in R
    BY DEF OpToRel
  <2> HIDE DEF R
  <2>3. Bad \subseteq Nat
    OBVIOUS
  <2> HIDE DEF Bad
  <2>4. PICK k \in Bad : \A j \in Bad : ~(<<j, k>> \in R)
    BY <2>1, <2>3, WFMin
  <2>5. k \in Nat /\ ~P(k) /\ \A j \in Nat : j < k => P(j)
    BY <2>2, <2>3, <2>4 DEF Bad
  <2> HIDE DEF P
  <2>6. P(k)
    <3> SUFFICES ASSUME NEW T, T \subseteq 1..k, T # {} PROVE \E x \in T : \A y \in T : y <= x
      BY DEF P
    <3>1. CASE k \in T
      BY <2>5, <3>1
    <3>2. CASE k \notin T
      <4>0. k \in Nat /\ T \subseteq 1..k /\ T # {} /\ k \notin T
        BY <2>5, <3>2
      <4>1. k - 1 \in Nat /\ k - 1 < k /\ T \subseteq 1..k - 1
        <5>1. PICK e \in T : e \in 1..k
          BY <4>0
        <5>2. k - 1 \in Nat /\ \A t \in 1..k : t # k => t \in 1..k - 1
          BY ONLY <4>0, <5>1
        <5> QED BY <4>0, <5>2
      <4>2. P(k - 1)
        BY <2>5, <4>1
      <4> QED BY <4>1, <4>2 DEF P
    <3> QED BY <3>1, <3>2
  <2> QED BY <2>5, <2>6
<1> QED BY <1>1

LEMMA IndexOfFacts ==
  ASSUME NEW vs, IsVars(vs), NEW name
  PROVE  LET k == IndexOf(vs, name) IN
         /\ k \in 0..Len(vs)
         /\ k # 0 => k \in DOMAIN vs /\ vs[k].name = name /\ \A j \in DOMAIN vs : vs[j].name = name => j <= k
         /\ k = 0 => \A j \in DOMAIN vs : vs[j].name # name
<1> DEFINE at == {i \in DOMAIN vs : vs[i].name = name}
           k == IndexOf(vs, name)
<1>1. Len(vs) \in Nat /\ DOMAIN vs = 1..Len(vs)
  BY NamesFacts
<1>2. CASE at = {}
  <2>1. k = 0
    BY <1>2 DEF IndexOf
  <2> QED BY <1>1, <1>2, <2>1
<1>3. CASE at # {}
  <2>1. k = CHOOSE i \in at : \A j \in at : j <= i
    BY <1>3 DEF IndexOf
  <2>2. at \subseteq 1..Len(vs)
    BY <1>1
  <2>3. \E i \in at : \A j \in at : j <= i
    <3> HIDE DEF at
    <3> QED BY <1>1, <1>3, <2>2, Greatest
  <2>4. k \in at /\ \A j \in at : j <= k
    <3> HIDE DEF at, k
    <3> QED BY <2>1, <2>3
  <2> QED BY <1>1, <2>4
<1> QED BY <1>2, <1>3

LEMMA IndexIs ==
  ASSUME NEW vs, IsVars(vs), NEW name, NEW k \in DOMAIN vs, vs[k].name = name,
         \A j \in DOMAIN vs : vs[j].name = name => j <= k
  PROVE  IndexOf(vs, name) = k
<1> DEFINE h == IndexOf(vs, name)
<1>1. Len(vs) \in Nat /\ DOMAIN vs = 1..Len(vs)
  BY NamesFacts
<1>2. /\ h \in 0..Len(vs)
      /\ h # 0 => h \in DOMAIN vs /\ vs[h].name = name /\ \A j \in DOMAIN vs : vs[j].name = name => j <= h
      /\ h = 0 => \A j \in DOMAIN vs : vs[j].name # name
  BY IndexOfFacts
<1> HIDE DEF h
<1>3. h # 0 /\ h <= k /\ k <= h
  BY <1>2
<1> QED BY <1>1, <1>2, <1>3 DEF h
-----------------------------------------------------------------------------
\* What programs are made of.
LEMMA NodeFacts ==
  ASSUME NEW nodes \in Seq(Nodes), nodes # <<>>
  PROVE  LET n == Head(nodes) IN
         /\ n \in Nodes /\ Tail(nodes) \in Seq(Nodes) /\ n.list \in Seq(Nodes) /\ n.elseList \in Seq(Nodes)
         /\ n.pipe \in Pipes /\ n.pipe.decls \in Seq(STRING) /\ n.pipe.isAssign \in BOOLEAN
         /\ n.op = "range" => Len(n.pipe.decls) <= 2
<1> DEFINE n == Head(nodes)
<1>1. n \in Nodes /\ Tail(nodes) \in Seq(Nodes)
  OBVIOUS
<1> HIDE DEF n
<1>2. n.list \in Lists /\ n.elseList \in Lists
  <2> DEFINE A == UNION {{x.list, x.elseList} : x \in Nodes}
  <2>1. n.list \in A /\ n.elseList \in A
    <3>1. {n.list, n.elseList} \in {{x.list, x.elseList} : x \in Nodes}
      BY <1>1
    <3> QED BY <3>1
  <2>2. A \subseteq Lists
    BY DEF Lists
  <2> HIDE DEF A
  <2> QED BY <2>1, <2>2
<1>3. n.list \in Seq(Nodes) /\ n.elseList \in Seq(Nodes)
  BY <1>2, ProgramAssumption
<1>4. n.pipe \in Pipes
  BY <1>1, ProgramAssumption
<1>5. n.pipe.decls \in Seq(STRING) /\ n.pipe.isAssign \in BOOLEAN
  BY <1>4, ProgramAssumption
<1>6. n.op = "range" => Len(n.pipe.decls) <= 2
  BY <1>1, ProgramAssumption
<1> QED BY <1>1, <1>3, <1>4, <1>5, <1>6 DEF n

LEMMA BodyFacts ==
  ASSUME NEW p \in Program
  PROVE  p.main \in Seq(Nodes) /\ \A name \in DOMAIN p.defs : p.defs[name] \in Seq(Nodes)
<1> DEFINE A == {q.main : q \in Program}
           D(q) == {q.defs[name] : name \in DOMAIN q.defs}
           B == UNION {D(q) : q \in Program}
<1>1. p.main \in A
  OBVIOUS
<1>2. \A name \in DOMAIN p.defs : p.defs[name] \in B
  <2>1. D(p) \in {D(q) : q \in Program}
    OBVIOUS
  <2>2. D(p) \subseteq B
    <3> HIDE DEF D
    <3> QED BY <2>1
  <2> QED BY <2>2
<1>3. A \subseteq Lists /\ B \subseteq Lists
  BY DEF Lists
<1> HIDE DEF A, B
<1>4. p.main \in Lists /\ \A name \in DOMAIN p.defs : p.defs[name] \in Lists
  BY <1>1, <1>2, <1>3
<1> QED BY <1>4, ProgramAssumption

LEMMA CommandFacts ==
  ASSUME NEW cmds \in Seq(Commands), cmds # <<>>
  PROVE  LET cmd == Head(cmds) IN
         Tail(cmds) \in Seq(Commands) /\ cmd[1] \in Arguments /\ Tail(cmd) \in Seq(Arguments)
<1> DEFINE cmd == Head(cmds)
<1> HIDE DEF Commands, Arguments
<1>1. cmd \in Commands /\ Tail(cmds) \in Seq(Commands)
  OBVIOUS
<1> HIDE DEF cmd
<1>2. cmd \in Seq(Arguments) /\ cmd # <<>>
  BY <1>1, ProgramAssumption
<1>3. cmd[1] \in Arguments /\ Tail(cmd) \in Seq(Arguments)
  BY <1>2
<1> QED BY <1>1, <1>3 DEF cmd

LEMMA ArgumentFacts ==
  ASSUME NEW arg \in Arguments, arg.typ = "pipe"
  PROVE  arg.pipe \in Pipes
<1> HIDE DEF Arguments
<1> QED BY ProgramAssumption
-----------------------------------------------------------------------------
\* A walk in progress.
Live == prog \in Program /\ Good(prog, frames, states) /\ status = "running"

LEMMA LiveFacts ==
  ASSUME Live
  PROVE  /\ prog \in Program /\ FramesInv(prog, frames) /\ VarsInv(frames, states) /\ Exact(Top, Names(Vars))
         /\ IsSeq(frames) /\ Len(frames) \in Nat /\ Len(frames) > 0
         /\ IsFrame(Top) /\ Alone(prog, Top) /\ Top.op \in Op /\ Holds(Top, Names(Vars))
         /\ IsSeq(states) /\ Len(states) \in Nat /\ Len(states) > 0 /\ IsVars(Vars)
BY StackFacts DEF Live, Good, Top, Vars

LEMMA Steps ==
  ASSUME Live, Same, FramesInv(prog, frames'), VarsInv(frames', states'), Exact(Last(frames'), Names(Last(states')))
  PROVE  Inv'
BY DEF Live, Same, Inv, Good

LEMMA Fails ==
  ASSUME Live, Same, NEW err, errorf(err)
  PROVE  Inv'
BY DEF Live, Same, Inv, errorf

LEMMA NotExact ==
  ASSUME NEW f, f.op \notin {"list", "range"}, NEW names
  PROVE  Exact(f, names)
BY DEF Exact

\* A list counts on its scope; the scope of all variables is theirs.
LEMMA ListHolds ==
  ASSUME NEW f, f.op = "list", NEW vs, IsVars(vs), f.scope = Names(vs)
  PROVE  Holds(f, Names(vs)) /\ Exact(f, Names(vs)) /\ Low(f) = Len(vs)
<1>1. Len(Names(vs)) = Len(vs) /\ Len(vs) \in Nat
  BY NamesFacts
<1> QED BY <1>1 DEF Holds, Exact, Low

\* A node's pipeline is evaluated: of a list, or of a template call.
LEMMA EvaluateKeeps ==
  ASSUME Live, NEW op \in Evaluating, Evaluate(op), op = "template" => Node.name \in DOMAIN prog.defs
  PROVE  Inv'
<1> DEFINE f == [Top EXCEPT !.op = op, !.mark = mark(Vars)]
           pl == Pipeline(Top.dot, Node.pipe)
           gs == Append(Front(frames), f)
<1>1. /\ prog \in Program /\ FramesInv(prog, frames) /\ VarsInv(frames, states) /\ Exact(Top, Names(Vars))
      /\ IsSeq(frames) /\ Len(frames) \in Nat /\ Len(frames) > 0
      /\ IsFrame(Top) /\ Alone(prog, Top) /\ Holds(Top, Names(Vars)) /\ IsVars(Vars)
  BY LiveFacts
<1>2. Top.op = "list" /\ Top.nodes # <<>> /\ Node.op = op /\ Same /\ states' = states
      /\ frames' = Front(frames) \o <<f, pl>>
  BY DEF Evaluate, AtNode, Walking, Node, Push, Quiet
<1>3. mark(Vars) = Len(Top.scope) /\ mark(Vars) \in Nat
  <2>1. Names(Vars) = Top.scope
    BY <1>1, <1>2 DEF Exact
  <2>2. Len(Names(Vars)) = Len(Vars) /\ Len(Vars) \in Nat
    BY <1>1, NamesFacts
  <2> QED BY <2>1, <2>2 DEF mark
<1>4. IsFrame(f) /\ f.op = op /\ f.mark = mark(Vars) /\ f.scope = Top.scope /\ f.nodes = Top.nodes
  <2>1. op \in Op
    BY DEF Op, Carrier
  <2>2. f = Started(Top, op, mark(Vars))
    BY DEF Started
  <2> HIDE DEF f
  <2> QED BY <1>1, <1>3, <2>1, <2>2, Starting
<1>5. IsFrame(pl) /\ pl.op = "pipeline" /\ pl.decls = Node.pipe.decls /\ pl.isAssign = Node.pipe.isAssign
  <2>1. Node.pipe \in Pipes
    BY <1>1, <1>2, FrameFields, NodeFacts DEF Node
  <2> QED BY <2>1, PipelineFrame
<1> HIDE DEF f, pl
<1>6. FramesInv(prog, gs) /\ VarsInv(gs, states) /\ Last(gs) = f
  <2>1. Alone(prog, f)
    BY <1>2, <1>3, <1>4 DEF Alone, Node, Evaluating
  <2>2. Holds(f, Names(Vars)) /\ Low(f) = Low(Top) /\ Low(Top) \in Nat
    <3>1. Low(f) = Len(Top.scope) /\ Low(Top) = Len(Top.scope)
      BY <1>2, <1>4 DEF Low, Evaluating
    <3>2. Len(Top.scope) \in Nat
      BY <1>1, FrameFields, SeqFacts
    <3>3. Top.op \in Carrier /\ Top.op # "pop" /\ f.op # "pop"
      BY <1>2, <1>4 DEF Carrier, Evaluating
    <3> QED BY <1>1, <1>4, <3>1, <3>2, <3>3 DEF Holds
  <2>3. Len(frames) > 1 => Over(frames[Len(frames) - 1], f)
    <3>1. \A x : Over(x, Top) => Over(x, f)
      BY <1>2, <1>4 DEF Over, Evaluating
    <3> QED BY <1>1, <3>1, Below DEF Top
  <2>4. Top.op # "return" /\ Top.op \in Carrier /\ f.op # "return" /\ f.op \in {"list"} \cup Evaluating
    BY <1>2, <1>4 DEF Carrier, Evaluating
  <2> QED BY <1>1, <1>4, <2>1, <2>2, <2>3, <2>4, ReplaceTop DEF Top, Vars
<1>7. FramesInv(prog, Append(gs, pl)) /\ VarsInv(Append(gs, pl), states) /\ Last(Append(gs, pl)) = pl
  <2>1. Over(f, pl)
    BY <1>2, <1>4, <1>5 DEF Over, Node, Evaluating
  <2>2. Alone(prog, pl) /\ Holds(pl, Names(Last(states))) /\ pl.op \notin Carrier /\ pl.op # "return"
    BY <1>5 DEF Alone, Holds, Carrier, Evaluating
  <2> HIDE DEF gs
  <2> QED BY <1>5, <1>6, <2>1, <2>2, PushTop
<1>8. frames' = Append(gs, pl)
  BY <1>1, <1>2, Fronted, Joined2
<1>9. Exact(pl, Names(Last(states')))
  BY <1>5, NotExact
<1> QED BY <1>2, <1>7, <1>8, <1>9, Steps

LEMMA lookupTemplateKeeps ==
  ASSUME Live, lookupTemplate
  PROVE  Inv'
<1>1. Same
  BY DEF lookupTemplate
<1>2. CASE errorf("template") \/ errorf("depth")
  BY <1>1, <1>2, Fails
<1>3. CASE Node.name \in DOMAIN prog.defs /\ Evaluate("template")
  BY <1>3, EvaluateKeeps DEF Evaluating
<1> QED BY <1>2, <1>3 DEF lookupTemplate

LEMMA walkTextKeeps ==
  ASSUME Live, walkText
  PROVE  Inv'
<1> DEFINE f == [Top EXCEPT !.nodes = Tail(Top.nodes)]
<1>1. /\ FramesInv(prog, frames) /\ VarsInv(frames, states) /\ Exact(Top, Names(Vars))
      /\ IsFrame(Top) /\ Holds(Top, Names(Vars)) /\ IsVars(Vars)
  BY LiveFacts
<1>2. Top.op = "list" /\ Top.nodes # <<>> /\ Same /\ states' = states /\ frames' = Append(Front(frames), f)
  BY DEF walkText, AtNode, Walking, Become
<1>3. IsFrame(f) /\ f.op = "list" /\ f.scope = Top.scope
  <2>1. Tail(Top.nodes) \in Seq(Nodes)
    BY <1>1, <1>2, FrameFields, NodeFacts
  <2> QED BY <1>1, <1>2, <2>1, Onward
<1> HIDE DEF f
<1>4. f.scope = Names(Vars)
  BY <1>1, <1>2, <1>3 DEF Exact
<1>5. Holds(f, Names(Vars)) /\ Exact(f, Names(Vars))
  BY <1>1, <1>3, <1>4, ListHolds
<1>6. Len(Top.scope) <= Len(f.scope)
  <2>1. Len(Top.scope) \in Nat
    BY <1>1, FrameFields, SeqFacts
  <2> QED BY <1>3, <2>1
<1>7. FramesInv(prog, frames') /\ VarsInv(frames', states) /\ Last(frames') = f
  BY <1>1, <1>2, <1>3, <1>5, <1>6, BecomeList DEF Top, Vars
<1> QED BY <1>2, <1>5, <1>7, Steps DEF Vars

\* Behind the node a list goes on with the variables the node has declared, or without.
LEMMA PastFacts ==
  ASSUME Live, Top.op \in Evaluating
  PROVE  LET gs == Append(Front(frames), Past) IN
         /\ FramesInv(prog, gs) /\ VarsInv(gs, states) /\ Last(gs) = Past /\ IsSeq(gs)
         /\ Past.op = "list" /\ Past.scope = Names(Vars) /\ Exact(Past, Names(Vars))
<1> DEFINE f == Past
           gs == Append(Front(frames), f)
<1>1. /\ FramesInv(prog, frames) /\ VarsInv(frames, states) /\ IsSeq(frames) /\ Len(frames) > 0
      /\ IsFrame(Top) /\ Alone(prog, Top) /\ Holds(Top, Names(Vars)) /\ IsVars(Vars)
  BY LiveFacts
<1>2. Inner = Names(Vars) /\ IsSeq(Names(Vars)) /\ Len(Names(Vars)) = Len(Vars)
  BY <1>1, InnerNames, NamesFacts
<1>3. IsFrame(f) /\ f.op = "list" /\ f.scope = Names(Vars)
  <2>1. Tail(Top.nodes) \in Seq(Nodes)
    BY <1>1, FrameFields, NodeFacts DEF Alone
  <2>2. f = ListWith(Top, Tail(Top.nodes), Inner)
    BY DEF Past, ListWith
  <2> HIDE DEF f
  <2>3. f = ListWith(Top, Tail(Top.nodes), Names(Vars))
    BY <1>2, <2>2
  <2> DEFINE nodes == Tail(Top.nodes)
             t == Top
             ns == Names(Vars)
  <2>4. IsFrame(t) /\ nodes \in Seq(Nodes) /\ IsSeq(ns) /\ f = ListWith(t, nodes, ns)
    BY <1>1, <1>2, <2>1, <2>3
  <2> HIDE DEF nodes, t, ns
  <2>5. IsFrame(f) /\ f.op = "list" /\ f.scope = ns
    BY ONLY <2>4, BehindWith
  <2> QED BY <2>5 DEF ns
<1> HIDE DEF f
<1>4. Holds(f, Names(Vars)) /\ Exact(f, Names(Vars))
  BY <1>1, <1>3, ListHolds
<1>5. Len(Top.scope) <= Len(f.scope)
  <2>1. Low(Top) = Len(Top.scope) /\ Top.op \in Carrier
    BY DEF Low, Carrier, Evaluating
  <2> QED BY <1>1, <1>3, <2>1 DEF Holds
<1>6. FramesInv(prog, gs) /\ VarsInv(gs, states) /\ Last(gs) = f
  BY <1>1, <1>3, <1>4, <1>5, BecomeList DEF Top, Vars
<1>7. IsSeq(gs)
  BY <1>6, StackFacts
<1> QED BY <1>3, <1>4, <1>6, <1>7 DEF f

LEMMA OutsideFacts ==
  ASSUME Live, Top.op \in Evaluating
  PROVE  LET gs == Append(Front(frames), Outside) IN
         /\ FramesInv(prog, gs) /\ VarsInv(gs, states) /\ Last(gs) = Outside /\ IsSeq(gs)
         /\ IsFrame(Outside) /\ Outside.op = "list" /\ Outside.scope = Top.scope
         /\ Len(Top.scope) \in Nat /\ Top.mark = Len(Outside.scope) /\ Len(Top.scope) <= Len(Vars) /\ Len(Vars) \in Nat
<1> DEFINE f == Outside
           gs == Append(Front(frames), f)
<1>1. /\ FramesInv(prog, frames) /\ VarsInv(frames, states) /\ IsSeq(frames) /\ Len(frames) > 0
      /\ IsFrame(Top) /\ Alone(prog, Top) /\ Holds(Top, Names(Vars)) /\ IsVars(Vars)
  BY LiveFacts
<1>2. IsFrame(f) /\ f.op = "list" /\ f.scope = Top.scope
  <2>1. Tail(Top.nodes) \in Seq(Nodes)
    BY <1>1, FrameFields, NodeFacts DEF Alone
  <2>2. f = ListAgain(Top, Tail(Top.nodes))
    BY DEF Outside, ListAgain
  <2> HIDE DEF f
  <2> QED BY <1>1, <2>1, <2>2, Behind
<1> HIDE DEF f
<1>3. Len(Top.scope) \in Nat /\ Top.mark = Len(Top.scope)
  BY <1>1, FrameFields, SeqFacts DEF Alone
<1>4. Low(Top) = Len(Top.scope) /\ Top.op \in Carrier /\ Top.op # "pop"
  BY DEF Low, Carrier, Evaluating
<1>5. Holds(f, Names(Vars))
  <2>1. Low(f) = Len(Top.scope) /\ f.op # "pop"
    BY <1>2 DEF Low
  <2> QED BY <1>1, <1>2, <1>4, <2>1 DEF Holds
<1>6. Len(Top.scope) <= Len(Vars) /\ Len(Vars) \in Nat
  <2>1. Len(Names(Vars)) = Len(Vars) /\ Len(Vars) \in Nat
    BY <1>1, NamesFacts
  <2> QED BY <1>1, <1>4, <2>1 DEF Holds
<1>7. FramesInv(prog, gs) /\ VarsInv(gs, states) /\ Last(gs) = f
  <2>1. Len(Top.scope) <= Len(f.scope)
    BY <1>2, <1>3
  <2> QED BY <1>1, <1>2, <1>5, <2>1, BecomeList DEF Top, Vars
<1>8. IsSeq(gs)
  BY <1>7, StackFacts
<1> QED BY <1>2, <1>3, <1>6, <1>7, <1>8 DEF f

LEMMA walkActionKeeps ==
  ASSUME Live, walkAction
  PROVE  Inv'
<1>1. Same /\ Top.op = "action"
  BY DEF walkAction, Walking
<1>2. CASE errorf("print") \/ errorf("panic")
  BY <1>1, <1>2, Fails
<1>3. CASE Become(Past) /\ states' = states
  <2>1. Top.op \in Evaluating
    BY <1>1 DEF Evaluating
  <2> QED BY <1>1, <1>3, <2>1, PastFacts, Steps DEF Become, Vars
<1> QED BY <1>2, <1>3 DEF walkAction

\* A list over a frame of a control structure or a call, with all variables in scope.
LEMMA PushList ==
  ASSUME NEW p, NEW fs, NEW sts, FramesInv(p, fs), VarsInv(fs, sts), Last(fs).op \in {"pop", "loop", "return"},
         NEW dot, NEW nodes \in Seq(Nodes)
  PROVE  LET f == List(dot, nodes, Names(Last(sts)))
             gs == Append(fs, f)
         IN FramesInv(p, gs) /\ VarsInv(gs, sts) /\ Exact(Last(gs), Names(Last(sts)))
<1> DEFINE vs == Last(sts)
           f == List(dot, nodes, Names(vs))
           gs == Append(fs, f)
<1>1. IsVars(vs) /\ IsFrame(Last(fs)) /\ Holds(Last(fs), Names(vs))
  BY StackFacts
<1>2. IsSeq(Names(vs)) /\ Len(Names(vs)) = Len(vs) /\ Len(vs) \in Nat
  BY <1>1, NamesFacts
<1> HIDE DEF vs
<1>3. IsFrame(f) /\ f.op = "list" /\ f.scope = Names(vs)
  BY <1>2, ListFrame
<1> HIDE DEF f
<1>4. Holds(f, Names(vs)) /\ Exact(f, Names(vs)) /\ Low(f) = Len(vs)
  BY <1>1, <1>3, ListHolds
<1>5. Alone(p, f) /\ Over(Last(fs), f) /\ f.op # "return"
  BY <1>3 DEF Alone, Over, Evaluating
<1>6. Last(fs).op = "return" \/ (Last(fs).op \in Carrier /\ Low(Last(fs)) <= Low(f))
  <2>1. Last(fs).op # "return" => Last(fs).op \in Carrier
    BY DEF Carrier
  <2> QED BY <1>1, <1>2, <1>4, <2>1 DEF Holds
<1>7. FramesInv(p, gs) /\ VarsInv(gs, sts) /\ Last(gs) = f
  BY <1>3, <1>4, <1>5, <1>6, PushTop DEF vs
<1> QED BY <1>4, <1>7 DEF f, vs

LEMMA walkIfOrWithKeeps ==
  ASSUME Live, NEW op \in {"if", "with"}, walkIfOrWith(op)
  PROVE  Inv'
<1>1. Same /\ Top.op = op /\ op \in Evaluating /\ states' = states
  BY DEF walkIfOrWith, Walking, Quiet, Evaluating
<1> DEFINE gs == Append(Front(frames), Outside)
           f == Pop(Top.mark)
           hs == Append(gs, f)
<1>2. /\ FramesInv(prog, gs) /\ VarsInv(gs, states) /\ Last(gs) = Outside /\ IsSeq(gs) /\ Outside.op = "list"
      /\ Len(Top.scope) \in Nat /\ Top.mark = Len(Outside.scope) /\ Outside.scope = Top.scope
      /\ Len(Top.scope) <= Len(Vars) /\ Len(Vars) \in Nat
  BY <1>1, OutsideFacts
<1>3. IsFrame(f) /\ f.op = "pop" /\ f.mark = Len(Outside.scope)
  BY <1>2, PopFrame
<1>4. IsVars(Vars) /\ IsFrame(Top) /\ Alone(prog, Top) /\ IsSeq(frames) /\ Len(frames) > 0
  BY LiveFacts
<1>5. Inner = Names(Vars)
  BY <1>1, <1>4, InnerNames, LiveFacts
<1> HIDE DEF f
<1>6. FramesInv(prog, hs) /\ VarsInv(hs, states) /\ Last(hs) = f
  <2> HIDE DEF gs
  <2>1. Alone(prog, f) /\ Over(Last(gs), f) /\ f.op # "return"
    BY <1>2, <1>3 DEF Alone, Over, Evaluating
  <2>2. Low(f) = Len(Outside.scope) /\ Low(Outside) = Len(Outside.scope)
    BY <1>2, <1>3 DEF Low
  <2>3. Holds(f, Names(Vars))
    <3>1. Len(Names(Vars)) = Len(Vars)
      BY <1>4, NamesFacts
    <3> QED BY <1>2, <1>3, <2>2, <3>1 DEF Holds
  <2>4. Last(gs).op \in Carrier /\ Low(Last(gs)) <= Low(f)
    BY <1>2, <2>2 DEF Carrier
  <2> QED BY <1>2, <1>3, <2>1, <2>3, <2>4, PushTop DEF Vars
<1>7. ASSUME NEW dot, NEW nodes \in Seq(Nodes), frames' = Append(hs, List(dot, nodes, Inner))
      PROVE  Inv'
  <2> HIDE DEF hs
  <2>1. FramesInv(prog, frames') /\ VarsInv(frames', states) /\ Exact(Last(frames'), Names(Last(states)))
    BY <1>3, <1>5, <1>6, <1>7, PushList DEF Vars
  <2> QED BY <1>1, <2>1, Steps
<1>8. Node.list \in Seq(Nodes) /\ Node.elseList \in Seq(Nodes)
  BY <1>1, <1>4, FrameFields, NodeFacts DEF Alone, Node
<1> DEFINE g == IF IsTrue(Top.value) THEN List(IF op = "with" THEN Top.value ELSE Top.dot, Node.list, Inner)
                ELSE List(Top.dot, Node.elseList, Inner)
<1>9. frames' = Append(hs, g)
  <2>1. frames' = Front(frames) \o <<Outside, f, g>>
    BY DEF walkIfOrWith, f
  <2>2. IsSeq(Front(frames))
    BY <1>4, Fronted
  <2> HIDE DEF g
  <2> QED BY <2>1, <2>2, Joined3
<1>10. CASE IsTrue(Top.value)
  BY <1>7, <1>8, <1>9, <1>10
<1>11. CASE ~IsTrue(Top.value)
  BY <1>7, <1>8, <1>9, <1>11
<1> QED BY <1>10, <1>11

LEMMA walkTemplateKeeps ==
  ASSUME Live, walkTemplate
  PROVE  Inv'
<1> DEFINE gs == Append(Front(frames), Past)
           f == Frame("return", Top.dot)
           vs == <<Variable("$", Top.value)>>
           hs == Append(gs, f)
           ts == Append(states, vs)
           g == List(Top.value, prog.defs[Node.name], <<"$">>)
<1>1. Same /\ Top.op = "template" /\ Top.op \in Evaluating /\ states' = ts /\ frames' = Front(frames) \o <<Past, f, g>>
  BY DEF walkTemplate, Walking, Quiet, Evaluating
<1>2. /\ FramesInv(prog, gs) /\ VarsInv(gs, states) /\ Last(gs) = Past /\ IsSeq(gs)
      /\ Past.op = "list" /\ Past.scope = Names(Vars)
  BY <1>1, PastFacts
<1>3. IsFrame(f) /\ f.op = "return"
  BY ReturnFrame
<1>4. IsVars(vs) /\ Names(vs) = <<"$">>
  <2> DEFINE x == Variable("$", Top.value)
  <2>1. x.name = "$" /\ x = Variable(x.name, x.v)
    BY VariableFacts
  <2> HIDE DEF x
  <2>2. vs \in Seq({x}) /\ DOMAIN vs = {1} /\ vs[1] = x /\ vs = <<x>>
    BY DEF x
  <2> HIDE DEF vs
  <2>3. IsSeq(vs)
    BY <2>2, SeqIs
  <2>4. IsVars(vs)
    BY <2>1, <2>2, <2>3 DEF IsVars
  <2>5. Names(vs) = [i \in {1} |-> "$"]
    BY <2>1, <2>2 DEF Names
  <2>6. <<"$">> = [i \in {1} |-> "$"]
    OBVIOUS
  <2> QED BY <2>4, <2>5, <2>6
<1>5. prog.defs[Node.name] \in Seq(Nodes)
  <2>1. prog \in Program /\ Alone(prog, Top)
    BY LiveFacts
  <2> QED BY <1>1, <2>1, BodyFacts DEF Alone, Node
<1> HIDE DEF f, vs
<1>6. FramesInv(prog, hs) /\ VarsInv(hs, ts) /\ Last(hs) = f /\ Last(ts) = vs
  <2> HIDE DEF gs
  <2> QED BY <1>2, <1>3, <1>4, PushReturn DEF Vars
<1>7. frames' = Append(hs, g)
  <2>1. IsSeq(Front(frames))
    BY LiveFacts, Fronted
  <2> HIDE DEF g
  <2> QED BY <1>1, <2>1, Joined3
<1>8. FramesInv(prog, Append(hs, g)) /\ VarsInv(Append(hs, g), ts) /\ Exact(Last(Append(hs, g)), Names(Last(ts)))
  <2>1. g = List(Top.value, prog.defs[Node.name], Names(Last(ts)))
    BY <1>4, <1>6
  <2> HIDE DEF hs, ts, g
  <2> QED BY <1>3, <1>5, <1>6, <2>1, PushList
<1> HIDE DEF hs, ts, g
<1> QED BY <1>1, <1>7, <1>8, Steps

LEMMA returnKeeps ==
  ASSUME Live, return
  PROVE  Inv'
<1>1. Same /\ Top.op = "return" /\ states' = Front(states) /\ frames' = Front(frames)
  BY DEF return, Walking, Quiet
<1>2. FramesInv(prog, frames) /\ VarsInv(frames, states)
  BY LiveFacts
<1>3. /\ FramesInv(prog, frames') /\ VarsInv(frames', states')
      /\ Last(frames').op = "list" /\ Names(Last(states')) = Last(frames').scope
  BY <1>1, <1>2, PopReturn DEF Top
<1>4. Exact(Last(frames'), Names(Last(states')))
  BY <1>3 DEF Exact
<1> QED BY <1>1, <1>3, <1>4, Steps

LEMMA OneOrMore ==
  ASSUME NEW n \in Nat, n > 0
  PROVE  n = 1 \/ n > 1
OBVIOUS

LEMMA EndListKeeps ==
  ASSUME Live, EndList
  PROVE  Inv'
<1>1. Same /\ Top.op = "list" /\ states' = states /\ frames' = Front(frames)
  BY DEF EndList, Walking, Same
<1>2. FramesInv(prog, frames) /\ VarsInv(frames, states) /\ Len(frames) \in Nat /\ Len(frames) > 0 /\ Top = Last(frames)
  BY LiveFacts DEF Top
<1>3. CASE Len(frames) = 1
  BY <1>1, <1>3 DEF EndList, Live, Inv, Same
<1>4. ASSUME Len(frames) > 1 PROVE Inv'
  <2>1. FramesInv(prog, frames') /\ VarsInv(frames', states) /\ Last(frames') = frames[Len(frames) - 1]
    BY <1>1, <1>2, <1>4, PopTop
  <2>2. Over(frames[Len(frames) - 1], Top)
    BY <1>2, <1>4, Below
  <2>3. Last(frames').op \notin {"list", "range"}
    BY <1>1, <2>1, <2>2 DEF Over
  <2>4. Exact(Last(frames'), Names(Last(states')))
    BY <2>3, NotExact
  <2>5. Same /\ FramesInv(prog, frames') /\ VarsInv(frames', states')
    BY <1>1, <2>1
  <2> QED BY <2>4, <2>5, Steps
<1>5. Len(frames) = 1 \/ Len(frames) > 1
  <2>1. Len(frames) \in Nat /\ Len(frames) > 0
    BY <1>2
  <2> QED BY ONLY <2>1, OneOrMore
<1> QED BY <1>3, <1>4, <1>5
-----------------------------------------------------------------------------
LEMMA SameSeq ==
  ASSUME NEW s, IsSeq(s), NEW t, IsSeq(t), Len(s) = Len(t), \A i \in 1..Len(s) : s[i] = t[i]
  PROVE  s = t
<1>1. s = [i \in 1..Len(s) |-> s[i]] /\ t = [i \in 1..Len(t) |-> t[i]]
  BY SeqFacts
<1> QED BY <1>1

LEMMA JoinedNone ==
  ASSUME NEW s, IsSeq(s)
  PROVE  s \o <<>> = s
<1>1. s \in Seq({s[i] : i \in DOMAIN s})
  BY DEF IsSeq
<1> DEFINE S == {s[i] : i \in DOMAIN s}
<1> HIDE DEF S
<1>2. s \in Seq(S)
  BY <1>1 DEF S
<1> QED BY <1>2

LEMMA ExceptLast ==
  ASSUME NEW s, IsSeq(s), Len(s) > 0, NEW x
  PROVE  [s EXCEPT ![Len(s)] = x] = Append(Front(s), x)
<1> DEFINE n == Len(s)
           t == [s EXCEPT ![n] = x]
           u == Append(Front(s), x)
<1>1. n \in Nat /\ n > 0 /\ DOMAIN s = 1..n /\ s = [i \in 1..n |-> s[i]]
  BY SeqFacts
<1>2. IsSeq(Front(s)) /\ Len(Front(s)) = n - 1 /\ \A i \in 1..n - 1 : Front(s)[i] = s[i]
  BY Fronted
<1>3. IsSeq(u) /\ Len(u) = n - 1 + 1 /\ u[n - 1 + 1] = x /\ \A i \in 1..n - 1 : u[i] = Front(s)[i]
  BY <1>2, Appended
<1> HIDE DEF n, u
<1>4. n - 1 + 1 = n /\ \A i \in 1..n : i # n => i \in 1..n - 1
  <2>1. n \in Nat /\ n > 0
    BY <1>1
  <2> QED BY ONLY <2>1
<1>5. IsSeq(u) /\ Len(u) = n /\ u[n] = x /\ \A i \in 1..n : i # n => u[i] = s[i]
  BY <1>2, <1>3, <1>4
<1>6. t = [i \in 1..n |-> IF i = n THEN x ELSE s[i]]
  BY <1>1
<1> HIDE DEF t
<1>7. u = [i \in 1..n |-> u[i]]
  BY <1>5, SeqFacts
<1>8. \A i \in 1..n : u[i] = IF i = n THEN x ELSE s[i]
  BY <1>5
<1>9. t = u
  BY <1>6, <1>7, <1>8
<1> QED BY <1>9 DEF t, u, n

LEMMA walkRangeKeeps ==
  ASSUME Live, walkRange
  PROVE  Inv'
<1>1. Same /\ Top.op = "range" /\ Top.op \in Evaluating
  BY DEF walkRange, Walking, Evaluating
<1>2. CASE errorf("range")
  BY <1>1, <1>2, Fails
<1> DEFINE gs == Append(Front(frames), Outside)
           decls == Node.pipe.decls
           isAssign == Node.pipe.isAssign
           items == Items(Top.value)
           f == [Frame("loop", Top.dot) EXCEPT !.nodes = Node.list, !.decls = decls, !.isAssign = isAssign,
                   !.items = items, !.mark = Top.mark, !.top = mark(Vars), !.scope = Inner]
           hs == Append(gs, f)
           g == List(Top.dot, Node.elseList, Inner)
<1>3. /\ FramesInv(prog, gs) /\ VarsInv(gs, states) /\ Last(gs) = Outside /\ IsSeq(gs) /\ Outside.op = "list"
      /\ Len(Top.scope) \in Nat /\ Top.mark = Len(Outside.scope) /\ Outside.scope = Top.scope
      /\ Len(Top.scope) <= Len(Vars) /\ Len(Vars) \in Nat
  BY <1>1, OutsideFacts
<1>4. /\ IsVars(Vars) /\ IsFrame(Top) /\ Alone(prog, Top) /\ IsSeq(frames) /\ Len(frames) > 0 /\ Exact(Top, Names(Vars))
      /\ Holds(Top, Names(Vars))
  BY LiveFacts
<1>5. Inner = Names(Vars) /\ IsSeq(Inner) /\ Len(Inner) = Len(Vars) /\ mark(Vars) = Len(Vars)
  BY <1>1, <1>4, InnerNames, NamesFacts DEF mark
<1>6. /\ Node.list \in Seq(Nodes) /\ Node.elseList \in Seq(Nodes) /\ decls \in Seq(STRING) /\ isAssign \in BOOLEAN
      /\ Len(decls) <= 2
  <2>1. Top.nodes \in Seq(Nodes) /\ Top.nodes # <<>> /\ Head(Top.nodes).op = "range"
    BY <1>1, <1>4, FrameFields DEF Alone
  <2> QED BY <2>1, NodeFacts DEF Node
<1>7. Covers(decls, isAssign, Names(Vars))
  BY <1>1, <1>4 DEF Exact, Node
<1> HIDE DEF decls, isAssign, items
<1>8. /\ IsFrame(f) /\ f.op = "loop" /\ f.scope = Inner /\ f.decls = decls /\ f.isAssign = isAssign
      /\ f.mark = Top.mark /\ f.top = mark(Vars) /\ f.items = items
  <2> DEFINE nodes == Node.list
             m == Top.mark
             top == mark(Vars)
             scope == Inner
             dot == Top.dot
  <2>0. f = Looping(dot, nodes, decls, isAssign, items, m, top, scope)
    BY DEF Looping
  <2> HIDE DEF f
  <2>1. /\ nodes \in Seq(Nodes) /\ decls \in Seq(STRING) /\ isAssign \in BOOLEAN /\ m \in Nat /\ top \in Nat /\ IsSeq(scope)
    BY <1>3, <1>5, <1>6
  <2> HIDE DEF nodes, m, top, scope, dot
  <2>2. /\ IsFrame(f) /\ f.op = "loop" /\ f.scope = scope /\ f.decls = decls /\ f.isAssign = isAssign
        /\ f.mark = m /\ f.top = top /\ f.items = items
    BY ONLY <2>0, <2>1, LoopFrame
  <2> QED BY <2>2 DEF nodes, m, top, scope, dot
<1> HIDE DEF f
<1>9. FramesInv(prog, hs) /\ VarsInv(hs, states) /\ Last(hs) = f
  <2> HIDE DEF gs
  <2>1. Alone(prog, f)
    BY <1>5, <1>6, <1>7, <1>8 DEF Alone, Evaluating
  <2>2. Over(Last(gs), f) /\ f.op # "return"
    BY <1>3, <1>8 DEF Over, Evaluating
  <2>3. Low(f) = Len(Vars) /\ Low(Outside) = Len(Top.scope)
    BY <1>3, <1>5, <1>8 DEF Low
  <2>4. Holds(f, Names(Vars))
    <3>1. Len(Names(Vars)) = Len(Vars)
      BY <1>4, NamesFacts
    <3> QED BY <1>3, <1>5, <1>8, <2>3, <3>1 DEF Holds
  <2>5. Last(gs).op \in Carrier /\ Low(Last(gs)) <= Low(f)
    BY <1>3, <2>3 DEF Carrier
  <2> QED BY <1>3, <1>8, <2>1, <2>2, <2>4, <2>5, PushTop DEF Vars
<1>10. ASSUME frames' = Front(frames) \o <<Outside, f>> \o (IF items = <<>> THEN <<g>> ELSE <<>>), states' = states
       PROVE  Inv'
  <2>1. Front(frames) \o <<Outside, f>> = hs /\ IsSeq(hs)
    <3>1. IsSeq(Front(frames))
      BY <1>4, Fronted
    <3> QED BY <1>3, <3>1, Joined2, Appended
  <2> HIDE DEF hs, g
  <2>2. CASE items = <<>>
    <3>1. frames' = Append(hs, g)
      BY <1>10, <2>1, <2>2, Joined1
    <3>2. FramesInv(prog, frames') /\ VarsInv(frames', states) /\ Exact(Last(frames'), Names(Last(states)))
      BY <1>5, <1>6, <1>8, <1>9, <3>1, PushList DEF g, Vars
    <3> QED BY <1>1, <1>10, <3>2, Steps
  <2>3. CASE items # <<>>
    <3>1. frames' = hs
      BY <1>10, <2>1, <2>3, JoinedNone
    <3>2. Exact(Last(frames'), Names(Last(states')))
      BY <1>8, <1>9, <3>1, NotExact
    <3> QED BY <1>1, <1>9, <1>10, <3>1, <3>2, Steps
  <2> QED BY <2>2, <2>3
<1>11. CASE walkRange /\ ~errorf("range")
  <2> QED BY <1>8, <1>10, <1>11 DEF walkRange, f, decls, isAssign, items, g
<1> QED BY <1>2, <1>11

LEMMA leaveKeeps ==
  ASSUME Live, leave
  PROVE  Inv'
<1> DEFINE gs == Front(frames)
           vs == pop(Vars, Top.mark)
           ts == [states EXCEPT ![Len(states)] = vs]
<1>1. Same /\ Top.op \in {"pop", "loop"} /\ frames' = gs /\ states' = ts
  BY DEF leave, Walking, Quiet, SetVars
<1>2. /\ FramesInv(prog, frames) /\ VarsInv(frames, states) /\ Len(frames) \in Nat /\ Len(frames) > 0 /\ Top = Last(frames)
      /\ IsVars(Vars)
  BY LiveFacts DEF Top
<1>3. Len(frames) > 1
  <2>1. Len(frames) # 1
    BY <1>1, <1>2, Below DEF Evaluating
  <2>2. Len(frames) \in Nat /\ Len(frames) > 0
    BY <1>2
  <2> QED BY ONLY <2>1, <2>2, OneOrMore
<1>4. FramesInv(prog, gs) /\ VarsInv(gs, states) /\ Last(gs) = frames[Len(frames) - 1]
  BY <1>1, <1>2, <1>3, PopTop
<1> HIDE DEF gs
<1>5. Last(gs).op = "list" /\ Top.mark = Len(Last(gs).scope)
  BY <1>1, <1>2, <1>3, <1>4, Below DEF Over
<1>6. IsFrame(Last(gs)) /\ Holds(Last(gs), Names(Vars))
  BY <1>4, StackFacts DEF Vars
<1>7. /\ Low(Last(gs)) = Top.mark /\ Top.mark \in 0..Len(Vars)
      /\ \A k \in 1..Top.mark : Last(gs).scope[k] = Names(Vars)[k]
  <2>1. Low(Last(gs)) = Top.mark
    BY <1>5 DEF Low
  <2>2. Last(gs).op \in Carrier /\ Last(gs).op # "pop"
    BY <1>5 DEF Carrier
  <2>3. Len(Names(Vars)) = Len(Vars) /\ Len(Vars) \in Nat
    BY <1>2, NamesFacts
  <2>4. Top.mark \in Nat
    BY <1>5, <1>6, FrameFields, SeqFacts
  <2> QED BY <1>5, <1>6, <2>1, <2>2, <2>3, <2>4 DEF Holds
<1>8. IsVars(vs) /\ Len(vs) = Top.mark /\ \A k \in 1..Top.mark : Names(vs)[k] = Names(Vars)[k]
  BY <1>2, <1>7, Cut
<1> HIDE DEF vs
<1>9. VarsInv(gs, ts) /\ Last(ts) = vs
  <2>1. Last(gs).op \in Carrier /\ Low(Last(gs)) <= Len(vs)
    BY <1>5, <1>7, <1>8 DEF Carrier
  <2> QED BY <1>4, <1>7, <1>8, <2>1, CutBack DEF Vars
<1>10. Names(vs) = Last(gs).scope
  <2>1. IsSeq(Names(vs)) /\ Len(Names(vs)) = Top.mark
    BY <1>8, NamesFacts
  <2>2. IsSeq(Last(gs).scope)
    BY <1>6, FrameFields
  <2> QED BY <1>5, <1>7, <1>8, <2>1, <2>2, SameSeq
<1>11. Exact(Last(gs), Names(vs))
  BY <1>5, <1>10 DEF Exact
<1> HIDE DEF ts
<1> QED BY <1>1, <1>4, <1>9, <1>11, Steps

\* Where a name is depends on the names alone.
LEMMA IndexSame ==
  ASSUME NEW vs, IsVars(vs), NEW us, IsVars(us), Names(us) = Names(vs), NEW name
  PROVE  IndexOf(us, name) = IndexOf(vs, name)
<1> DEFINE h == IndexOf(vs, name)
<1>1. /\ Len(vs) \in Nat /\ DOMAIN vs = 1..Len(vs) /\ Len(us) = Len(vs) /\ DOMAIN us = 1..Len(vs)
      /\ \A i \in DOMAIN vs : us[i].name = vs[i].name
  <2>1. Len(us) = Len(vs)
    BY NamesFacts
  <2> QED BY <2>1, NamesFacts
<1>2. /\ h # 0 => h \in DOMAIN vs /\ vs[h].name = name /\ \A j \in DOMAIN vs : vs[j].name = name => j <= h
      /\ h = 0 => \A j \in DOMAIN vs : vs[j].name # name
  BY IndexOfFacts
<1> HIDE DEF h
<1>3. CASE h = 0
  <2>1. \A j \in DOMAIN us : us[j].name # name
    BY <1>1, <1>2, <1>3
  <2>2. IndexOf(us, name) = 0
    BY <2>1, IndexOfFacts
  <2> QED BY <1>3, <2>2 DEF h
<1>4. CASE h # 0
  <2>1. h \in DOMAIN us /\ us[h].name = name /\ \A j \in DOMAIN us : us[j].name = name => j <= h
    BY <1>1, <1>2, <1>4
  <2>2. IndexOf(us, name) = h
    BY <2>1, IndexIs
  <2> QED BY <2>2 DEF h
<1> QED BY <1>3, <1>4

LEMMA setVarFacts ==
  ASSUME NEW vs, IsVars(vs), NEW name, NEW v, \E i \in 1..Len(vs) : Names(vs)[i] = name
  PROVE  LET us == setVar(vs, name, v) IN
         /\ IsVars(us) /\ Names(us) = Names(vs) /\ us[IndexOf(us, name)].v = v
         /\ \A other : other # name /\ (\E i \in 1..Len(vs) : Names(vs)[i] = other) =>
              us[IndexOf(us, other)].v = vs[IndexOf(vs, other)].v
<1> DEFINE us == setVar(vs, name, v)
           k == IndexOf(vs, name)
<1>1. us = [vs EXCEPT ![k].v = v]
  BY DEF setVar
<1>2. k \in DOMAIN vs /\ vs[k].name = name
  BY IndexOfFacts, NamesFacts
<1> HIDE DEF k, us
<1> DEFINE u == [vs EXCEPT ![k].v = v]
<1>6. IsVars(u) /\ Names(u) = Names(vs) /\ u[k].v = v
  BY <1>2, SetVarFacts
<1>7. \A i \in DOMAIN vs : i # k => u[i] = vs[i]
  BY <1>2, SetVarFacts
<1> HIDE DEF u
<1>8. us = u
  BY <1>1 DEF u
<1>3. /\ IsVars(us) /\ Names(us) = Names(vs) /\ us[k].v = v
      /\ \A i \in DOMAIN vs : i # k => us[i] = vs[i]
  BY <1>6, <1>7, <1>8
<1>4. us[IndexOf(us, name)].v = v
  BY <1>3, IndexSame DEF k
<1>5. ASSUME NEW other, other # name, \E i \in 1..Len(vs) : Names(vs)[i] = other
      PROVE  us[IndexOf(us, other)].v = vs[IndexOf(vs, other)].v
  <2>1. IndexOf(us, other) = IndexOf(vs, other)
    BY <1>3, IndexSame
  <2>2. IndexOf(vs, other) \in DOMAIN vs /\ vs[IndexOf(vs, other)].name = other
    BY <1>5, IndexOfFacts, NamesFacts
  <2>3. IndexOf(vs, other) # k
    BY <1>2, <1>5, <2>2
  <2> QED BY <1>3, <2>1, <2>2, <2>3
<1> QED BY <1>3, <1>4, <1>5 DEF us

LEMMA setTopVarFacts ==
  ASSUME NEW vs, IsVars(vs), NEW n, n \in 1..Len(vs), NEW v
  PROVE  LET us == setTopVar(vs, n, v) IN
         /\ IsVars(us) /\ Names(us) = Names(vs) /\ us[Len(vs) + 1 - n].v = v
         /\ \A i \in DOMAIN vs : i # Len(vs) + 1 - n => us[i] = vs[i]
<1> DEFINE k == Len(vs) + 1 - n
           us == setTopVar(vs, n, v)
<1>1. us = [vs EXCEPT ![k].v = v]
  BY DEF setTopVar
<1>2. k \in DOMAIN vs
  BY NamesFacts
<1> HIDE DEF k, us
<1> DEFINE u == [vs EXCEPT ![k].v = v]
<1>4. IsVars(u) /\ Names(u) = Names(vs) /\ u[k].v = v
  BY <1>2, SetVarFacts
<1>5. \A i \in DOMAIN vs : i # k => u[i] = vs[i]
  BY <1>2, SetVarFacts
<1> HIDE DEF u
<1>6. us = u
  BY <1>1 DEF u
<1>3. /\ IsVars(us) /\ Names(us) = Names(vs) /\ us[k].v = v
      /\ \A i \in DOMAIN vs : i # k => us[i] = vs[i]
  BY <1>4, <1>5, <1>6
<1> QED BY <1>3 DEF us, k

\* An iteration has the loop's variables, and has given them their values.
LEMMA IteratedFacts ==
  ASSUME Live, Top.op = "loop", Top.items # <<>>
  PROVE  LET vs == Iterated(pop(Vars, Top.top))
             item == Head(Top.items)
             decls == Top.decls
             value(name) == vs[IndexOf(vs, name)].v
         IN /\ IsVars(vs) /\ Names(vs) = Top.scope
            /\ decls # <<>> => /\ value(Last(decls)) = item.elem
                               /\ Len(decls) = 2 /\ decls[1] # decls[2] => value(decls[1]) = item.index
<1> DEFINE cut == pop(Vars, Top.top)
           vs == Iterated(cut)
           elem == Head(Top.items).elem
           index == Head(Top.items).index
           decls == Top.decls
           n == Len(decls)
           d1 == decls[1]
           d2 == decls[2]
           m == Len(cut)
           ns == Top.scope
<1>1. IsVars(Vars) /\ IsFrame(Top) /\ Alone(prog, Top) /\ Holds(Top, Names(Vars))
  BY LiveFacts
<1>2. Top.top = Len(Top.scope) /\ Len(Top.decls) <= 2 /\ Covers(Top.decls, Top.isAssign, Top.scope)
  BY <1>1 DEF Alone
<1>3. IsVars(cut) /\ Names(cut) = ns
  <2>1. /\ Top.scope \in {Top.scope} /\ IsSeq(Top.scope) /\ Len(Top.scope) \in Nat
        /\ Len(Top.scope) <= Len(Names(Vars)) /\ \A k \in 1..Len(Top.scope) : Top.scope[k] = Names(Vars)[k]
    <3>1. Low(Top) = Len(Top.scope) /\ Top.op \in Carrier /\ Top.op # "pop"
      BY DEF Low, Carrier
    <3> QED BY <1>1, <3>1, FrameFields, SeqFacts DEF Holds
  <2>2. Len(Names(Vars)) = Len(Vars) /\ Len(Vars) \in Nat
    BY <1>1, NamesFacts
  <2>3. Top.top \in 0..Len(Vars)
    BY <1>2, <2>1, <2>2
  <2>4. IsVars(cut) /\ Len(cut) = Top.top /\ \A i \in 1..Top.top : Names(cut)[i] = Names(Vars)[i]
    BY <1>1, <2>3, Cut
  <2> HIDE DEF cut
  <2>5. IsSeq(Names(cut)) /\ Len(Names(cut)) = Len(Top.scope)
    BY <1>2, <2>4, NamesFacts
  <2>6. \A i \in 1..Len(Names(cut)) : Names(cut)[i] = Top.scope[i]
    BY <1>2, <2>1, <2>4, <2>5
  <2>7. Names(cut) = Top.scope
    BY <2>1, <2>5, <2>6, SameSeq
  <2> QED BY <2>4, <2>7
<1>4. /\ m \in Nat /\ DOMAIN cut = 1..m /\ IsSeq(ns) /\ Len(ns) = m /\ DOMAIN ns = 1..m /\ m = Len(cut)
      /\ \A i \in 1..m : cut[i].name = ns[i]
  <2> HIDE DEF cut
  <2> QED BY <1>3, NamesFacts
<1>5. decls \in Seq(STRING) /\ n \in Nat /\ n <= 2 /\ DOMAIN decls = 1..n /\ Top.isAssign \in BOOLEAN
  <2>1. decls \in Seq(STRING) /\ Top.isAssign \in BOOLEAN
    BY <1>1, FrameFields
  <2> QED BY <1>2, <2>1
<1>6. n = 0 \/ n = 1 \/ n = 2
  <2>1. n \in Nat /\ n <= 2
    BY <1>5
  <2> HIDE DEF n
  <2> QED BY ONLY <2>1
<1>7. n # 0 <=> decls # <<>>
  BY <1>5
<1>8. vs = IF n = 0 THEN cut
           ELSE IF Top.isAssign THEN IF n = 1 THEN setVar(cut, d1, elem) ELSE setVar(setVar(cut, d1, index), d2, elem)
           ELSE IF n = 1 THEN setTopVar(cut, 1, elem) ELSE setTopVar(setTopVar(cut, 1, elem), 2, index)
  BY DEF Iterated
<1> DEFINE value(name) == vs[IndexOf(vs, name)].v
           Result == /\ IsVars(vs) /\ Names(vs) = ns
                     /\ decls # <<>> => /\ value(Last(decls)) = elem
                                        /\ n = 2 /\ d1 # d2 => value(d1) = index
<1> HIDE DEF cut, vs, elem, index, m, ns
<1>9. ASSUME n = 0 PROVE Result
  BY <1>3, <1>7, <1>8, <1>9
<1>10. ASSUME n # 0, Top.isAssign PROVE Result
  <2>1. \A j \in 1..n : \E i \in 1..m : ns[i] = decls[j]
    BY <1>2, <1>4, <1>5, <1>10 DEF Covers, ns
  <2>2. CASE n = 1
    <3>1. Last(decls) = d1 /\ \E i \in 1..m : ns[i] = d1
      BY <2>1, <2>2 DEF Last
    <3>2. vs = setVar(cut, d1, elem)
      BY <1>8, <1>10, <2>2
    <3> HIDE DEF d1, n
    <3>3. IsVars(vs) /\ Names(vs) = ns /\ value(d1) = elem
      BY <1>3, <1>4, <3>1, <3>2, setVarFacts
    <3> QED BY <2>2, <3>1, <3>3
  <2>3. CASE n = 2
    <3>1. Last(decls) = d2 /\ (\E i \in 1..m : ns[i] = d1) /\ \E i \in 1..m : ns[i] = d2
      BY <2>1, <2>3 DEF Last
    <3> DEFINE us == setVar(cut, d1, index)
    <3>2. vs = setVar(us, d2, elem)
      BY <1>8, <1>10, <2>3
    <3> HIDE DEF d1, d2, n
    <3>3. IsVars(us) /\ Names(us) = ns /\ us[IndexOf(us, d1)].v = index
      BY <1>3, <1>4, <3>1, setVarFacts
    <3> HIDE DEF us
    <3>4. Len(us) = m
      BY <1>3, <1>4, <3>3, NamesFacts
    <3>5. /\ IsVars(vs) /\ Names(vs) = ns /\ value(d2) = elem
          /\ d1 # d2 => value(d1) = us[IndexOf(us, d1)].v
      BY <3>1, <3>2, <3>3, <3>4, setVarFacts
    <3> QED BY <3>1, <3>3, <3>5
  <2> QED BY <1>6, <1>10, <2>2, <2>3
<1>11. ASSUME n # 0, ~Top.isAssign PROVE Result
  <2>1. n <= m /\ \A j \in 1..n : ns[m - n + j] = decls[j]
    BY <1>2, <1>4, <1>5, <1>11 DEF Covers, ns
  <2>2. CASE n = 1
    <3>1. Last(decls) = d1 /\ ns[m] = d1 /\ 1 \in 1..m /\ m + 1 - 1 = m /\ m \in 1..m
      <4>1. 1 \in 1..n /\ m - n + 1 = m /\ 1 <= m
        BY <1>4, <2>1, <2>2
      <4>2. ns[m - n + 1] = decls[1]
        BY <2>1, <4>1
      <4>3. Last(decls) = d1
        BY <2>2 DEF Last
      <4>4. m \in Nat /\ 1 <= m
        BY <1>4, <4>1
      <4>5. 1 \in 1..m /\ m + 1 - 1 = m /\ m \in 1..m
        BY ONLY <4>4
      <4>6. ns[m] = d1
        BY <4>1, <4>2
      <4> QED BY <4>3, <4>5, <4>6
    <3>2. vs = setTopVar(cut, 1, elem)
      BY <1>8, <1>11, <2>2
    <3> HIDE DEF d1, n
    <3>3. IsVars(vs) /\ Names(vs) = ns /\ vs[m].v = elem
      <4>1. 1 \in 1..Len(cut) /\ Len(cut) + 1 - 1 = m
        BY <1>4, <3>1
      <4> QED BY <1>3, <3>2, <4>1, setTopVarFacts
    <3>4. IndexOf(vs, d1) = m
      <4>1. Len(vs) = m /\ DOMAIN vs = 1..m /\ vs[m].name = d1
        BY <1>4, <3>1, <3>3, NamesFacts
      <4> QED BY <1>4, <3>1, <3>3, <4>1, IndexIs
    <3> QED BY <2>2, <3>1, <3>3, <3>4
  <2>3. CASE n = 2
    <3>1. Last(decls) = d2 /\ ns[m] = d2 /\ ns[m - 1] = d1 /\ m >= 2
      <4>0. m \in Nat /\ n = 2 /\ n <= m
        BY <1>4, <2>1, <2>3
      <4>1. 1 \in 1..n /\ 2 \in 1..n /\ m - n + 1 = m - 1 /\ m - n + 2 = m /\ 2 <= m
        BY ONLY <4>0
      <4>2. ns[m - n + 1] = decls[1] /\ ns[m - n + 2] = decls[2]
        BY <2>1, <4>1
      <4>3. Last(decls) = d2
        BY <2>3 DEF Last
      <4> QED BY <4>1, <4>2, <4>3
    <3> DEFINE us == setTopVar(cut, 1, elem)
    <3>2. vs = setTopVar(us, 2, index)
      BY <1>8, <1>11, <2>3
    <3> HIDE DEF d1, d2, n
    <3>3. 1 \in 1..m /\ 2 \in 1..m /\ m + 1 - 1 = m /\ m + 1 - 2 = m - 1 /\ m \in 1..m /\ m - 1 \in 1..m /\ m - 1 # m
      <4>1. m \in Nat /\ m >= 2
        BY <1>4, <3>1
      <4> QED BY ONLY <4>1
    <3>4. IsVars(us) /\ Names(us) = ns /\ us[m].v = elem
      <4>1. 1 \in 1..Len(cut) /\ Len(cut) + 1 - 1 = m
        BY <1>4, <3>3
      <4> QED BY <1>3, <4>1, setTopVarFacts
    <3> HIDE DEF us
    <3>5. Len(us) = m /\ DOMAIN us = 1..m
      BY <1>3, <1>4, <3>4, NamesFacts
    <3>6. IsVars(vs) /\ Names(vs) = ns /\ vs[m - 1].v = index /\ vs[m] = us[m]
      BY <3>2, <3>3, <3>4, <3>5, setTopVarFacts
    <3>7. Len(vs) = m /\ DOMAIN vs = 1..m /\ \A i \in 1..m : vs[i].name = ns[i]
      BY <1>4, <3>6, NamesFacts
    <3>8. IndexOf(vs, d2) = m
      <4>1. vs[m].name = d2 /\ \A j \in DOMAIN vs : j <= m
        <5>1. vs[m].name = d2
          BY <3>1, <3>3, <3>7
        <5>2. \A j \in 1..m : j <= m
          OBVIOUS
        <5> QED BY <3>7, <5>1, <5>2
      <4> QED BY <3>3, <3>6, <3>7, <4>1, IndexIs
    <3>9. ASSUME d1 # d2 PROVE IndexOf(vs, d1) = m - 1
      <4>1. vs[m - 1].name = d1 /\ vs[m].name = d2
        BY <3>1, <3>3, <3>7
      <4>2. ASSUME NEW j \in DOMAIN vs, vs[j].name = d1 PROVE j <= m - 1
        <5>1. j # m /\ j \in 1..m /\ m \in Nat
          BY <1>4, <3>7, <3>9, <4>1, <4>2
        <5> QED BY ONLY <5>1
      <4> QED BY <3>3, <3>6, <3>7, <4>1, <4>2, IndexIs
    <3> QED BY <3>1, <3>4, <3>6, <3>8, <3>9
  <2> QED BY <1>6, <1>11, <2>2, <2>3
<1>12. Result
  BY <1>5, <1>9, <1>10, <1>11
<1> HIDE DEF n, d1, d2
<1> QED BY <1>12 DEF vs, cut, elem, index, n, d1, d2, ns

LEMMA oneIterationKeeps ==
  ASSUME Live, oneIteration
  PROVE  Inv'
<1> DEFINE f == [Top EXCEPT !.items = Tail(Top.items)]
           gs == Append(Front(frames), f)
           vs == Iterated(pop(Vars, Top.top))
           ts == [states EXCEPT ![Len(states)] = vs]
           g == List(Head(Top.items).elem, Top.nodes, Top.scope)
<1>1. Same /\ Top.op = "loop" /\ Top.items # <<>> /\ states' = ts
  BY DEF oneIteration, Walking, Quiet, SetVars
<1>2. /\ FramesInv(prog, frames) /\ VarsInv(frames, states) /\ IsSeq(frames) /\ Len(frames) > 0
      /\ IsFrame(Top) /\ Holds(Top, Names(Vars))
  BY LiveFacts
<1>3. frames' = Append(gs, g)
  <2>1. [frames EXCEPT ![Len(frames)].items = Tail(@)] = [frames EXCEPT ![Len(frames)] = f]
    BY DEF Top, Last
  <2>2. [frames EXCEPT ![Len(frames)] = f] = gs
    <3> HIDE DEF f
    <3> QED BY <1>2, ExceptLast
  <2> QED BY <2>1, <2>2 DEF oneIteration, NextItem
<1>4. Like(Top, f)
  <2> DEFINE items == Tail(Top.items)
  <2> HIDE DEF items
  <2>1. Like(Top, [Top EXCEPT !.items = items])
    BY <1>2, FewerItems DEF Like
  <2> QED BY <2>1 DEF items
<1> HIDE DEF f
<1>5. FramesInv(prog, gs) /\ VarsInv(gs, states) /\ Last(gs) = f
  BY <1>1, <1>2, <1>4, ReplaceLike DEF Top
<1>6. f.op = "loop" /\ f.scope = Top.scope /\ Top.nodes \in Seq(Nodes) /\ IsFrame(f)
  BY <1>1, <1>2, <1>4, FrameFields DEF Like
<1>7. IsVars(vs) /\ Names(vs) = Top.scope
  BY <1>1, IteratedFacts
<1> HIDE DEF vs, gs
<1>8. VarsInv(gs, ts) /\ Last(ts) = vs
  <2>1. Low(Last(gs)) = Len(Top.scope) /\ Last(gs).op \in Carrier /\ Top.op \in Carrier /\ Top.op # "pop"
        /\ Low(Top) = Len(Top.scope)
    BY <1>1, <1>5, <1>6 DEF Low, Carrier
  <2>2. Len(vs) = Len(Top.scope) /\ Len(vs) \in Nat
    BY <1>7, NamesFacts
  <2>3. \A k \in 1..Low(Last(gs)) : Names(vs)[k] = Names(Last(states))[k]
    BY <1>2, <1>7, <2>1 DEF Holds, Vars
  <2>4. Low(Last(gs)) <= Len(vs)
    BY <2>1, <2>2
  <2> QED BY <1>5, <1>7, <2>1, <2>3, <2>4, CutBack
<1> HIDE DEF ts
<1>9. FramesInv(prog, Append(gs, g)) /\ VarsInv(Append(gs, g), ts) /\ Exact(Last(Append(gs, g)), Names(Last(ts)))
  <2>1. g = List(Head(Top.items).elem, Top.nodes, Names(Last(ts)))
    BY <1>7, <1>8
  <2> HIDE DEF g
  <2> QED BY <1>5, <1>6, <1>8, <2>1, PushList
<1> HIDE DEF g
<1> QED BY <1>1, <1>3, <1>9, Steps
-----------------------------------------------------------------------------
\* Pipelines and the calls in them.
LEMMA BecomeLike ==
  ASSUME Live, Top.op \in {"pipeline", "call"}, NEW f, Like(Top, f), Become(f), Same, states' = states
  PROVE  Inv'
<1>1. FramesInv(prog, frames) /\ VarsInv(frames, states)
  BY LiveFacts
<1>2. frames' = Append(Front(frames), f)
  BY DEF Become
<1>3. FramesInv(prog, frames') /\ VarsInv(frames', states) /\ Last(frames') = f
  BY <1>1, <1>2, ReplaceLike DEF Top
<1>4. Exact(f, Names(Last(states')))
  BY NotExact DEF Like
<1>5. FramesInv(prog, frames') /\ VarsInv(frames', states') /\ Exact(Last(frames'), Names(Last(states')))
  BY <1>3, <1>4
<1> QED BY <1>5, Steps

LEMMA PushCall ==
  ASSUME Live, Top.op \in {"pipeline", "call"}, NEW f, Like(Top, f), NEW g, IsFrame(g), g.op \in {"pipeline", "call"},
         g.op = "call" => Top.op = "pipeline", Push(f, g), Same, states' = states
  PROVE  Inv'
<1> DEFINE gs == Append(Front(frames), f)
<1>1. FramesInv(prog, frames) /\ VarsInv(frames, states) /\ IsSeq(frames) /\ Len(frames) > 0
  BY LiveFacts
<1>2. FramesInv(prog, gs) /\ VarsInv(gs, states) /\ Last(gs) = f
  BY <1>1, ReplaceLike DEF Top
<1>3. frames' = Append(gs, g)
  BY <1>1, Fronted, Joined2 DEF Push
<1> HIDE DEF gs
<1>4. FramesInv(prog, frames') /\ VarsInv(frames', states) /\ Last(frames') = g
  <2>1. Over(f, g)
    BY DEF Over, Like, Evaluating
  <2>2. Alone(prog, g) /\ Holds(g, Names(Last(states))) /\ g.op \notin Carrier /\ g.op # "return"
    BY DEF Alone, Holds, Carrier, Evaluating
  <2> QED BY <1>2, <1>3, <2>1, <2>2, PushTop
<1>5. Exact(g, Names(Last(states')))
  BY NotExact
<1>6. FramesInv(prog, frames') /\ VarsInv(frames', states') /\ Exact(Last(frames'), Names(Last(states')))
  BY <1>4, <1>5
<1> QED BY <1>6, Steps

LEMMA Returned ==
  ASSUME NEW p, NEW fs, NEW sts, FramesInv(p, fs), VarsInv(fs, sts), Last(fs).op \in {"pipeline", "call"}, NEW v
  PROVE  LET gs == Append(Front(Front(fs)), Given(Last(Front(fs)), v)) IN
         /\ FramesInv(p, gs) /\ VarsInv(gs, sts)
         /\ \E f : IsFrame(f) /\ Over(f, Last(fs)) /\ Like(f, Last(gs))
<1> DEFINE hs == Front(fs)
           f == Last(hs)
           g == Given(f, v)
<1>1. Len(fs) \in Nat /\ Len(fs) > 0 /\ Len(fs) # 1
  BY StackFacts, Below DEF Evaluating
<1>2. Len(fs) > 1
  BY <1>1, OneOrMore
<1>3. FramesInv(p, hs) /\ VarsInv(hs, sts) /\ f = fs[Len(fs) - 1]
  BY <1>2, PopTop
<1>4. Over(f, Last(fs))
  BY <1>2, <1>3, Below
<1> HIDE DEF hs, f
<1>5. IsFrame(f)
  BY <1>3, StackFacts DEF f
<1>6. Like(f, g)
  BY <1>5, GivenFacts
<1>7. f.op # "return"
  BY <1>4 DEF Over, Evaluating
<1>8. FramesInv(p, Append(Front(hs), g)) /\ VarsInv(Append(Front(hs), g), sts) /\ Last(Append(Front(hs), g)) = g
  <2> HIDE DEF g
  <2> QED BY <1>3, <1>6, <1>7, ReplaceLike DEF f
<1>9. \E x : IsFrame(x) /\ Over(x, Last(fs)) /\ Like(x, g)
  BY <1>4, <1>5, <1>6
<1> HIDE DEF g
<1>10. /\ FramesInv(p, Append(Front(hs), g)) /\ VarsInv(Append(Front(hs), g), sts)
       /\ \E x : IsFrame(x) /\ Over(x, Last(fs)) /\ Like(x, Last(Append(Front(hs), g)))
  BY <1>8, <1>9
<1> QED BY <1>10 DEF hs, f, g

LEMMA LikeTwice ==
  ASSUME NEW f, NEW g, NEW h, Like(f, g), Like(g, h)
  PROVE  Like(f, h)
BY DEF Like

LEMMA evalCommandKeeps ==
  ASSUME Live, evalCommand
  PROVE  Inv'
<1> DEFINE cmd == Head(Top.cmds)
           first == cmd[1]
           rest == [Top EXCEPT !.cmds = Tail(Top.cmds)]
           g == [Frame("call", Top.dot) EXCEPT !.name = first.name, !.args = Tail(cmd), !.value = Top.value]
           pl == Pipeline(Top.dot, first.pipe)
<1>1. Same /\ Top.op = "pipeline" /\ Top.cmds # <<>>
  BY DEF evalCommand, Walking
<1>2. IsFrame(Top)
  BY LiveFacts
<1>3. Tail(Top.cmds) \in Seq(Commands) /\ first \in Arguments /\ Tail(cmd) \in Seq(Arguments)
  BY <1>1, <1>2, FrameFields, CommandFacts
<1>4. IsFrame(rest) /\ Like(Top, rest)
  <2> DEFINE cmds == Tail(Top.cmds)
  <2>1. cmds \in Seq(Commands)
    BY <1>3
  <2> HIDE DEF cmds
  <2>2. Like(Top, [Top EXCEPT !.cmds = cmds])
    BY <1>2, <2>1, NextCommand DEF Like
  <2> QED BY <2>2 DEF cmds, Like
<1>5. ASSUME NEW err, errorf(err) PROVE Inv'
  BY <1>1, <1>5, Fails
<1>6. ASSUME states' = states, Push(rest, g) PROVE Inv'
  <2>1. IsFrame(g) /\ g.op = "call"
    <3>1. g = Calling(Top.dot, first.name, Tail(cmd), Top.value)
      BY DEF Calling
    <3> HIDE DEF g
    <3> QED BY <1>3, <3>1, CallFrame
  <2> HIDE DEF g, rest
  <2> QED BY <1>1, <1>4, <1>6, <2>1, PushCall
<1>7. ASSUME states' = states, first.typ = "pipe", Push(rest, pl) PROVE Inv'
  <2>1. first.pipe \in Pipes
    <3> HIDE DEF first
    <3> QED BY <1>3, <1>7, ArgumentFacts
  <2>2. IsFrame(pl) /\ pl.op = "pipeline"
    BY <2>1, PipelineFrame
  <2> HIDE DEF pl, rest
  <2> QED BY <1>1, <1>4, <1>7, <2>2, PushCall
<1>8. ASSUME states' = states, NEW v, Become(Given(rest, v)) PROVE Inv'
  <2> HIDE DEF rest
  <2>1. Like(rest, Given(rest, v))
    BY <1>4, GivenFacts
  <2>2. Like(Top, Given(rest, v))
    BY <1>4, <2>1, LikeTwice
  <2> QED BY <1>1, <1>8, <2>2, BecomeLike
<1> HIDE DEF cmd, first, rest, g, pl
<1>9. \/ \E err : errorf(err)
      \/ states' = states /\ Push(rest, g)
      \/ states' = states /\ first.typ = "pipe" /\ Push(rest, pl)
      \/ states' = states /\ \E v : Become(Given(rest, v))
  BY DEF evalCommand, cmd, first, rest, g, pl
<1> QED BY <1>5, <1>6, <1>7, <1>8, <1>9

LEMMA evalArgKeeps ==
  ASSUME Live, evalArg
  PROVE  Inv'
<1> DEFINE arg == Head(Top.args)
           rest == [Top EXCEPT !.args = Tail(Top.args)]
           pl == Pipeline(Top.dot, arg.pipe)
<1>1. Same /\ Top.op = "call" /\ Top.args # <<>>
  BY DEF evalArg, Walking
<1>2. IsFrame(Top)
  BY LiveFacts
<1>3. Tail(Top.args) \in Seq(Arguments) /\ arg \in Arguments
  <2> HIDE DEF Arguments
  <2>1. Top.args \in Seq(Arguments)
    BY <1>2, FrameFields
  <2> QED BY <1>1, <2>1
<1>4. IsFrame(rest) /\ Like(Top, rest)
  <2> DEFINE args == Tail(Top.args)
  <2>1. args \in Seq(Arguments)
    BY <1>3
  <2> HIDE DEF args
  <2>2. Like(Top, [Top EXCEPT !.args = args])
    BY <1>2, <2>1, NextArgument DEF Like
  <2> QED BY <2>2 DEF args, Like
<1>5. ASSUME NEW err, errorf(err) PROVE Inv'
  BY <1>1, <1>5, Fails
<1>6. ASSUME states' = states, arg.typ = "pipe", Push(rest, pl) PROVE Inv'
  <2>1. arg.pipe \in Pipes
    <3> HIDE DEF arg
    <3> QED BY <1>3, <1>6, ArgumentFacts
  <2>2. IsFrame(pl) /\ pl.op = "pipeline"
    BY <2>1, PipelineFrame
  <2> HIDE DEF pl, rest
  <2> QED BY <1>1, <1>4, <1>6, <2>2, PushCall
<1>7. ASSUME states' = states, NEW v, Become(Given(rest, v)) PROVE Inv'
  <2> HIDE DEF rest
  <2>1. Like(rest, Given(rest, v))
    BY <1>4, GivenFacts
  <2>2. Like(Top, Given(rest, v))
    BY <1>4, <2>1, LikeTwice
  <2> QED BY <1>1, <1>7, <2>2, BecomeLike
<1> HIDE DEF arg, rest, pl
<1>8. \/ \E err : errorf(err)
      \/ states' = states /\ arg.typ = "pipe" /\ Push(rest, pl)
      \/ states' = states /\ \E v : Become(Given(rest, v))
  BY DEF evalArg, arg, rest, pl
<1> QED BY <1>5, <1>6, <1>7, <1>8

LEMMA evalCallKeeps ==
  ASSUME Live, evalCall
  PROVE  Inv'
<1>1. Same /\ Top.op = "call"
  BY DEF evalCall, Walking
<1>2. (\E err : errorf(err)) \/ (states' = states /\ \E v : Return(v))
  BY DEF evalCall
<1>3. ASSUME NEW err, errorf(err) PROVE Inv'
  BY <1>1, <1>3, Fails
<1>4. ASSUME states' = states, NEW v, Return(v) PROVE Inv'
  <2>1. FramesInv(prog, frames) /\ VarsInv(frames, states)
    BY LiveFacts
  <2>2. frames' = Append(Front(Front(frames)), Given(Last(Front(frames)), v))
    BY <1>4 DEF Return
  <2>3. Last(frames).op \in {"pipeline", "call"}
    BY <1>1 DEF Top
  <2>4. /\ FramesInv(prog, frames') /\ VarsInv(frames', states)
        /\ \E f : IsFrame(f) /\ Over(f, Last(frames)) /\ Like(f, Last(frames'))
    BY <2>1, <2>2, <2>3, Returned
  <2>5. Last(frames').op = "pipeline"
    BY <1>1, <2>4 DEF Over, Like, Top
  <2>6. Exact(Last(frames'), Names(Last(states')))
    BY <2>5, NotExact
  <2>7. VarsInv(frames', states')
    BY <1>4, <2>4
  <2> QED BY <1>1, <2>4, <2>6, <2>7, Steps
<1> QED BY <1>2, <1>3, <1>4

\* The end of a pipeline pushes its variables,
LEMMA CoversLast ==
  ASSUME NEW decls \in Seq(STRING), NEW names, NEW n \in Nat, Len(names) = n + Len(decls),
         \A j \in 1..Len(decls) : names[n + j] = decls[j]
  PROVE  Covers(decls, FALSE, names)
<1> DEFINE k == Len(decls)
<1>1. k \in Nat /\ DOMAIN decls = 1..k /\ Len(names) = n + k /\ \A j \in 1..k : names[n + j] = decls[j]
  OBVIOUS
<1>2. ASSUME NEW j \in DOMAIN decls PROVE names[Len(names) - k + j] = decls[j]
  <2>1. n \in Nat /\ k \in Nat /\ Len(names) = n + k /\ j \in 1..k
    BY <1>1
  <2> HIDE DEF k
  <2>2. Len(names) - k + j = n + j
    BY ONLY <2>1
  <2> QED BY <1>1, <2>1, <2>2
<1>3. k <= Len(names)
  <2> HIDE DEF k
  <2> QED BY <1>1
<1> QED BY <1>2, <1>3 DEF Covers

LEMMA Declares ==
  ASSUME NEW vs, IsVars(vs), NEW decls \in Seq(STRING), NEW value
  PROVE  LET us == vs \o [j \in DOMAIN decls |-> Variable(decls[j], value)]
         IN /\ IsVars(us) /\ Len(vs) <= Len(us) /\ \A i \in 1..Len(vs) : Names(us)[i] = Names(vs)[i]
            /\ Covers(decls, FALSE, Names(us))
<1> DEFINE ds == [j \in DOMAIN decls |-> Variable(decls[j], value)]
           us == vs \o ds
           n == Len(decls)
<1>1. n \in Nat /\ DOMAIN decls = 1..n /\ Len(vs) \in Nat /\ IsSeq(vs)
  BY NamesFacts DEF IsVars
<1>2. ds = [j \in 1..n |-> ds[j]] /\ \A j \in 1..n : ds[j] = Variable(decls[j], value)
  BY <1>1
<1>3. us = vs \o ds
  OBVIOUS
<1> HIDE DEF ds, us, n
<1>4. IsSeq(ds) /\ Len(ds) = n
  BY <1>1, <1>2, Sequence
<1>5. /\ IsSeq(us) /\ Len(us) = Len(vs) + n
      /\ \A i \in 1..Len(vs) : us[i] = vs[i]
      /\ \A j \in 1..n : us[Len(vs) + j] = Variable(decls[j], value)
  <2>1. /\ IsSeq(us) /\ Len(us) = Len(vs) + Len(ds)
        /\ \A i \in 1..Len(vs) : us[i] = vs[i]
        /\ \A j \in 1..Len(ds) : us[Len(vs) + j] = ds[j]
    <3>1. us = vs \o ds /\ IsSeq(vs) /\ IsSeq(ds)
      BY <1>1, <1>3, <1>4
    <3>2. /\ IsSeq(vs \o ds) /\ Len(vs \o ds) = Len(vs) + Len(ds)
          /\ \A i \in 1..Len(vs) : (vs \o ds)[i] = vs[i]
          /\ \A j \in 1..Len(ds) : (vs \o ds)[Len(vs) + j] = ds[j]
      BY ONLY <3>1, Concatenated
    <3> QED BY ONLY <3>1, <3>2
  <2>2. \A j \in 1..n : us[Len(vs) + j] = Variable(decls[j], value)
    BY <1>2, <1>4, <2>1
  <2> QED BY <1>4, <2>1, <2>2
<1>6. DOMAIN us = 1..Len(vs) + n /\ DOMAIN vs = 1..Len(vs)
  BY <1>1, <1>5, SeqFacts
<1>7. \A i \in DOMAIN us : us[i] = Variable(us[i].name, us[i].v)
  <2> TAKE i \in DOMAIN us
  <2>1. CASE i \in 1..Len(vs)
    BY <1>5, <1>6, <2>1 DEF IsVars
  <2>2. CASE i \notin 1..Len(vs)
    <3>1. i - Len(vs) \in 1..n /\ Len(vs) + (i - Len(vs)) = i
      BY <1>1, <1>6, <2>2
    <3>2. us[i] = Variable(decls[i - Len(vs)], value)
      BY <1>5, <3>1
    <3> QED BY <3>2, VariableFacts
  <2> QED BY <2>1, <2>2
<1>8. IsVars(us)
  BY <1>5, <1>7 DEF IsVars
<1>9. \A i \in 1..Len(vs) : Names(us)[i] = Names(vs)[i]
  <2> TAKE i \in 1..Len(vs)
  <2>1. i \in 1..Len(us)
    BY <1>1, <1>5
  <2>2. Names(us)[i] = us[i].name /\ Names(vs)[i] = vs[i].name
    BY <1>8, <2>1, NamesFacts
  <2> QED BY <1>5, <2>2
<1>10. \A j \in 1..n : Names(us)[Len(vs) + j] = decls[j]
  <2> TAKE j \in 1..n
  <2>1. Len(vs) + j \in 1..Len(us)
    BY <1>1, <1>5
  <2>2. Names(us)[Len(vs) + j] = us[Len(vs) + j].name
    BY <1>8, <2>1, NamesFacts
  <2>3. us[Len(vs) + j] = Variable(decls[j], value)
    BY <1>5
  <2>4. Variable(decls[j], value).name = decls[j]
    BY VariableFacts
  <2> QED BY <2>2, <2>3, <2>4
<1>11. Covers(decls, FALSE, Names(us))
  <2>1. Len(Names(us)) = Len(vs) + n
    BY <1>5, <1>8, NamesFacts
  <2> DEFINE m == Len(vs)
             names == Names(us)
  <2>2. m \in Nat /\ Len(names) = m + Len(decls) /\ \A j \in 1..Len(decls) : names[m + j] = decls[j]
    BY <1>1, <1>10, <2>1 DEF n
  <2> HIDE DEF m, names
  <2>3. Covers(decls, FALSE, names)
    BY <2>2, CoversLast
  <2> QED BY <2>3 DEF names
<1>12. Len(vs) <= Len(us)
  BY <1>1, <1>5
<1> QED BY <1>8, <1>9, <1>11, <1>12 DEF us, ds

LEMMA endPipelineKeeps ==
  ASSUME Live, endPipeline
  PROVE  Inv'
<1> DEFINE places == {IndexOf(Vars, Top.decls[j]) : j \in DOMAIN Top.decls}
           assigned == [i \in DOMAIN Vars |-> IF i \in places THEN Variable(Vars[i].name, Top.value) ELSE Vars[i]]
           ds == [j \in DOMAIN Top.decls |-> Variable(Top.decls[j], Top.value)]
           pushed == Vars \o ds
           us == IF Top.isAssign THEN assigned ELSE pushed
           ts == [states EXCEPT ![Len(states)] = us]
           n == Len(Vars)
           decls == Top.decls
           value == Top.value
<1>1. Same /\ Top.op = "pipeline"
  BY DEF endPipeline, Walking
<1>2. \/ \E err : errorf(err)
      \/ (Top.isAssign => 0 \notin places) /\ states' = ts /\ Return(value)
  BY DEF endPipeline, SetVars
<1>3. /\ FramesInv(prog, frames) /\ VarsInv(frames, states) /\ IsFrame(Top) /\ IsVars(Vars)
  BY LiveFacts
<1>4. /\ n \in Nat /\ DOMAIN Vars = 1..n /\ Len(Names(Vars)) = n /\ \A i \in 1..n : Names(Vars)[i] = Vars[i].name
  BY <1>3, NamesFacts
<1>5. Top.decls \in Seq(STRING) /\ Top.isAssign \in BOOLEAN /\ Len(decls) \in Nat /\ DOMAIN decls = 1..Len(decls)
      /\ decls \in Seq(STRING)
  BY <1>3, FrameFields
<1>6. ASSUME NEW err, errorf(err) PROVE Inv'
  BY <1>1, <1>6, Fails
<1> HIDE DEF places, n
<1>7. ASSUME Top.isAssign, 0 \notin places
      PROVE  IsVars(assigned) /\ Names(assigned) = Names(Vars) /\ Covers(Top.decls, Top.isAssign, Names(assigned))
  <2>1. /\ assigned = [i \in 1..n |-> IF i \in places THEN Variable(Vars[i].name, value) ELSE Vars[i]]
    BY <1>4
  <2> HIDE DEF assigned, value
  <2>2. assigned = [i \in 1..n |-> assigned[i]]
    BY <2>1
  <2>3. \A i \in 1..n : assigned[i] = Variable(Vars[i].name, value) \/ assigned[i] = Vars[i]
    BY <2>1
  <2>4. IsVars(assigned) /\ Names(assigned) = Names(Vars)
    BY <1>3, <2>2, <2>3, Assigned DEF n
  <2>5. ASSUME NEW j \in DOMAIN Top.decls PROVE \E i \in DOMAIN Names(Vars) : Names(Vars)[i] = Top.decls[j]
    <3>1. IndexOf(Vars, Top.decls[j]) \in places
      BY DEF places
    <3>2. IndexOf(Vars, Top.decls[j]) # 0
      BY <1>7, <3>1
    <3>3. IndexOf(Vars, Top.decls[j]) \in DOMAIN Vars /\ Vars[IndexOf(Vars, Top.decls[j])].name = Top.decls[j]
      BY <1>3, <3>2, IndexOfFacts
    <3>4. DOMAIN Names(Vars) = DOMAIN Vars
      BY <1>3, NamesFacts
    <3> QED BY <1>4, <3>3, <3>4
  <2> QED BY <1>7, <2>4, <2>5 DEF Covers
<1>8. ASSUME ~Top.isAssign
      PROVE  /\ IsVars(pushed) /\ n <= Len(pushed) /\ \A i \in 1..n : Names(pushed)[i] = Names(Vars)[i]
             /\ Covers(Top.decls, Top.isAssign, Names(pushed))
  <2>1. pushed = Vars \o [j \in DOMAIN decls |-> Variable(decls[j], value)]
    OBVIOUS
  <2> HIDE DEF pushed, value
  <2>2. /\ IsVars(pushed) /\ n <= Len(pushed) /\ \A i \in 1..n : Names(pushed)[i] = Names(Vars)[i]
        /\ Covers(decls, FALSE, Names(pushed))
    BY <1>3, <1>5, <2>1, Declares DEF n
  <2>3. Top.isAssign = FALSE
    BY <1>5, <1>8
  <2> QED BY <2>2, <2>3
<1>9. ASSUME Top.isAssign => 0 \notin places, states' = ts, Return(value) PROVE Inv'
  <2>1. /\ IsVars(us) /\ n <= Len(us) /\ \A i \in 1..n : Names(us)[i] = Names(Vars)[i]
        /\ Covers(Top.decls, Top.isAssign, Names(us))
    <3>1. CASE Top.isAssign
      <4>1. us = assigned
        BY <3>1
      <4>2. IsVars(us) /\ Names(us) = Names(Vars) /\ Covers(Top.decls, Top.isAssign, Names(us))
        BY <1>7, <1>9, <3>1, <4>1
      <4> HIDE DEF us
      <4>3. Len(us) = n /\ n <= n
        BY <1>4, <4>2, NamesFacts
      <4> QED BY <4>2, <4>3
    <3>2. CASE ~Top.isAssign
      <4>1. us = pushed
        BY <3>2
      <4> HIDE DEF us, pushed
      <4> QED BY <1>8, <3>2, <4>1
    <3> QED BY <3>1, <3>2
  <2> HIDE DEF us
  <2>2. VarsInv(frames, ts) /\ Last(ts) = us
    BY <1>3, <1>4, <2>1, Extend DEF Vars, n
  <2> HIDE DEF ts
  <2>3. frames' = Append(Front(Front(frames)), Given(Last(Front(frames)), value))
    BY <1>9 DEF Return
  <2>4. Last(frames).op \in {"pipeline", "call"}
    BY <1>1 DEF Top
  <2>5. FramesInv(prog, frames') /\ VarsInv(frames', ts)
    BY <1>3, <2>2, <2>3, <2>4, Returned
  <2>6. PICK f : IsFrame(f) /\ Over(f, Last(frames)) /\ Like(f, Last(frames'))
    BY <1>3, <2>2, <2>3, <2>4, Returned
  <2>7. Exact(Last(frames'), Names(us))
    <3>1. Last(frames').op \in Evaluating \cup {"pipeline", "call"} /\ Last(frames').nodes = f.nodes
          /\ Last(frames').op = f.op
      BY <1>1, <2>6 DEF Over, Like, Top
    <3>2. ASSUME f.op = "range"
          PROVE  Covers(Head(f.nodes).pipe.decls, Head(f.nodes).pipe.isAssign, Names(us))
      <4>1. Top.decls = Head(f.nodes).pipe.decls /\ Top.isAssign = Head(f.nodes).pipe.isAssign
        BY <1>1, <2>6, <3>2 DEF Over, Top, Evaluating
      <4> QED BY <2>1, <4>1
    <3> QED BY <3>1, <3>2 DEF Exact, Evaluating
  <2>8. VarsInv(frames', states') /\ Exact(Last(frames'), Names(Last(states')))
    BY <1>9, <2>2, <2>5, <2>7
  <2> QED BY <1>1, <2>5, <2>8, Steps
<1> HIDE DEF ts, value
<1> QED BY <1>2, <1>6, <1>9

\* At the start one list goes on, with the data as its only variable.
LEMMA InvInit == Init => Inv
<1> SUFFICES ASSUME Init PROVE Inv
  OBVIOUS
<1> DEFINE f == List(data, prog.main, <<"$">>)
           x == Variable("$", data)
           vs == <<x>>
<1>1. prog \in Program /\ frames = <<f>> /\ states = <<vs>>
  BY DEF Init
<1>2. IsFrame(f) /\ f.op = "list" /\ f.scope = <<"$">>
  <2>1. prog.main \in Seq(Nodes)
    BY <1>1, BodyFacts
  <2> DEFINE scope == <<"$">>
             nodes == prog.main
  <2>2. IsSeq(scope)
    BY DEF IsSeq
  <2>3. nodes \in Seq(Nodes) /\ f = List(data, nodes, scope)
    BY <2>1
  <2> HIDE DEF scope, nodes, f
  <2>4. IsFrame(f) /\ f.op = "list" /\ f.scope = scope
    BY <2>2, <2>3, ListFrame
  <2> QED BY <2>4 DEF scope
<1>3. x = Variable(x.name, x.v) /\ x.name = "$"
  BY VariableFacts
<1> HIDE DEF f, x
<1>4. IsVars(vs) /\ Len(vs) = 1 /\ vs[1] = x
  BY <1>3 DEF IsVars, IsSeq
<1>5. Names(vs) = <<"$">>
  BY <1>3, <1>4 DEF Names
<1> HIDE DEF vs
<1>6. /\ IsSeq(frames) /\ Len(frames) = 1 /\ DOMAIN frames = 1..1 /\ frames[1] = f /\ Last(frames) = f
      /\ IsSeq(states) /\ Len(states) = 1 /\ DOMAIN states = 1..1 /\ states[1] = vs /\ Last(states) = vs
  BY <1>1 DEF IsSeq, Last
<1>7. Exec(frames, 1) = 1
  <2>1. {i \in 1..1 : frames[i].op = "return"} = {}
    BY <1>2, <1>6
  <2> QED BY <2>1, FS_EmptySet DEF Exec
<1>8. FramesInv(prog, frames)
  <2>1. Alone(prog, f)
    BY <1>2 DEF Alone, Evaluating
  <2> QED BY <1>2, <1>6, <2>1 DEF FramesInv
<1>9. Holds(f, Names(vs)) /\ Exact(f, Names(vs))
  BY <1>2, <1>5 DEF Holds, Low, Exact
<1>10. VarsInv(frames, states)
  BY <1>4, <1>6, <1>7, <1>9 DEF VarsInv
<1> QED BY <1>1, <1>6, <1>8, <1>9, <1>10 DEF Inv, Good

\* Every step is one of a run in progress, or changes nothing.
LEMMA InvNext == Inv /\ [Next \/ Done]_vars => Inv'
<1> SUFFICES ASSUME Inv, [Next \/ Done]_vars PROVE Inv'
  OBVIOUS
<1>1. CASE UNCHANGED vars
  BY <1>1 DEF vars, Inv, Good
<1>2. CASE Next
  <2>1. status = "running"
    BY <1>2 DEF Next, walkText, walkAction, walkIfOrWith, walkRange, oneIteration, leave, lookupTemplate, walkTemplate,
                return, EndList, Evaluate, evalCommand, evalArg, evalCall, endPipeline, AtNode, Walking
  <2>2. Live
    BY <2>1 DEF Inv, Live
  <2>3. CASE walkText
    BY <2>2, <2>3, walkTextKeeps
  <2>4. CASE walkAction
    BY <2>2, <2>4, walkActionKeeps
  <2>5. CASE walkIfOrWith("if") \/ walkIfOrWith("with")
    BY <2>2, <2>5, walkIfOrWithKeeps
  <2>6. CASE walkRange
    BY <2>2, <2>6, walkRangeKeeps
  <2>7. CASE oneIteration
    BY <2>2, <2>7, oneIterationKeeps
  <2>8. CASE leave
    BY <2>2, <2>8, leaveKeeps
  <2>9. CASE lookupTemplate
    BY <2>2, <2>9, lookupTemplateKeeps
  <2>10. CASE walkTemplate
    BY <2>2, <2>10, walkTemplateKeeps
  <2>11. CASE return
    BY <2>2, <2>11, returnKeeps
  <2>12. CASE EndList
    BY <2>2, <2>12, EndListKeeps
  <2>13. ASSUME NEW op \in {"action", "if", "with", "range"}, Evaluate(op) PROVE Inv'
    BY <2>2, <2>13, EvaluateKeeps DEF Evaluating
  <2>14. CASE evalCommand
    BY <2>2, <2>14, evalCommandKeeps
  <2>15. CASE evalArg
    BY <2>2, <2>15, evalArgKeeps
  <2>16. CASE evalCall
    BY <2>2, <2>16, evalCallKeeps
  <2>17. CASE endPipeline
    BY <2>2, <2>17, endPipelineKeeps
  <2> QED BY <1>2, <2>3, <2>4, <2>5, <2>6, <2>7, <2>8, <2>9, <2>10, <2>11, <2>12, <2>13, <2>14, <2>15, <2>16, <2>17 DEF Next
<1>3. CASE Done
  BY <1>1, <1>3 DEF Done
<1> QED BY <1>1, <1>2, <1>3

LEMMA Invariant == Spec => []Inv
<1> QED BY InvInit, InvNext, PTL DEF Spec
-----------------------------------------------------------------------------
\* Wherever a list goes on, the stack holds the variables in lexical scope and no others, in the
\* order of their declarations, for every program and every data: the marks of exec.go cut
\* exactly what the bodies have pushed.
THEOREM ScopeKept == Spec => []ScopeRespected
<1>1. Inv => ScopeRespected
  BY DEF Inv, Good, ScopeRespected, Walking, Exact, Top, Vars
<1> QED BY <1>1, Invariant, PTL

\* A loop that has something left takes one iteration as its next step.
LEMMA LoopStep ==
  ASSUME Inv, Next, Walking("loop"), Top.items # <<>>
  PROVE  Live /\ oneIteration
<1>1. status = "running" /\ Top.op = "loop"
  BY DEF Walking
<1>2. ~walkText /\ ~walkAction /\ ~walkIfOrWith("if") /\ ~walkIfOrWith("with") /\ ~walkRange
  BY <1>1 DEF walkText, walkAction, walkIfOrWith, walkRange, AtNode, Walking
<1>3. ~leave /\ ~lookupTemplate /\ ~walkTemplate /\ ~return /\ ~EndList
  BY <1>1 DEF leave, lookupTemplate, walkTemplate, return, EndList, AtNode, Walking
<1>4. \A op \in {"action", "if", "with", "range"} : ~Evaluate(op)
  BY <1>1 DEF Evaluate, AtNode, Walking
<1>5. ~evalCommand /\ ~evalArg /\ ~evalCall /\ ~endPipeline
  BY <1>1 DEF evalCommand, evalArg, evalCall, endPipeline, Walking
<1> QED BY <1>1, <1>2, <1>3, <1>4, <1>5 DEF Next, Inv, Live

\* An iteration starts with the loop's variables holding its index and element, whatever the
\* iterations before it have declared or assigned (walkRange, oneIteration).
THEOREM IterationsStartRight == Spec => LoopVariables
<1> DEFINE Starts ==
      Walking("loop") /\ Top.items # <<>> /\ Top.decls # <<>> =>
        LET item == Head(Top.items)
            value(name) == Vars'[IndexOf(Vars', name)].v
        IN /\ value(Last(Top.decls)) = item.elem
           /\ Len(Top.decls) = 2 /\ Top.decls[1] # Top.decls[2] => value(Top.decls[1]) = item.index
<1>1. Inv /\ [Next \/ Done]_vars => [Starts]_vars
  <2> SUFFICES ASSUME Inv, Next \/ Done, Walking("loop"), Top.items # <<>>, Top.decls # <<>> PROVE Starts
    OBVIOUS
  <2>1. Next
    BY DEF Done, Walking
  <2>2. Live /\ oneIteration /\ Top.op = "loop"
    BY <2>1, LoopStep DEF Walking
  <2> DEFINE vs == Iterated(pop(Vars, Top.top))
             ts == [states EXCEPT ![Len(states)] = vs]
  <2>3. states' = ts /\ Len(states) \in Nat /\ Len(states) > 0 /\ IsSeq(states)
    BY <2>2, LiveFacts DEF oneIteration, SetVars
  <2>4. Vars' = vs
    <3> HIDE DEF vs
    <3>1. DOMAIN states = 1..Len(states) /\ states = [i \in 1..Len(states) |-> states[i]]
      BY <2>3, SeqFacts
    <3>2. Len(ts) = Len(states) /\ ts[Len(states)] = vs
      BY <2>3, <3>1
    <3>3. Vars' = ts[Len(ts)]
      BY <2>3 DEF Vars, Last
    <3> QED BY <3>2, <3>3
  <2>5. LET value(name) == vs[IndexOf(vs, name)].v
        IN /\ value(Last(Top.decls)) = Head(Top.items).elem
           /\ Len(Top.decls) = 2 /\ Top.decls[1] # Top.decls[2] => value(Top.decls[1]) = Head(Top.items).index
    BY <2>2, IteratedFacts
  <2> HIDE DEF vs
  <2> QED BY <2>4, <2>5
<1> HIDE DEF Starts
<1>2. Spec => [][Starts]_vars
  BY <1>1, Invariant, PTL DEF Spec
<1> QED BY <1>2 DEF LoopVariables, Starts
-----------------------------------------------------------------------------
\* Placeholders are counted token by token.
LEMMA MarksNext ==
  ASSUME NEW text, NEW k \in Nat
  PROVE  /\ Marks(text, 0) = 0 /\ Marks(text, k) \in Nat
         /\ text[k + 1].t = "?" => Marks(text, k + 1) = Marks(text, k) + 1
         /\ text[k + 1].t # "?" => Marks(text, k + 1) = Marks(text, k)
<1> DEFINE C(n) == {i \in 1..n : text[i].t = "?"}
<1>0. Marks(text, 0) = Cardinality(C(0)) /\ Marks(text, k) = Cardinality(C(k)) /\ Marks(text, k + 1) = Cardinality(C(k + 1))
  BY DEF Marks
<1>1. C(0) = {}
  OBVIOUS
<1>2. IsFiniteSet(1..k)
  BY FS_Interval
<1>3. IsFiniteSet(C(k)) /\ k + 1 \notin C(k)
  BY <1>2, FS_Subset
<1>4. Cardinality(C(k)) \in Nat
  BY <1>3, FS_CardinalityType
<1>5. ASSUME text[k + 1].t = "?" PROVE Cardinality(C(k + 1)) = Cardinality(C(k)) + 1
  <2>1. C(k + 1) = C(k) \cup {k + 1}
    BY <1>5
  <2> HIDE DEF C
  <2> QED BY <1>3, <2>1, FS_AddElement
<1>6. ASSUME text[k + 1].t # "?" PROVE Cardinality(C(k + 1)) = Cardinality(C(k))
  <2>1. C(k + 1) = C(k)
    BY <1>6
  <2> QED BY <2>1
<1>7. Cardinality(C(0)) = 0
  BY <1>1, FS_EmptySet
<1> HIDE DEF C
<1> QED
  BY <1>0, <1>4, <1>5, <1>6, <1>7

LEMMA MarksSame ==
  ASSUME NEW s, NEW u, NEW k \in Nat, \A i \in 1..k : s[i] = u[i]
  PROVE  Marks(s, k) = Marks(u, k)
<1>1. {i \in 1..k : s[i].t = "?"} = {i \in 1..k : u[i].t = "?"}
  OBVIOUS
<1> QED
  BY <1>1 DEF Marks

LEMMA MarksMono ==
  ASSUME NEW s, NEW k \in Nat, NEW i \in 0..k
  PROVE  Marks(s, i) \in 0..Marks(s, k)
<1> DEFINE C(n) == {j \in 1..n : s[j].t = "?"}
<1>1. C(i) \subseteq C(k) /\ IsFiniteSet(1..k)
  BY FS_Interval
<1>2. IsFiniteSet(C(k))
  BY <1>1, FS_Subset
<1>3. Cardinality(C(i)) <= Cardinality(C(k)) /\ IsFiniteSet(C(i))
  BY <1>1, <1>2, FS_Subset
<1>4. Cardinality(C(i)) \in Nat /\ Cardinality(C(k)) \in Nat
  BY <1>2, <1>3, FS_CardinalityType
<1>5. Marks(s, i) = Cardinality(C(i)) /\ Marks(s, k) = Cardinality(C(k))
  BY DEF Marks
<1> HIDE DEF C
<1> QED
  BY <1>3, <1>4, <1>5

\* A placeholder is one of those counted.
LEMMA MarkCounts ==
  ASSUME NEW s, NEW n \in Nat, NEW i \in 1..n, s[i].t = "?"
  PROVE  Marks(s, i) \in 1..Marks(s, n)
<1>1. i - 1 \in Nat /\ (i - 1) + 1 = i /\ i \in 0..n
  OBVIOUS
<1>2. Marks(s, i) = Marks(s, i - 1) + 1 /\ Marks(s, i - 1) \in Nat
  BY <1>1, MarksNext
<1>3. Marks(s, i) \in 0..Marks(s, n)
  BY <1>1, MarksMono
<1> QED BY <1>2, <1>3

\* Every set of numbers has a least one: what the inductions over lists below use.
LEMMA LeastNat ==
  ASSUME NEW S, S \subseteq Nat, S # {}
  PROVE  \E n \in S : \A m \in S : n <= m
<1> DEFINE R == OpToRel(<, Nat)
<1>1. IsWellFoundedOn(R, Nat)
  BY NatLessThanWellFounded
<1>2. \A n, m \in Nat : n < m => <<n, m>> \in R
  BY DEF OpToRel
<1> HIDE DEF R
<1>3. PICK n \in S : \A m \in S : ~ (<<m, n>> \in R)
  BY <1>1, WFMin
<1>4. \A m \in S : ~(m < n)
  BY <1>2, <1>3
<1> QED
  BY <1>3, <1>4

\* Of two texts, one behind the other.
LEMMA MarksBehind ==
  ASSUME NEW s, IsSeq(s), NEW u, IsSeq(u), NEW k \in 0..Len(u)
  PROVE  Marks(s \o u, Len(s) + k) = Marks(s, Len(s)) + Marks(u, k)
<1> DEFINE n == Len(s)
           su == s \o u
           S == {j \in 0..Len(u) : Marks(su, n + j) # Marks(s, n) + Marks(u, j)}
<1>1. n \in Nat /\ Len(u) \in Nat
  BY SeqFacts
<1>2. (\A i \in 1..n : su[i] = s[i]) /\ \A i \in 1..Len(u) : su[n + i] = u[i]
  BY Concatenated
<1>3. SUFFICES ASSUME S # {} PROVE FALSE
  BY <1>3
<1> HIDE DEF n, su
<1>4. PICK j \in S : \A y \in S : j <= y
  <2> HIDE DEF S
  <2>1. S \subseteq Nat
    BY DEF S
  <2> QED BY <1>3, <2>1, LeastNat
<1>5. j \in 0..Len(u) /\ Marks(su, n + j) # Marks(s, n) + Marks(u, j)
  BY <1>4
<1>6. j # 0
  <2>1. Marks(su, n) = Marks(s, n) /\ Marks(s, n) \in Nat /\ Marks(u, 0) = 0
    BY <1>1, <1>2, MarksSame, MarksNext
  <2> QED BY <1>1, <1>5, <2>1
<1>7. j - 1 \in 0..Len(u) /\ j - 1 \in Nat /\ n + (j - 1) \in Nat /\ j \in 1..Len(u)
  BY <1>1, <1>5, <1>6
<1>8. Marks(su, n + (j - 1)) = Marks(s, n) + Marks(u, j - 1)
  <2>1. j - 1 \notin S
    BY <1>1, <1>4, <1>7
  <2> QED BY <1>7, <2>1
<1>9. su[n + j] = u[j]
  BY <1>2, <1>7
<1>10. (j - 1) + 1 = j /\ (n + (j - 1)) + 1 = n + j
  BY <1>1, <1>7
<1>11. /\ Marks(u, j - 1) \in Nat /\ Marks(s, n) \in Nat
       /\ u[j].t = "?" => Marks(u, j) = Marks(u, j - 1) + 1
       /\ u[j].t # "?" => Marks(u, j) = Marks(u, j - 1)
  BY <1>1, <1>7, <1>10, MarksNext
<1>12. /\ su[n + j].t = "?" => Marks(su, n + j) = Marks(su, n + (j - 1)) + 1
       /\ su[n + j].t # "?" => Marks(su, n + j) = Marks(su, n + (j - 1))
  <2> DEFINE m == n + (j - 1)
  <2>1. m \in Nat /\ m + 1 = n + j
    BY <1>7, <1>10
  <2> HIDE DEF m
  <2>2. /\ su[m + 1].t = "?" => Marks(su, m + 1) = Marks(su, m) + 1
        /\ su[m + 1].t # "?" => Marks(su, m + 1) = Marks(su, m)
    BY <2>1, MarksNext
  <2> QED BY <2>1, <2>2 DEF m
<1>13. Marks(su, n + j) = Marks(s, n) + Marks(u, j)
  <2> HIDE DEF S
  <2> QED BY <1>8, <1>9, <1>11, <1>12
<1> QED BY <1>5, <1>13
-----------------------------------------------------------------------------
\* A text and its parameters stay matched: another token,
LEMMA MatchedText ==
  ASSUME NEW text, IsSeq(text), NEW args, Matched(text, args), NEW tok, tok.t # "?"
  PROVE  Matched(Append(text, tok), args)
<1> DEFINE n == Len(text)
           u == Append(text, tok)
<1>1. n \in Nat /\ DOMAIN text = 1..n
  BY SeqFacts
<1>2. Len(u) = n + 1 /\ DOMAIN u = 1..n + 1 /\ u[n + 1] = tok /\ \A i \in 1..n : u[i] = text[i]
  BY Appended
<1> HIDE DEF n, u
<1>3. \A k \in 0..n : Marks(u, k) = Marks(text, k)
  BY <1>1, <1>2, MarksSame
<1>4. Marks(u, n + 1) = Marks(text, n)
  BY <1>1, <1>2, <1>3, MarksNext
<1>5. Len(args) = Marks(u, Len(u))
  BY <1>2, <1>4 DEF Matched, n
<1>6. ASSUME NEW j \in DOMAIN u, u[j].t = "?" PROVE u[j].of = args[Marks(u, j)]
  <2>1. j \in 1..n
    BY <1>1, <1>2, <1>6
  <2> QED BY <1>1, <1>2, <1>3, <1>6, <2>1 DEF Matched
<1> QED BY <1>5, <1>6 DEF Matched, u

\* a placeholder with its parameter,
LEMMA MatchedMark ==
  ASSUME NEW text, IsSeq(text), NEW args, IsSeq(args), Matched(text, args), NEW v
  PROVE  Matched(Append(text, Mark(v)), Append(args, v))
<1> DEFINE n == Len(text)
           tok == Mark(v)
           u == Append(text, tok)
           m == Len(args)
           bs == Append(args, v)
<1>1. n \in Nat /\ DOMAIN text = 1..n /\ m \in Nat
  BY SeqFacts
<1>2. Len(u) = n + 1 /\ DOMAIN u = 1..n + 1 /\ u[n + 1] = tok /\ \A i \in 1..n : u[i] = text[i]
  BY Appended
<1>3. Len(bs) = m + 1 /\ bs[m + 1] = v /\ \A i \in 1..m : bs[i] = args[i]
  BY Appended
<1>0. tok.t = "?" /\ tok.of = v
  BY DEF Mark
<1> HIDE DEF n, u, m, bs, tok
<1>4. \A k \in 0..n : Marks(u, k) = Marks(text, k)
  BY <1>1, <1>2, MarksSame
<1>5. m = Marks(text, n)
  BY DEF Matched, n, m
<1>6. Marks(u, n + 1) = m + 1
  BY <1>0, <1>1, <1>2, <1>4, <1>5, MarksNext
<1>7. ASSUME NEW j \in DOMAIN u, u[j].t = "?" PROVE u[j].of = bs[Marks(u, j)]
  <2>1. CASE j = n + 1
    BY <1>0, <1>2, <1>3, <1>6, <2>1
  <2>2. CASE j \in 1..n
    <3>1. text[j].t = "?" /\ Marks(u, j) = Marks(text, j)
      BY <1>1, <1>2, <1>4, <1>7, <2>2
    <3>2. Marks(text, j) \in 1..m
      BY <1>1, <1>5, <2>2, <3>1, MarkCounts
    <3>3. text[j].of = args[Marks(text, j)]
      BY <1>1, <2>2, <3>1 DEF Matched
    <3> QED BY <1>2, <1>3, <2>2, <3>1, <3>2, <3>3
  <2> QED BY <1>1, <1>2, <2>1, <2>2
<1> QED BY <1>2, <1>3, <1>6, <1>7 DEF Matched, u, bs, tok

\* or another text with its own.
LEMMA MatchedBoth ==
  ASSUME NEW text, IsSeq(text), NEW args, IsSeq(args), Matched(text, args),
         NEW text2, IsSeq(text2), NEW args2, IsSeq(args2), Matched(text2, args2)
  PROVE  Matched(text \o text2, args \o args2)
<1> DEFINE n == Len(text)
           u == text \o text2
           m == Len(args)
           bs == args \o args2
<1>1. n \in Nat /\ DOMAIN text = 1..n /\ m \in Nat /\ Len(text2) \in Nat /\ DOMAIN text2 = 1..Len(text2) /\ Len(args2) \in Nat
  BY SeqFacts
<1>2. /\ IsSeq(u) /\ Len(u) = n + Len(text2) /\ (\A i \in 1..n : u[i] = text[i]) /\ \A i \in 1..Len(text2) : u[n + i] = text2[i]
  BY Concatenated
<1>3. /\ Len(bs) = m + Len(args2) /\ (\A i \in 1..m : bs[i] = args[i]) /\ \A i \in 1..Len(args2) : bs[m + i] = args2[i]
  BY Concatenated
<1>4. DOMAIN u = 1..n + Len(text2)
  BY <1>2, SeqFacts
<1>5. \A k \in 0..Len(text2) : Marks(u, n + k) = Marks(text, n) + Marks(text2, k)
  BY MarksBehind
<1> HIDE DEF n, u, m, bs
<1>6. \A k \in 0..n : Marks(u, k) = Marks(text, k)
  BY <1>1, <1>2, MarksSame
<1>7. m = Marks(text, n) /\ Len(args2) = Marks(text2, Len(text2))
  BY DEF Matched, n, m
<1>8. Len(bs) = Marks(u, Len(u))
  BY <1>1, <1>2, <1>3, <1>5, <1>7
<1>9. ASSUME NEW j \in DOMAIN u, u[j].t = "?" PROVE u[j].of = bs[Marks(u, j)]
  <2>1. CASE j \in 1..n
    <3>1. text[j].t = "?" /\ Marks(u, j) = Marks(text, j)
      BY <1>1, <1>2, <1>6, <1>9, <2>1
    <3>2. Marks(text, j) \in 1..m
      BY <1>1, <1>7, <2>1, <3>1, MarkCounts
    <3>3. text[j].of = args[Marks(text, j)]
      BY <1>1, <2>1, <3>1 DEF Matched
    <3> QED BY <1>2, <1>3, <2>1, <3>1, <3>2, <3>3
  <2>2. CASE j \notin 1..n
    <3> DEFINE i == j - n
    <3>1. i \in 1..Len(text2) /\ j = n + i
      BY <1>1, <1>4, <2>2
    <3> HIDE DEF i
    <3>2. u[j] = text2[i] /\ text2[i].t = "?"
      BY <1>2, <1>9, <3>1
    <3>3. Marks(text2, i) \in 1..Len(args2)
      BY <1>1, <1>7, <3>1, <3>2, MarkCounts
    <3>4. Marks(u, j) = m + Marks(text2, i)
      BY <1>1, <1>5, <1>7, <3>1
    <3>5. text2[i].of = args2[Marks(text2, i)]
      BY <1>1, <3>1, <3>2 DEF Matched
    <3> QED BY <1>3, <3>2, <3>3, <3>4, <3>5
  <2> QED BY <2>1, <2>2
<1> QED BY <1>8, <1>9 DEF Matched, u, bs
-----------------------------------------------------------------------------
\* Values: what elements they may have, and that a fragment among them is matched.
Elems == [name : STRING, rank : Int, v : Parts]
Distinct(elems) == \A i, j \in DOMAIN elems : elems[i].rank = elems[j].rank => i = j
IsValue(v) ==
  /\ v \in [kind : {v.kind}, n : Int, elems : Seq(Elems), boxed : BOOLEAN, text : {v.text}, args : {v.args}]
  /\ Distinct(v.elems) /\ IsSeq(v.text) /\ IsSeq(v.args) /\ Matched(v.text, v.args)
AreValues(list) == IsSeq(list) /\ \A j \in 1..Len(list) : IsValue(list[j])

LEMMA MatchedEmpty == IsSeq(<<>>) /\ Matched(<<>>, <<>>)
<1>1. Len(<<>>) = 0 /\ DOMAIN <<>> = {} /\ IsSeq(<<>>)
  BY DEF IsSeq
<1>2. Marks(<<>>, 0) = 0
  <2>1. 0 \in Nat
    OBVIOUS
  <2> DEFINE e == <<>>
  <2> HIDE DEF e
  <2>2. Marks(e, 0) = 0
    BY <2>1, MarksNext
  <2> QED BY <2>2 DEF e
<1> QED BY <1>1, <1>2 DEF Matched

LEMMA ValueFacts ==
  ASSUME NEW k, NEW n \in Int
  PROVE  IsValue(Value(k, n)) /\ Value(k, n).kind = k /\ Value(k, n).text = <<>>
<1>1. <<>> \in Seq(Elems) /\ Distinct(<<>>)
  BY DEF Distinct
<1> DEFINE e == <<>>
<1>2. e \in Seq(Elems) /\ Distinct(e) /\ IsSeq(e) /\ Matched(e, e)
  BY <1>1, MatchedEmpty
<1>3. Value(k, n) = [kind |-> k, n |-> n, elems |-> e, boxed |-> FALSE, text |-> e, args |-> e]
  BY DEF Value
<1> HIDE DEF e, Elems
<1>4. Value(k, n).kind = k /\ Value(k, n).elems = e /\ Value(k, n).text = e /\ Value(k, n).args = e
  BY <1>3
<1>5. Value(k, n) \in [kind : {k}, n : Int, elems : Seq(Elems), boxed : BOOLEAN, text : {e}, args : {e}]
  BY <1>2, <1>3
<1> QED BY <1>2, <1>4, <1>5 DEF IsValue, e

LEMMA PartFacts ==
  ASSUME NEW v \in Parts
  PROVE  IsValue(v)
<1> DEFINE e == <<>>
           EL == Elems
<1>1. v \in [kind : STRING, n : Int, elems : Seq(EL), boxed : BOOLEAN, text : {e}, args : {e}]
  BY DataAssumption DEF Elems
<1>2. Distinct(v.elems)
  BY DataAssumption DEF Distinct
<1>3. IsSeq(e) /\ Matched(e, e)
  BY MatchedEmpty
<1> HIDE DEF e, EL
<1>4. v.text = e /\ v.args = e
  BY <1>1
<1>5. v \in [kind : {v.kind}, n : Int, elems : Seq(EL), boxed : BOOLEAN, text : {v.text}, args : {v.args}]
  BY <1>1
<1> QED BY <1>2, <1>3, <1>4, <1>5 DEF IsValue, EL

\* The parts of a value, and it in or out of an interface.
LEMMA ValueParts ==
  ASSUME NEW v, IsValue(v)
  PROVE  /\ v.n \in Int /\ v.elems \in Seq(Elems) /\ v.boxed \in BOOLEAN /\ IsSeq(v.text) /\ IsSeq(v.args)
         /\ v = [kind |-> v.kind, n |-> v.n, elems |-> v.elems, boxed |-> v.boxed, text |-> v.text, args |-> v.args]
         /\ Matched(v.text, v.args) /\ Len(v.elems) \in Nat /\ DOMAIN v.elems = 1..Len(v.elems)
         /\ \A j \in DOMAIN v.elems : v.elems[j] \in Elems /\ IsValue(v.elems[j].v) /\ v.elems[j].rank \in Int
<1> DEFINE EL == Elems
<1>1. v \in [kind : {v.kind}, n : Int, elems : Seq(EL), boxed : BOOLEAN, text : {v.text}, args : {v.args}]
  BY DEF IsValue
<1> HIDE DEF EL
<1>2. v.n \in Int /\ v.elems \in Seq(EL) /\ v.boxed \in BOOLEAN
      /\ v = [kind |-> v.kind, n |-> v.n, elems |-> v.elems, boxed |-> v.boxed, text |-> v.text, args |-> v.args]
  BY <1>1
<1>3. Len(v.elems) \in Nat /\ DOMAIN v.elems = 1..Len(v.elems) /\ \A j \in DOMAIN v.elems : v.elems[j] \in EL
  BY <1>2
<1>4. \A x \in EL : x.v \in Parts /\ x.rank \in Int
  BY DEF EL, Elems
<1>5. \A j \in DOMAIN v.elems : v.elems[j] \in EL /\ IsValue(v.elems[j].v) /\ v.elems[j].rank \in Int
  BY <1>3, <1>4, PartFacts
<1> QED BY <1>2, <1>3, <1>5 DEF IsValue, EL

LEMMA BoxedFacts ==
  ASSUME NEW v, IsValue(v), NEW b \in BOOLEAN
  PROVE  LET w == [v EXCEPT !.boxed = b] IN IsValue(w) /\ w.kind = v.kind /\ w.text = v.text /\ w.args = v.args /\ w.elems = v.elems
<1> DEFINE EL == Elems
           w == [v EXCEPT !.boxed = b]
<1>1. v \in [kind : {v.kind}, n : Int, elems : Seq(EL), boxed : BOOLEAN, text : {v.text}, args : {v.args}]
  BY DEF IsValue
<1> HIDE DEF EL
<1>2. w \in [kind : {v.kind}, n : Int, elems : Seq(EL), boxed : BOOLEAN, text : {v.text}, args : {v.args}]
      /\ w.kind = v.kind /\ w.text = v.text /\ w.args = v.args /\ w.elems = v.elems
  BY <1>1
<1> HIDE DEF w
<1>3. IsValue(w)
  BY <1>2 DEF IsValue, EL
<1> QED BY <1>2, <1>3 DEF w

LEMMA UnboxedFacts ==
  ASSUME NEW v, IsValue(v)
  PROVE  LET w == indirectInterface(v) IN IsValue(w) /\ w.kind = v.kind /\ w.text = v.text /\ w.args = v.args
BY BoxedFacts DEF indirectInterface
-----------------------------------------------------------------------------
\* What the writer does with a value.
Rewrite(w, text, args) == [w EXCEPT !.text = text, !.args = args]
LEMMA Rewritten ==
  ASSUME NEW w, IsValue(w), NEW text, IsSeq(text), NEW args, IsSeq(args), Matched(text, args), NEW u, u = Rewrite(w, text, args)
  PROVE  IsValue(u) /\ u.kind = w.kind /\ u.text = text /\ u.args = args
<1> DEFINE EL == Elems
<1>1. w \in [kind : {w.kind}, n : Int, elems : Seq(EL), boxed : BOOLEAN, text : {w.text}, args : {w.args}] /\ Distinct(w.elems)
  BY DEF IsValue
<1> HIDE DEF EL
<1>2. /\ u \in [kind : {w.kind}, n : Int, elems : Seq(EL), boxed : BOOLEAN, text : {text}, args : {args}]
      /\ u.kind = w.kind /\ u.text = text /\ u.args = args /\ u.elems = w.elems
  BY <1>1 DEF Rewrite
<1>3. IsValue(u)
  BY <1>1, <1>2 DEF IsValue, EL
<1> QED BY <1>2, <1>3

LEMMA WriteStringFacts ==
  ASSUME NEW w, IsValue(w), NEW tok, tok.t # "?"
  PROVE  LET u == WriteString(w, tok) IN IsValue(u) /\ u.text = Append(w.text, tok) /\ u.args = w.args
<1> DEFINE text == Append(w.text, tok)
           args == w.args
           u == Rewrite(w, text, args)
<1>1. IsSeq(text) /\ IsSeq(args) /\ Matched(text, args)
  BY ValueParts, Appended, MatchedText
<1>2. WriteString(w, tok) = u
  <2>1. w = [kind |-> w.kind, n |-> w.n, elems |-> w.elems, boxed |-> w.boxed, text |-> w.text, args |-> w.args]
    BY ValueParts
  <2>2. WriteString(w, tok) = [w EXCEPT !.text = text]
    BY DEF WriteString
  <2> HIDE DEF text
  <2>3. [w EXCEPT !.text = text] = [w EXCEPT !.text = text, !.args = w.args]
    BY <2>1
  <2> QED BY <2>2, <2>3 DEF Rewrite
<1> HIDE DEF text, args
<1>3. IsValue(u) /\ u.text = text /\ u.args = args
  BY <1>1, Rewritten
<1> QED BY <1>2, <1>3 DEF text, args

\* The text a parameter gives: that of a fragment, or one placeholder.
TextOf(v) == IF v.kind = "write" THEN v.text ELSE <<Mark(indirectInterface(v))>>
LEMMA WriteParamFacts ==
  ASSUME NEW w, IsValue(w), NEW arg, IsValue(arg)
  PROVE  LET u == WriteParam(w, arg) IN
         /\ IsValue(u) /\ (arg.kind # "invalid" => u.text = w.text \o TextOf(arg))
         /\ (arg.kind # "write" /\ AreValues(w.args) => AreValues(u.args))
<1> DEFINE x == indirectInterface(arg)
           u == WriteParam(w, arg)
<1>1. IsValue(x) /\ IsSeq(w.text) /\ IsSeq(w.args) /\ Matched(w.text, w.args)
      /\ IsSeq(arg.text) /\ IsSeq(arg.args) /\ Matched(arg.text, arg.args)
  BY ValueParts, UnboxedFacts
<1>2. CASE arg.kind = "invalid"
  BY <1>2 DEF WriteParam
<1>3. CASE arg.kind = "write"
  <2> DEFINE text == w.text \o arg.text
             args == w.args \o arg.args
  <2>1. IsSeq(text) /\ IsSeq(args) /\ Matched(text, args)
    BY <1>1, Concatenated, MatchedBoth
  <2>2. u = Rewrite(w, text, args)
    BY <1>3 DEF WriteParam, Rewrite
  <2>3. text = w.text \o TextOf(arg)
    BY <1>3 DEF TextOf
  <2> HIDE DEF text, args, u
  <2>4. IsValue(u) /\ u.text = text
    BY <2>1, <2>2, Rewritten
  <2> QED BY <1>3, <2>3, <2>4 DEF u
<1>4. CASE arg.kind \notin {"invalid", "write"}
  <2> DEFINE text == Append(w.text, Mark(x))
             args == Append(w.args, x)
  <2>1. u = Rewrite(w, text, args)
    BY <1>4 DEF WriteParam, Rewrite
  <2>2. text = w.text \o TextOf(arg)
    <3>1. TextOf(arg) = <<Mark(x)>>
      BY <1>4 DEF TextOf
    <3> HIDE DEF x
    <3> QED BY <1>1, <3>1, Joined1
  <2> HIDE DEF x
  <2>3. IsSeq(text) /\ IsSeq(args) /\ Matched(text, args)
    BY <1>1, Appended, MatchedMark
  <2>4. AreValues(w.args) => AreValues(args)
    <3> SUFFICES ASSUME AreValues(w.args) PROVE AreValues(args)
      OBVIOUS
    <3>1. Len(args) = Len(w.args) + 1 /\ args[Len(w.args) + 1] = x /\ \A i \in 1..Len(w.args) : args[i] = w.args[i]
      BY <1>1, Appended
    <3>2. Len(w.args) \in Nat
      BY <1>1, SeqFacts
    <3> HIDE DEF args
    <3>3. \A i \in 1..Len(args) : i \in 1..Len(w.args) \/ i = Len(w.args) + 1
      BY <3>1, <3>2
    <3> QED BY <1>1, <2>3, <3>1, <3>3 DEF AreValues
  <2> HIDE DEF text, args, u
  <2>5. IsValue(u) /\ u.text = text /\ u.args = args
    BY <1>1, <2>1, <2>3, Rewritten
  <2> QED BY <1>4, <2>2, <2>4, <2>5 DEF u
<1> QED BY <1>2, <1>3, <1>4

LEMMA EmptyFacts == IsValue(Empty) /\ Empty.text = <<>>
<1> DEFINE v == Value("write", 0)
           e == <<>>
<1>1. IsValue(v)
  BY ValueFacts
<1>2. IsSeq(e) /\ Matched(e, e)
  BY MatchedEmpty
<1>3. Empty = Rewrite(v, e, e)
  BY DEF Empty, Write, Rewrite
<1> HIDE DEF v, e
<1>4. IsValue(Empty) /\ Empty.text = e
  BY <1>1, <1>2, <1>3, Rewritten
<1> QED BY <1>4 DEF e
-----------------------------------------------------------------------------
\* The recursive function of Separated, for the first n items.
NextItem1(q, j, items, sep) == WriteParam(IF j > 1 THEN WriteString(q, Text(sep)) ELSE q, items[j])
Separates(w, n, items, sep) == w = [j \in 0..n |-> IF j = 0 THEN Empty ELSE NextItem1(w[j - 1], j, items, sep)]

LEMMA SeparatesExists ==
  ASSUME NEW n \in Nat, NEW items, NEW sep
  PROVE  \E w : Separates(w, n, items, sep)
<1> DEFINE S == {m \in Nat : ~ \E w : Separates(w, m, items, sep)}
<1>1. SUFFICES ASSUME S # {} PROVE FALSE
  BY <1>1
<1>2. PICK m \in S : \A y \in S : m <= y
  <2> HIDE DEF S
  <2>1. S \subseteq Nat
    BY DEF S
  <2> QED BY <1>1, <2>1, LeastNat
<1>3. CASE m = 0
  <2> DEFINE w == [j \in 0..0 |-> Empty]
  <2>1. Separates(w, 0, items, sep)
    BY DEF Separates
  <2> QED BY <1>3, <2>1
<1>4. CASE m # 0
  <2>1. m - 1 \in Nat /\ m - 1 \notin S
    BY <1>2, <1>4
  <2>2. PICK w : Separates(w, m - 1, items, sep)
    BY <2>1
  <2> DEFINE last == NextItem1(w[m - 1], m, items, sep)
             h == [j \in 0..m |-> IF j = m THEN last ELSE w[j]]
  <2>3. \A j \in 0..m : j = m \/ j \in 0..m - 1
    OBVIOUS
  <2>4. \A j \in 0..m - 1 : w[j] = IF j = 0 THEN Empty ELSE NextItem1(w[j - 1], j, items, sep)
    BY <2>2 DEF Separates
  <2>5. \A j \in 0..m - 1 : h[j] = w[j] /\ (j # 0 => h[j - 1] = w[j - 1])
    BY <2>3
  <2>6. h[m] = last /\ h[m - 1] = w[m - 1]
    BY <1>4
  <2> HIDE DEF h
  <2>7. \A j \in 0..m : h[j] = IF j = 0 THEN Empty ELSE NextItem1(h[j - 1], j, items, sep)
    BY <1>4, <2>3, <2>4, <2>5, <2>6
  <2>8. h = [j \in 0..m |-> h[j]]
    BY DEF h
  <2>9. Separates(h, m, items, sep)
    BY <2>7, <2>8 DEF Separates
  <2> QED BY <2>9
<1> QED
  BY <1>3, <1>4

LEMMA SeparatedIs ==
  ASSUME NEW items, IsSeq(items), NEW sep
  PROVE  \E w : /\ Separated(items, sep) = w[Len(items)] /\ w[0] = Empty
                /\ \A j \in 1..Len(items) : w[j] = NextItem1(w[j - 1], j, items, sep)
<1> DEFINE w == CHOOSE w : Separates(w, Len(items), items, sep)
<1>1. Len(items) \in Nat
  BY SeqFacts
<1>2. Separates(w, Len(items), items, sep)
  BY <1>1, SeparatesExists
<1>3. Separated(items, sep) = w[Len(items)]
  BY DEF Separated, Separates, NextItem1
<1> HIDE DEF w
<1>4. 0 \in 0..Len(items) /\ \A j \in 1..Len(items) : j \in 0..Len(items) /\ j # 0
  BY <1>1
<1>5. \A j \in 0..Len(items) : w[j] = IF j = 0 THEN Empty ELSE NextItem1(w[j - 1], j, items, sep)
  BY <1>2 DEF Separates
<1>6. w[0] = Empty /\ \A j \in 1..Len(items) : w[j] = NextItem1(w[j - 1], j, items, sep)
  BY <1>4, <1>5
<1> QED BY <1>3, <1>6

LEMMA SeparatedFacts ==
  ASSUME NEW items, AreValues(items), NEW sep, sep # "?"
  PROVE  IsValue(Separated(items, sep))
<1>1. IsSeq(items) /\ Len(items) \in Nat
  BY SeqFacts DEF AreValues
<1>2. PICK w : /\ Separated(items, sep) = w[Len(items)] /\ w[0] = Empty
               /\ \A j \in 1..Len(items) : w[j] = NextItem1(w[j - 1], j, items, sep)
  BY <1>1, SeparatedIs
<1> DEFINE S == {j \in 0..Len(items) : ~IsValue(w[j])}
<1>3. SUFFICES ASSUME S # {} PROVE FALSE
  <2>1. Len(items) \in 0..Len(items)
    BY <1>1
  <2> QED BY <1>2, <1>3, <2>1
<1>4. PICK j \in S : \A y \in S : j <= y
  <2> HIDE DEF S
  <2>1. S \subseteq Nat
    BY <1>1 DEF S
  <2> QED BY <1>3, <2>1, LeastNat
<1>5. j # 0
  BY <1>2, <1>4, EmptyFacts
<1>6. j \in 1..Len(items) /\ j - 1 \in 0..Len(items) /\ j - 1 \notin S
  BY <1>1, <1>4, <1>5
<1>7. IsValue(w[j - 1]) /\ IsValue(items[j]) /\ w[j] = NextItem1(w[j - 1], j, items, sep)
  BY <1>2, <1>6 DEF AreValues
<1>8. IsValue(WriteString(w[j - 1], Text(sep)))
  <2>1. Text(sep).t # "?"
    BY DEF Text
  <2> QED BY <1>7, <2>1, WriteStringFacts
<1>9. IsValue(w[j])
  <2> DEFINE q == IF j > 1 THEN WriteString(w[j - 1], Text(sep)) ELSE w[j - 1]
  <2>1. IsValue(q)
    BY <1>7, <1>8
  <2>2. w[j] = WriteParam(q, items[j])
    BY <1>7 DEF NextItem1
  <2> HIDE DEF q
  <2> QED BY <1>7, <2>1, <2>2, WriteParamFacts
<1> QED BY <1>4, <1>9
-----------------------------------------------------------------------------
\* The recursive function of Concat, for the first n lists.
Joins(c, n, seqs) == c = [j \in 0..n |-> IF j = 0 THEN <<>> ELSE c[j - 1] \o seqs[j]]

LEMMA JoinsExists ==
  ASSUME NEW n \in Nat, NEW seqs
  PROVE  \E c : Joins(c, n, seqs)
<1> DEFINE S == {m \in Nat : ~ \E c : Joins(c, m, seqs)}
<1>1. SUFFICES ASSUME S # {} PROVE FALSE
  BY <1>1
<1>2. PICK m \in S : \A y \in S : m <= y
  <2> HIDE DEF S
  <2>1. S \subseteq Nat
    BY DEF S
  <2> QED BY <1>1, <2>1, LeastNat
<1>3. CASE m = 0
  <2> DEFINE c == [j \in 0..0 |-> <<>>]
  <2>1. Joins(c, 0, seqs)
    BY DEF Joins
  <2> QED BY <1>3, <2>1
<1>4. CASE m # 0
  <2>1. m - 1 \in Nat /\ m - 1 \notin S
    BY <1>2, <1>4
  <2>2. PICK c : Joins(c, m - 1, seqs)
    BY <2>1
  <2> DEFINE last == c[m - 1] \o seqs[m]
             h == [j \in 0..m |-> IF j = m THEN last ELSE c[j]]
  <2>3. \A j \in 0..m : j = m \/ j \in 0..m - 1
    OBVIOUS
  <2>4. \A j \in 0..m - 1 : c[j] = IF j = 0 THEN <<>> ELSE c[j - 1] \o seqs[j]
    BY <2>2 DEF Joins
  <2>5. \A j \in 0..m - 1 : h[j] = c[j] /\ (j # 0 => h[j - 1] = c[j - 1])
    BY <2>3
  <2>6. h[m] = last /\ h[m - 1] = c[m - 1]
    BY <1>4
  <2> HIDE DEF h
  <2>7. \A j \in 0..m : h[j] = IF j = 0 THEN <<>> ELSE h[j - 1] \o seqs[j]
    BY <1>4, <2>3, <2>4, <2>5, <2>6
  <2>8. h = [j \in 0..m |-> h[j]]
    BY DEF h
  <2>9. Joins(h, m, seqs)
    BY <2>7, <2>8 DEF Joins
  <2> QED BY <2>9
<1> QED
  BY <1>3, <1>4

\* What is joined are lists of what the lists have.
LEMMA ConcatTyped ==
  ASSUME NEW T, NEW seqs, IsSeq(seqs), \A j \in 1..Len(seqs) : seqs[j] \in Seq(T)
  PROVE  Concat(seqs) \in Seq(T)
<1> DEFINE c == CHOOSE c : Joins(c, Len(seqs), seqs)
           S == {j \in 0..Len(seqs) : c[j] \notin Seq(T)}
<1>1. Len(seqs) \in Nat
  BY SeqFacts
<1>2. Joins(c, Len(seqs), seqs)
  BY <1>1, JoinsExists
<1>3. Concat(seqs) = c[Len(seqs)]
  BY DEF Concat, Joins
<1> HIDE DEF c
<1>4. SUFFICES ASSUME S # {} PROVE FALSE
  <2>1. Len(seqs) \in 0..Len(seqs)
    BY <1>1
  <2> QED BY <1>3, <1>4, <2>1
<1>5. PICK j \in S : \A y \in S : j <= y
  <2> HIDE DEF S
  <2>1. S \subseteq Nat
    BY <1>1 DEF S
  <2> QED BY <1>4, <2>1, LeastNat
<1>6. c[j] = IF j = 0 THEN <<>> ELSE c[j - 1] \o seqs[j]
  BY <1>2 DEF Joins
<1>7. j # 0
  <2>1. <<>> \in Seq(T) /\ c[j] \notin Seq(T)
    BY <1>5
  <2> DEFINE e == <<>>
  <2>2. e \in Seq(T) /\ c[j] = IF j = 0 THEN e ELSE c[j - 1] \o seqs[j]
    BY <1>6, <2>1
  <2> HIDE DEF e
  <2> QED BY <2>1, <2>2
<1>8. j \in 1..Len(seqs) /\ j - 1 \in 0..Len(seqs) /\ j - 1 \notin S
  BY <1>1, <1>5, <1>7
<1>9. c[j - 1] \in Seq(T) /\ seqs[j] \in Seq(T) /\ c[j] = c[j - 1] \o seqs[j]
  BY <1>6, <1>7, <1>8
<1>10. c[j] \in Seq(T)
  <2> DEFINE a == c[j - 1]
             b == seqs[j]
  <2>1. a \in Seq(T) /\ b \in Seq(T) /\ c[j] = a \o b
    BY <1>9
  <2> HIDE DEF a, b
  <2>2. a \o b \in Seq(T)
    BY <2>1
  <2> QED BY <2>1, <2>2
<1> QED BY <1>5, <1>10

LEMMA ConcatFacts ==
  ASSUME NEW seqs, IsSeq(seqs), \A j \in 1..Len(seqs) : IsSeq(seqs[j])
  PROVE  /\ IsSeq(Concat(seqs))
         /\ \A i \in 1..Len(Concat(seqs)) : \E j \in 1..Len(seqs) : \E k \in 1..Len(seqs[j]) : Concat(seqs)[i] = seqs[j][k]
<1> DEFINE T == UNION {{seqs[j][k] : k \in 1..Len(seqs[j])} : j \in 1..Len(seqs)}
           cs == Concat(seqs)
<1>1. \A j \in 1..Len(seqs) : seqs[j] \in Seq(T)
  <2> TAKE j \in 1..Len(seqs)
  <2>1. \A k \in 1..Len(seqs[j]) : seqs[j][k] \in T
    OBVIOUS
  <2> DEFINE s == seqs[j]
  <2>2. IsSeq(s) /\ \A k \in 1..Len(s) : s[k] \in T
    BY <2>1
  <2> HIDE DEF T, s
  <2>3. s \in Seq(T)
    BY <2>2, SeqOf
  <2> QED BY <2>3 DEF s
<1> HIDE DEF T
<1>2. cs \in Seq(T)
  BY <1>1, ConcatTyped
<1> HIDE DEF cs
<1>3. IsSeq(cs)
  BY <1>2, SeqIs
<1>4. \A i \in 1..Len(cs) : cs[i] \in T
  BY <1>2
<1>5. \A x \in T : \E j \in 1..Len(seqs) : \E k \in 1..Len(seqs[j]) : x = seqs[j][k]
  BY DEF T
<1> QED BY <1>3, <1>4, <1>5 DEF cs

\* A function over a list, as a sequence.
LEMMA Mapped ==
  ASSUME NEW s, IsSeq(s), NEW t, DOMAIN t = DOMAIN s, t = [j \in DOMAIN s |-> t[j]]
  PROVE  IsSeq(t) /\ Len(t) = Len(s) /\ DOMAIN t = 1..Len(s)
<1>1. Len(s) \in Nat /\ DOMAIN s = 1..Len(s)
  BY SeqFacts
<1>2. t = [j \in 1..Len(s) |-> t[j]]
  BY <1>1
<1> QED BY <1>1, <1>2, Sequence

LEMMA ElementValues ==
  ASSUME NEW v, IsValue(v)
  PROVE  AreValues(Values(v.elems)) /\ Len(Values(v.elems)) = Len(v.elems)
         /\ \A j \in 1..Len(v.elems) : Values(v.elems)[j] = v.elems[j].v
<1> DEFINE t == Values(v.elems)
<1>1. v.elems \in Seq(Elems) /\ DOMAIN v.elems = 1..Len(v.elems) /\ \A j \in DOMAIN v.elems : IsValue(v.elems[j].v)
  BY ValueParts
<1>2. IsSeq(v.elems)
  BY <1>1, SeqIs
<1>3. t = [j \in DOMAIN v.elems |-> v.elems[j].v]
  BY DEF Values
<1> HIDE DEF t
<1>4. DOMAIN t = DOMAIN v.elems /\ t = [j \in DOMAIN v.elems |-> t[j]] /\ \A j \in DOMAIN v.elems : t[j] = v.elems[j].v
  BY <1>3
<1>5. IsSeq(t) /\ Len(t) = Len(v.elems)
  BY <1>2, <1>4, Mapped
<1> QED BY <1>1, <1>4, <1>5 DEF AreValues, t

LEMMA OneValue ==
  ASSUME NEW v
  PROVE  IsSeq(<<v>>) /\ Len(<<v>>) = 1 /\ <<v>>[1] = v /\ (IsValue(v) => AreValues(<<v>>))
<1>1. IsSeq(<<v>>)
  BY DEF IsSeq
<1>2. Len(<<v>>) = 1 /\ <<v>>[1] = v
  OBVIOUS
<1> DEFINE s == <<v>>
<1>3. Len(s) = 1 /\ s[1] = v
  BY <1>2
<1> HIDE DEF s
<1>4. ASSUME IsValue(v) PROVE \A j \in 1..Len(s) : IsValue(s[j])
  BY <1>3, <1>4
<1> QED BY <1>1, <1>2, <1>4 DEF AreValues, s

\* Lists of values, joined.
LEMMA JoinedValues ==
  ASSUME NEW seqs, IsSeq(seqs), \A j \in 1..Len(seqs) : AreValues(seqs[j])
  PROVE  AreValues(Concat(seqs))
<1> DEFINE cs == Concat(seqs)
<1>1. \A j \in 1..Len(seqs) : IsSeq(seqs[j])
  BY DEF AreValues
<1>2. IsSeq(cs) /\ \A i \in 1..Len(cs) : \E j \in 1..Len(seqs) : \E k \in 1..Len(seqs[j]) : cs[i] = seqs[j][k]
  BY <1>1, ConcatFacts
<1> HIDE DEF cs
<1>3. \A i \in 1..Len(cs) : IsValue(cs[i])
  BY <1>2 DEF AreValues
<1> QED BY <1>2, <1>3 DEF AreValues, cs
-----------------------------------------------------------------------------
\* What the functions write: the items each of them separates.
Encoded(list) == [j \in DOMAIN list |-> Value("json", list[j].n)]
Spread(v) == IF v.kind = "slice" /\ ~v.boxed THEN Values(v.elems) ELSE <<v>>
Spreads(list) == [j \in DOMAIN list |-> Spread(list[j])]
Shown(v, x) == IF v.kind = "map" \/ IsTrue(x) THEN <<x>> ELSE <<>>
ShownFields(v) == [j \in DOMAIN v.elems |-> Shown(v, v.elems[j].v)]
Columns(v) == IF v.kind = "string" THEN <<>> ELSE Concat(ShownFields(v))
AllColumns(list) == [j \in DOMAIN list |-> Columns(list[j])]
Separator(name) == IF name = "where" THEN "and" ELSE ","
ItemsOf(name, list) ==
  CASE name = "param" -> list
    [] name = "json" -> Encoded(list)
    [] name = "in" -> Concat(Spreads(list))
    [] name \in {"set", "where"} -> Concat(AllColumns(list))

LEMMA CallSeparates ==
  ASSUME NEW name \in Variadic, NEW list, Call(name, list).err = ""
  PROVE  Call(name, list).v = Separated(ItemsOf(name, list), Separator(name))
<1>1. CASE name = "param"
  BY <1>1 DEF Call, params, Ok, Failed, ItemsOf, Separator
<1>2. CASE name = "json"
  BY <1>2 DEF Call, marshal, Ok, Failed, ItemsOf, Separator, Encoded
<1>3. CASE name = "in"
  BY <1>3 DEF Call, inParameter, Ok, Failed, ItemsOf, Separator, Spreads, Spread
<1>4. CASE name = "set"
  BY <1>4 DEF Call, setParameter, Pairs, Ok, Failed, ItemsOf, Separator, AllColumns, Columns, ShownFields, Shown
<1>5. CASE name = "where"
  BY <1>5 DEF Call, whereParameter, Pairs, Ok, Failed, ItemsOf, Separator, AllColumns, Columns, ShownFields, Shown
<1> QED BY <1>1, <1>2, <1>3, <1>4, <1>5 DEF Variadic

LEMMA EncodedFacts ==
  ASSUME NEW list, AreValues(list)
  PROVE  AreValues(Encoded(list)) /\ \A j \in 1..Len(Encoded(list)) : Encoded(list)[j].kind = "json"
<1> DEFINE t == Encoded(list)
<1>1. IsSeq(list) /\ DOMAIN list = 1..Len(list)
  BY SeqFacts DEF AreValues
<1>2. t = [j \in DOMAIN list |-> Value("json", list[j].n)]
  BY DEF Encoded
<1> HIDE DEF t
<1>3. DOMAIN t = DOMAIN list /\ t = [j \in DOMAIN list |-> t[j]] /\ \A j \in DOMAIN list : t[j] = Value("json", list[j].n)
  BY <1>2
<1>4. IsSeq(t) /\ Len(t) = Len(list)
  BY <1>1, <1>3, Mapped
<1>5. \A j \in 1..Len(list) : IsValue(t[j]) /\ t[j].kind = "json"
  <2> TAKE j \in 1..Len(list)
  <2>1. list[j].n \in Int
    BY ValueParts DEF AreValues
  <2> QED BY <1>1, <1>3, <2>1, ValueFacts
<1> QED BY <1>4, <1>5 DEF AreValues, t

LEMMA SpreadsFacts ==
  ASSUME NEW list, AreValues(list)
  PROVE  /\ IsSeq(Spreads(list)) /\ Len(Spreads(list)) = Len(list)
         /\ \A j \in 1..Len(list) : Spreads(list)[j] = Spread(list[j]) /\ AreValues(Spread(list[j]))
<1> DEFINE t == Spreads(list)
<1>1. IsSeq(list) /\ DOMAIN list = 1..Len(list)
  BY SeqFacts DEF AreValues
<1>2. t = [j \in DOMAIN list |-> Spread(list[j])]
  BY DEF Spreads
<1> HIDE DEF t
<1>3. DOMAIN t = DOMAIN list /\ t = [j \in DOMAIN list |-> t[j]] /\ \A j \in DOMAIN list : t[j] = Spread(list[j])
  BY <1>2
<1>4. IsSeq(t) /\ Len(t) = Len(list)
  BY <1>1, <1>3, Mapped
<1>5. \A j \in 1..Len(list) : AreValues(Spread(list[j]))
  <2> TAKE j \in 1..Len(list)
  <2>1. IsValue(list[j])
    BY DEF AreValues
  <2> DEFINE v == list[j]
  <2> HIDE DEF v
  <2>2. AreValues(Spread(v))
    BY <2>1, ElementValues, OneValue DEF Spread, v
  <2> QED BY <2>2 DEF v
<1> QED BY <1>1, <1>3, <1>4, <1>5 DEF t

LEMMA ShownFacts ==
  ASSUME NEW v, NEW x, IsValue(x)
  PROVE  AreValues(Shown(v, x)) /\ \A k \in 1..Len(Shown(v, x)) : Shown(v, x)[k] = x
<1>1. CASE v.kind = "map" \/ IsTrue(x)
  <2>1. Shown(v, x) = <<x>>
    BY <1>1 DEF Shown
  <2> DEFINE s == <<x>>
  <2>2. AreValues(s) /\ Len(s) = 1 /\ s[1] = x /\ Shown(v, x) = s
    BY <2>1, OneValue
  <2> HIDE DEF s
  <2>3. \A k \in 1..Len(s) : s[k] = x
    BY <2>2
  <2> QED BY <2>2, <2>3
<1>2. CASE ~(v.kind = "map" \/ IsTrue(x))
  <2> DEFINE s == <<>>
  <2>1. Shown(v, x) = s /\ Len(s) = 0 /\ IsSeq(s)
    BY <1>2, MatchedEmpty DEF Shown
  <2> HIDE DEF s
  <2> QED BY <2>1 DEF AreValues
<1> QED BY <1>1, <1>2

LEMMA ShownFieldsFacts ==
  ASSUME NEW v, IsValue(v)
  PROVE  /\ IsSeq(ShownFields(v)) /\ Len(ShownFields(v)) = Len(v.elems)
         /\ \A j \in 1..Len(v.elems) : ShownFields(v)[j] = Shown(v, v.elems[j].v) /\ AreValues(ShownFields(v)[j])
<1> DEFINE t == ShownFields(v)
           es == v.elems
<1>1. IsSeq(es) /\ DOMAIN es = 1..Len(es) /\ \A j \in 1..Len(es) : IsValue(es[j].v)
  BY ValueParts, SeqIs
<1>2. t = [j \in DOMAIN es |-> Shown(v, es[j].v)]
  BY DEF ShownFields
<1> HIDE DEF t, es
<1>3. DOMAIN t = DOMAIN es /\ t = [j \in DOMAIN es |-> t[j]] /\ \A j \in DOMAIN es : t[j] = Shown(v, es[j].v)
  BY <1>2
<1>4. IsSeq(t) /\ Len(t) = Len(es)
  BY <1>1, <1>3, Mapped
<1>5. \A j \in 1..Len(es) : AreValues(t[j]) /\ t[j] = Shown(v, es[j].v)
  BY <1>1, <1>3, ShownFacts
<1> QED BY <1>4, <1>5 DEF t, es

\* An element that is shown is one of the value's.
LEMMA ColumnsFacts ==
  ASSUME NEW v, IsValue(v)
  PROVE  /\ AreValues(Columns(v))
         /\ \A i \in 1..Len(Columns(v)) : \E j \in 1..Len(v.elems) : Columns(v)[i] = v.elems[j].v
<1>1. CASE v.kind = "string"
  <2> DEFINE s == <<>>
  <2>1. Columns(v) = s /\ Len(s) = 0 /\ IsSeq(s)
    BY <1>1, MatchedEmpty DEF Columns
  <2> HIDE DEF s
  <2> QED BY <2>1 DEF AreValues
<1>2. CASE v.kind # "string"
  <2> DEFINE fs == ShownFields(v)
             cs == Concat(fs)
  <2>1. Columns(v) = cs
    BY <1>2 DEF Columns
  <2>2. IsSeq(fs) /\ Len(fs) = Len(v.elems) /\ \A j \in 1..Len(fs) : fs[j] = Shown(v, v.elems[j].v) /\ AreValues(fs[j])
    BY ShownFieldsFacts
  <2> HIDE DEF fs
  <2>3. \A j \in 1..Len(fs) : IsSeq(fs[j])
    BY <2>2 DEF AreValues
  <2>4. AreValues(cs) /\ \A i \in 1..Len(cs) : \E j \in 1..Len(fs) : \E k \in 1..Len(fs[j]) : cs[i] = fs[j][k]
    BY <2>2, <2>3, JoinedValues, ConcatFacts
  <2> HIDE DEF cs
  <2>5. \A j \in 1..Len(fs) : \A k \in 1..Len(fs[j]) : fs[j][k] = v.elems[j].v
    <3> TAKE j \in 1..Len(fs)
    <3>1. IsValue(v.elems[j].v) /\ fs[j] = Shown(v, v.elems[j].v)
      BY <2>2, ValueParts
    <3> QED BY <3>1, ShownFacts
  <2> QED BY <2>1, <2>2, <2>4, <2>5
<1> QED BY <1>1, <1>2

LEMMA AllColumnsFacts ==
  ASSUME NEW list, AreValues(list)
  PROVE  /\ IsSeq(AllColumns(list)) /\ Len(AllColumns(list)) = Len(list)
         /\ \A j \in 1..Len(list) : AllColumns(list)[j] = Columns(list[j]) /\ AreValues(Columns(list[j]))
<1> DEFINE t == AllColumns(list)
<1>1. IsSeq(list) /\ DOMAIN list = 1..Len(list)
  BY SeqFacts DEF AreValues
<1>2. t = [j \in DOMAIN list |-> Columns(list[j])]
  BY DEF AllColumns
<1> HIDE DEF t
<1>3. DOMAIN t = DOMAIN list /\ t = [j \in DOMAIN list |-> t[j]] /\ \A j \in DOMAIN list : t[j] = Columns(list[j])
  BY <1>2
<1>4. IsSeq(t) /\ Len(t) = Len(list)
  BY <1>1, <1>3, Mapped
<1>5. \A j \in 1..Len(list) : AreValues(Columns(list[j]))
  BY ColumnsFacts DEF AreValues
<1> QED BY <1>1, <1>3, <1>4, <1>5 DEF t

LEMMA ItemsOfFacts ==
  ASSUME NEW name \in Variadic, NEW list, AreValues(list)
  PROVE  AreValues(ItemsOf(name, list))
<1>1. CASE name = "param"
  BY <1>1 DEF ItemsOf
<1>2. CASE name = "json"
  BY <1>2, EncodedFacts DEF ItemsOf
<1>3. CASE name = "in"
  <2>1. AreValues(Concat(Spreads(list)))
    BY SpreadsFacts, JoinedValues
  <2> QED BY <1>3, <2>1 DEF ItemsOf
<1>4. CASE name \in {"set", "where"}
  <2>1. AreValues(Concat(AllColumns(list)))
    BY AllColumnsFacts, JoinedValues
  <2> QED BY <1>4, <2>1 DEF ItemsOf
<1> QED BY <1>1, <1>2, <1>3, <1>4 DEF Variadic
-----------------------------------------------------------------------------
\* Placeholders with one separator between any two.
LEMMA SomeLength ==
  ASSUME NEW s, IsSeq(s)
  PROVE  (s # <<>>) <=> Len(s) > 0
<1>1. Len(s) \in Nat /\ s = [i \in 1..Len(s) |-> s[i]] /\ DOMAIN s = 1..Len(s)
  BY SeqFacts
<1>2. ASSUME Len(s) = 0 PROVE s = <<>>
  <2>1. s \in Seq({})
    <3>1. \A i \in 1..Len(s) : s[i] \in {}
      BY <1>2
    <3> QED BY <3>1, SeqOf
  <2> QED BY <1>2, <2>1
<1>3. ASSUME s = <<>> PROVE Len(s) = 0
  BY <1>3
<1> QED BY <1>1, <1>2, <1>3

LEMMA Odd ==
  ASSUME NEW a \in Nat, NEW b \in Nat, a % 2 = 1
  PROVE  (a + 1 + b) % 2 = b % 2 /\ (a + 1) % 2 = 0
OBVIOUS

AlternatesTo(text, n) == n % 2 = 1 /\ \A k \in 1..n : (text[k].t = "?") = (k % 2 = 1)
LEMMA AlternatesIs ==
  ASSUME NEW text, IsSeq(text), Len(text) > 0
  PROVE  Alternates(text) <=> AlternatesTo(text, Len(text))
<1>1. DOMAIN text = 1..Len(text) /\ text # <<>>
  BY SeqFacts, SomeLength
<1> QED BY <1>1 DEF Alternates, AlternatesTo

LEMMA AlternatesOn ==
  ASSUME NEW a, IsSeq(a), Len(a) > 0, Alternates(a), NEW b, IsSeq(b), Len(b) > 0, Alternates(b), NEW tok, tok.t # "?"
  PROVE  LET u == Append(a, tok) \o b IN IsSeq(u) /\ Len(u) > 0 /\ Alternates(u)
<1> DEFINE n == Len(a)
           m == Len(b)
           c == Append(a, tok)
           u == c \o b
<1>1. n \in Nat /\ m \in Nat
  BY SeqFacts
<1>2. AlternatesTo(a, n) /\ AlternatesTo(b, m)
  BY AlternatesIs
<1>3. IsSeq(c) /\ Len(c) = n + 1 /\ c[n + 1] = tok /\ \A i \in 1..n : c[i] = a[i]
  BY Appended
<1> HIDE DEF c
<1>4. IsSeq(u) /\ Len(u) = Len(c) + m /\ (\A i \in 1..Len(c) : u[i] = c[i]) /\ \A i \in 1..m : u[Len(c) + i] = b[i]
  <2>1. IsSeq(c) /\ IsSeq(b)
    BY <1>3
  <2>2. /\ IsSeq(c \o b) /\ Len(c \o b) = Len(c) + Len(b)
        /\ \A i \in 1..Len(c) : (c \o b)[i] = c[i]
        /\ \A i \in 1..Len(b) : (c \o b)[Len(c) + i] = b[i]
    BY ONLY <2>1, Concatenated
  <2> QED BY ONLY <2>2
<1>5. n > 0 /\ m > 0
  OBVIOUS
<1> HIDE DEF u, n, m
<1>6. Len(u) = n + 1 + m /\ (\A i \in 1..n : u[i] = a[i]) /\ u[n + 1] = tok /\ \A i \in 1..m : u[n + 1 + i] = b[i]
  <2>1. \A i \in 1..n : i \in 1..n + 1
    BY <1>1
  <2>2. n + 1 \in 1..n + 1
    BY <1>1
  <2> QED BY <1>3, <1>4, <2>1, <2>2
<1>7. n % 2 = 1 /\ (n + 1 + m) % 2 = 1 /\ (n + 1) % 2 = 0 /\ \A i \in 1..m : (n + 1 + i) % 2 = i % 2
  BY <1>1, <1>2, Odd DEF AlternatesTo
<1>8. ASSUME NEW k \in 1..n + 1 + m PROVE (u[k].t = "?") = (k % 2 = 1)
  <2>1. CASE k \in 1..n
    BY <1>2, <1>6, <2>1 DEF AlternatesTo
  <2>2. CASE k = n + 1
    BY <1>6, <1>7, <2>2
  <2>3. CASE k \notin 1..n + 1
    <3> DEFINE i == k - (n + 1)
    <3>1. i \in 1..m /\ k = n + 1 + i
      BY <1>1, <2>3
    <3> HIDE DEF i
    <3>2. (b[i].t = "?") = (i % 2 = 1)
      BY <1>2, <3>1 DEF AlternatesTo
    <3>3. u[k] = b[i] /\ k % 2 = i % 2
      BY <1>6, <1>7, <3>1
    <3> QED BY <3>2, <3>3
  <2> QED BY <1>1, <2>1, <2>2, <2>3
<1>9. AlternatesTo(u, Len(u)) /\ Len(u) > 0
  BY <1>1, <1>5, <1>6, <1>7, <1>8 DEF AlternatesTo
<1> QED BY <1>4, <1>9, AlternatesIs DEF u, c

LEMMA ItemText ==
  ASSUME NEW v, IsValue(v), Item(v)
  PROVE  IsSeq(TextOf(v)) /\ Len(TextOf(v)) > 0 /\ Alternates(TextOf(v))
<1>1. CASE v.kind = "write"
  <2>1. TextOf(v) = v.text /\ v.text # <<>> /\ Alternates(v.text) /\ IsSeq(v.text)
    BY <1>1, ValueParts DEF TextOf, Item
  <2> QED BY <2>1, SomeLength
<1>2. CASE v.kind # "write"
  <2> DEFINE tok == Mark(indirectInterface(v))
             s == <<tok>>
  <2>1. TextOf(v) = s /\ tok.t = "?"
    BY <1>2 DEF TextOf, Mark
  <2> HIDE DEF tok
  <2>2. IsSeq(s) /\ Len(s) = 1 /\ s[1] = tok
    BY OneValue
  <2> HIDE DEF s
  <2>3. AlternatesTo(s, Len(s))
    <3>1. 1 % 2 = 1
      OBVIOUS
    <3>2. \A k \in 1..1 : k = 1
      OBVIOUS
    <3> QED BY <2>1, <2>2, <3>1, <3>2 DEF AlternatesTo
  <2>4. Len(s) > 0
    BY <2>2
  <2> QED BY <2>1, <2>2, <2>3, <2>4, AlternatesIs
<1> QED BY <1>1, <1>2

\* Items that are not nil, and no fragments that are empty or odd, are separated by one
\* separator each, however many they are.
THEOREM OneSeparatorEach ==
  ASSUME NEW items, AreValues(items), \A j \in 1..Len(items) : Item(items[j]), NEW sep, sep # "?"
  PROVE  Alternates(Separated(items, sep).text)
<1>1. IsSeq(items) /\ Len(items) \in Nat
  BY SeqFacts DEF AreValues
<1>2. PICK w : /\ Separated(items, sep) = w[Len(items)] /\ w[0] = Empty
               /\ \A j \in 1..Len(items) : w[j] = NextItem1(w[j - 1], j, items, sep)
  BY <1>1, SeparatedIs
<1> DEFINE Holds1(j) == IsValue(w[j]) /\ Alternates(w[j].text) /\ (j > 0 => Len(w[j].text) > 0)
           S == {j \in 0..Len(items) : ~Holds1(j)}
<1>3. SUFFICES ASSUME S # {} PROVE FALSE
  <2>1. Len(items) \in 0..Len(items)
    BY <1>1
  <2> QED BY <1>2, <1>3, <2>1
<1>4. PICK j \in S : \A y \in S : j <= y
  <2> HIDE DEF S
  <2>1. S \subseteq Nat
    BY <1>1 DEF S
  <2> QED BY <1>3, <2>1, LeastNat
<1>5. Holds1(0)
  BY <1>2, EmptyFacts DEF Alternates
<1>6. j \in 0..Len(items) /\ ~Holds1(j)
  BY <1>4
<1>7. j # 0
  <2> HIDE DEF Holds1, S
  <2> QED BY <1>5, <1>6
<1>8. j \in 1..Len(items) /\ j - 1 \in 0..Len(items) /\ j - 1 \notin S
  BY <1>1, <1>4, <1>6, <1>7
<1>9. Holds1(j - 1)
  BY <1>8
<1> DEFINE p == w[j - 1]
           x == items[j]
           q == IF j > 1 THEN WriteString(p, Text(sep)) ELSE p
           b == TextOf(x)
           u == w[j]
<1>10. IsValue(x) /\ Item(x) /\ u = WriteParam(q, x)
  BY <1>2, <1>8 DEF AreValues, NextItem1
<1>11. IsValue(p) /\ Alternates(p.text) /\ (j > 1 => Len(p.text) > 0)
  BY <1>8, <1>9
<1>12. IsSeq(b) /\ Len(b) > 0 /\ Alternates(b) /\ x.kind # "invalid"
  BY <1>10, ItemText DEF Item
<1> HIDE DEF Holds1, S
<1>13. CASE j = 1
  <2> HIDE DEF x, b, u
  <2>1. q = Empty
    BY <1>2, <1>13
  <2>2. IsValue(u) /\ u.text = <<>> \o TextOf(x)
    BY <1>10, <1>12, <2>1, EmptyFacts, WriteParamFacts
  <2>3. <<>> \o TextOf(x) = b
    <3>1. b \in Seq({b[i] : i \in DOMAIN b})
      BY <1>12 DEF IsSeq
    <3> DEFINE T == {b[i] : i \in DOMAIN b}
    <3> HIDE DEF T
    <3>2. <<>> \o b = b
      BY <3>1 DEF T
    <3> QED BY <3>2 DEF b
  <2>4. IsValue(u) /\ u.text = b
    BY <2>2, <2>3
  <2>5. Holds1(j)
    BY <1>12, <2>4 DEF Holds1, u
  <2> QED BY <1>6, <2>5
<1>14. CASE j # 1
  <2>1. j > 1
    BY <1>8, <1>14
  <2> DEFINE tok == Text(sep)
  <2>2. tok.t # "?"
    BY DEF Text
  <2> HIDE DEF tok, p, x, b, u
  <2>3. q = WriteString(p, tok)
    BY <2>1 DEF tok
  <2> HIDE DEF q
  <2>4. IsValue(q) /\ q.text = Append(p.text, tok)
    BY <1>11, <2>2, <2>3, WriteStringFacts
  <2>5. IsValue(u) /\ u.text = q.text \o b
    BY <1>10, <1>12, <2>4, WriteParamFacts DEF b
  <2>6. IsSeq(p.text) /\ Len(p.text) > 0
    BY <1>11, <2>1, ValueParts
  <2> DEFINE t == Append(p.text, tok) \o b
  <2>7. Len(t) > 0 /\ Alternates(t)
    BY <1>11, <1>12, <2>2, <2>6, AlternatesOn
  <2>8. u.text = t
    BY <2>4, <2>5
  <2> HIDE DEF t
  <2>9. Holds1(j)
    BY <2>5, <2>7, <2>8 DEF Holds1, u
  <2> QED BY <1>6, <2>9
<1> QED BY <1>13, <1>14

\* What a function separates are the values it is given, or elements of them.
LEMMA ItemsOfItems ==
  ASSUME NEW name \in Variadic, NEW list, AreValues(list),
         \A j \in 1..Len(list) : Item(list[j]) /\ \A k \in DOMAIN list[j].elems : Item(list[j].elems[k].v)
  PROVE  \A j \in 1..Len(ItemsOf(name, list)) : Item(ItemsOf(name, list)[j])
<1>1. CASE name = "param"
  BY <1>1 DEF ItemsOf
<1>2. CASE name = "json"
  <2>1. \A j \in 1..Len(Encoded(list)) : Item(Encoded(list)[j])
    BY EncodedFacts DEF Item
  <2> QED BY <1>2, <2>1 DEF ItemsOf
<1>3. CASE name = "in"
  <2> DEFINE ss == Spreads(list)
             cs == Concat(ss)
  <2>1. /\ IsSeq(ss) /\ Len(ss) = Len(list)
        /\ \A j \in 1..Len(list) : ss[j] = Spread(list[j]) /\ AreValues(Spread(list[j]))
    BY SpreadsFacts
  <2> HIDE DEF ss
  <2>2. \A j \in 1..Len(ss) : IsSeq(ss[j])
    BY <2>1 DEF AreValues
  <2>3. \A i \in 1..Len(cs) : \E j \in 1..Len(ss) : \E k \in 1..Len(ss[j]) : cs[i] = ss[j][k]
    BY <2>1, <2>2, ConcatFacts
  <2> HIDE DEF cs
  <2>4. \A j \in 1..Len(list) : \A k \in 1..Len(ss[j]) : Item(ss[j][k])
    <3> TAKE j \in 1..Len(list)
    <3> DEFINE v == list[j]
    <3>1. IsValue(v) /\ Item(v) /\ ss[j] = Spread(v) /\ \A k \in DOMAIN v.elems : Item(v.elems[k].v)
      BY <2>1 DEF AreValues
    <3> HIDE DEF v
    <3>2. CASE v.kind = "slice" /\ ~v.boxed
      <4>1. ss[j] = Values(v.elems)
        BY <3>1, <3>2 DEF Spread
      <4> DEFINE t == Values(v.elems)
      <4>2. Len(Values(v.elems)) = Len(v.elems) /\ DOMAIN v.elems = 1..Len(v.elems)
            /\ \A k \in 1..Len(v.elems) : Values(v.elems)[k] = v.elems[k].v
        BY <3>1, ElementValues, ValueParts
      <4>3. ss[j] = t /\ \A k \in 1..Len(t) : k \in DOMAIN v.elems /\ t[k] = v.elems[k].v
        BY <4>1, <4>2
      <4> HIDE DEF t
      <4> QED BY <3>1, <4>3
    <3>3. CASE ~(v.kind = "slice" /\ ~v.boxed)
      <4> DEFINE s == <<v>>
      <4>1. ss[j] = s /\ Len(s) = 1 /\ s[1] = v
        BY <3>1, <3>3, OneValue DEF Spread
      <4> HIDE DEF s
      <4>2. \A k \in 1..Len(s) : s[k] = v
        BY <4>1
      <4> QED BY <3>1, <4>1, <4>2
    <3>4. \A k \in 1..Len(ss[j]) : Item(ss[j][k])
      BY <3>2, <3>3
    <3> QED BY <3>4
  <2>5. \A i \in 1..Len(cs) : Item(cs[i])
    BY <2>1, <2>3, <2>4
  <2> QED BY <1>3, <2>5 DEF ItemsOf, cs, ss
<1>4. CASE name \in {"set", "where"}
  <2> DEFINE ss == AllColumns(list)
             cs == Concat(ss)
  <2>1. /\ IsSeq(ss) /\ Len(ss) = Len(list)
        /\ \A j \in 1..Len(list) : ss[j] = Columns(list[j]) /\ AreValues(Columns(list[j]))
    BY AllColumnsFacts
  <2> HIDE DEF ss
  <2>2. \A j \in 1..Len(ss) : IsSeq(ss[j])
    BY <2>1 DEF AreValues
  <2>3. \A i \in 1..Len(cs) : \E j \in 1..Len(ss) : \E k \in 1..Len(ss[j]) : cs[i] = ss[j][k]
    BY <2>1, <2>2, ConcatFacts
  <2> HIDE DEF cs
  <2>4. \A j \in 1..Len(list) : \A k \in 1..Len(ss[j]) : Item(ss[j][k])
    <3> TAKE j \in 1..Len(list)
    <3> DEFINE v == list[j]
    <3>1. IsValue(v) /\ ss[j] = Columns(v) /\ DOMAIN v.elems = 1..Len(v.elems) /\ \A k \in DOMAIN v.elems : Item(v.elems[k].v)
      BY <2>1, ValueParts DEF AreValues
    <3> HIDE DEF v
    <3>2. \A i \in 1..Len(Columns(v)) : \E k \in 1..Len(v.elems) : Columns(v)[i] = v.elems[k].v
      BY <3>1, ColumnsFacts
    <3>3. \A i \in 1..Len(ss[j]) : Item(ss[j][i])
      BY ONLY <3>1, <3>2
    <3> QED BY <3>3
  <2>5. \A i \in 1..Len(cs) : Item(cs[i])
    BY <2>1, <2>3, <2>4
  <2> QED BY <1>4, <2>5 DEF ItemsOf, cs, ss
<1> QED BY <1>1, <1>2, <1>3, <1>4 DEF Variadic

LEMMA SeparatorText ==
  ASSUME NEW name
  PROVE  Separator(name) # "?"
BY DEF Separator

LEMMA CallAlternates ==
  ASSUME NEW name \in Variadic, NEW list, AreValues(list), Call(name, list).err = "",
         \A j \in 1..Len(list) : Item(list[j]) /\ \A k \in DOMAIN list[j].elems : Item(list[j].elems[k].v)
  PROVE  Alternates(Call(name, list).v.text)
<1>1. AreValues(ItemsOf(name, list)) /\ \A j \in 1..Len(ItemsOf(name, list)) : Item(ItemsOf(name, list)[j])
  BY ItemsOfFacts, ItemsOfItems
<1> DEFINE items == ItemsOf(name, list)
           sep == Separator(name)
<1>2. AreValues(items) /\ (\A j \in 1..Len(items) : Item(items[j])) /\ sep # "?"
  BY <1>1, SeparatorText
<1> HIDE DEF items, sep
<1>3. Alternates(Separated(items, sep).text)
  BY <1>2, OneSeparatorEach
<1> QED BY <1>3, CallSeparates DEF items, sep
-----------------------------------------------------------------------------
\* What the functions and the fields give are values.
LEMMA OkFacts ==
  ASSUME NEW v
  PROVE  Ok(v).v = v /\ Ok(v).err = "" /\ Failed.err # ""
BY DEF Ok, Failed

LEMMA InvalidFacts == IsValue(Invalid) /\ IsValue(Boxed(Invalid)) /\ IsValue(Missing) /\ IsValue(NilWrite)
<1>1. IsValue(Invalid) /\ IsValue(Missing) /\ IsValue(NilWrite)
  BY ValueFacts DEF Invalid, Missing, NilWrite
<1>2. IsValue(Boxed(Invalid))
  <2> DEFINE v == Invalid
             b == TRUE
  <2>1. IsValue(v) /\ b \in BOOLEAN
    BY <1>1
  <2> HIDE DEF v, b
  <2>2. IsValue([v EXCEPT !.boxed = b])
    BY <2>1, BoxedFacts
  <2> QED BY <2>2 DEF Boxed, v, b
<1> QED BY <1>1, <1>2

LEMMA VariadicValue ==
  ASSUME NEW name \in Variadic, NEW list, AreValues(list), Call(name, list).err = ""
  PROVE  IsValue(Call(name, list).v)
<1> DEFINE items == ItemsOf(name, list)
           sep == Separator(name)
<1>1. AreValues(items) /\ sep # "?"
  BY ItemsOfFacts, SeparatorText
<1> HIDE DEF items, sep
<1>2. IsValue(Separated(items, sep))
  BY <1>1, SeparatedFacts
<1> QED BY <1>2, CallSeparates DEF items, sep

LEMMA Bits == 0 \in Int /\ 1 \in Int
OBVIOUS

LEMMA CallValue ==
  ASSUME NEW name \in Functions_ \ {"and", "or"}, NEW list, AreValues(list), name \notin Variadic => Len(list) > 0,
         Call(name, list).err = ""
  PROVE  IsValue(Call(name, list).v)
<1>1. CASE name \in Variadic
  BY <1>1, VariadicValue
<1>2. ASSUME name \notin Variadic PROVE IsValue(list[1])
  <2>1. Len(list) \in Nat
    BY SeqFacts DEF AreValues
  <2>3. Len(list) > 0
    BY <1>2
  <2>2. 1 \in 1..Len(list)
    BY ONLY <2>1, <2>3
  <2> QED BY <2>2 DEF AreValues
<1> DEFINE v == list[1]
<1> HIDE DEF v
<1>3. CASE name = "like"
  <2>1. IsValue(v) /\ v.n \in Int
    BY <1>2, <1>3, ValueParts DEF Variadic, v
  <2> DEFINE x == Value("pattern", v.n)
  <2>2. IsValue(x) /\ IsValue(Empty)
    BY <2>1, ValueFacts, EmptyFacts
  <2>3. Call(name, list) = Ok(WriteParam(Empty, x))
    BY <1>3 DEF Call, like, v
  <2> DEFINE u == WriteParam(Empty, x)
  <2> HIDE DEF x
  <2>4. IsValue(u)
    BY <2>2, WriteParamFacts
  <2> HIDE DEF u
  <2>5. Call(name, list).v = u
    BY <2>3, OkFacts DEF u
  <2> QED BY <2>4, <2>5
<1>4. CASE name = "comma"
  <2>1. Call(name, list) = comma(v)
    BY <1>4 DEF Call, v
  <2> DEFINE tok == Text(",")
             u == WriteString(Empty, tok)
  <2>2. tok.t # "?"
    BY DEF Text
  <2> HIDE DEF tok
  <2>3. IsValue(u) /\ IsValue(Empty) /\ IsValue(NilWrite)
    BY <2>2, EmptyFacts, WriteStringFacts, InvalidFacts
  <2>4. comma(v).err = "" => comma(v).v \in {u, Empty, NilWrite}
    <3> HIDE DEF u
    <3>1. comma(v) \in {Failed, Ok(NilWrite), Ok(Empty), Ok(u)}
      BY DEF comma, tok, u
    <3> QED BY <3>1, OkFacts
  <2> HIDE DEF u
  <2> QED BY <2>1, <2>3, <2>4
<1>5. CASE name = "not"
  <2> DEFINE n == IF IsTrue(v) THEN 0 ELSE 1
             u == Value("bool", n)
  <2>1. 0 \in Int /\ 1 \in Int
    BY Bits
  <2>8. n \in Int
    <3>1. CASE IsTrue(v)
      BY <2>1, <3>1, Zenon
    <3>2. CASE ~IsTrue(v)
      BY <2>1, <3>2, Zenon
    <3> QED BY <3>1, <3>2
  <2>2. Call(name, list) = Ok(u)
    <3>1. Call(name, list) = not(v)
      BY <1>5 DEF Call, v
    <3>2. not(v) = Ok(u)
      BY DEF not
    <3> QED BY <3>1, <3>2
  <2> HIDE DEF n
  <2>4. IsValue(u)
    BY <2>8, ValueFacts
  <2> HIDE DEF u
  <2>5. Call(name, list).v = u
    BY <2>2, OkFacts
  <2> QED BY <2>4, <2>5
<1> QED BY <1>1, <1>3, <1>4, <1>5 DEF Functions_

LEMMA FieldValue ==
  ASSUME NEW name, NEW hasArgs, NEW receiver, IsValue(receiver), evalField(name, hasArgs, receiver).err = ""
  PROVE  IsValue(evalField(name, hasArgs, receiver).v)
<1> DEFINE r == evalField(name, hasArgs, receiver)
           es == receiver.elems
           Elem1(n) == es[CHOOSE j \in Named(es, n) : TRUE].v
<1>1. ASSUME NEW n, Named(es, n) # {} PROVE IsValue(Elem1(n))
  <2> DEFINE j == CHOOSE j \in Named(es, n) : TRUE
  <2>1. j \in Named(es, n)
    BY <1>1
  <2> HIDE DEF j
  <2>2. j \in DOMAIN es
    BY <2>1 DEF Named
  <2>3. IsValue(es[j].v)
    BY <2>2, ValueParts
  <2> QED BY <2>3 DEF j
<1>2. \/ r.v = Invalid
      \/ r.v = Boxed(Invalid)
      \/ r.err # ""
      \/ Named(es, FieldName(name)) # {} /\ r = Ok(Elem1(FieldName(name)))
      \/ Named(es, name) # {} /\ r = Ok(Elem1(name))
  <2>1. CASE receiver.kind = "invalid" /\ ~receiver.boxed
    BY <2>1 DEF evalField
  <2>2. CASE ~(receiver.kind = "invalid" /\ ~receiver.boxed)
    <3>1. CASE receiver.kind = "struct" /\ ~hasArgs /\ Named(es, FieldName(name)) # {}
      BY <2>2, <3>1 DEF evalField
    <3>2. CASE receiver.kind = "map" /\ ~hasArgs
      <4>1. CASE Named(es, name) # {}
        BY <3>2, <4>1 DEF evalField
      <4>2. CASE Named(es, name) = {} /\ Named(es, FieldName(name)) # {}
        BY <3>2, <4>2 DEF evalField
      <4>3. CASE Named(es, name) = {} /\ Named(es, FieldName(name)) = {}
        BY <3>2, <4>3 DEF evalField
      <4> QED BY <4>1, <4>2, <4>3
    <3>3. CASE /\ ~(receiver.kind = "struct" /\ ~hasArgs /\ Named(es, FieldName(name)) # {})
               /\ ~(receiver.kind = "map" /\ ~hasArgs)
      BY <2>2, <3>3 DEF evalField
    <3> QED BY <3>1, <3>2, <3>3
  <2> QED BY <2>1, <2>2
<1>3. ASSUME NEW n, Named(es, n) # {}, r = Ok(Elem1(n)) PROVE IsValue(r.v)
  <2>1. IsValue(Elem1(n))
    BY <1>1, <1>3
  <2> DEFINE x == Elem1(n)
  <2>2. r = Ok(x) /\ IsValue(x)
    BY <1>3, <2>1
  <2> HIDE DEF x, r
  <2> QED BY <2>2, OkFacts
<1>4. r.err = ""
  OBVIOUS
<1> HIDE DEF r, Elem1
<1>5. IsValue(r.v)
  <2>1. CASE r.v = Invalid
    BY <2>1, InvalidFacts
  <2>2. CASE r.v = Boxed(Invalid)
    BY <2>2, InvalidFacts
  <2>3. CASE Named(es, FieldName(name)) # {} /\ r = Ok(Elem1(FieldName(name)))
    BY <1>3, <2>3
  <2>4. CASE Named(es, name) # {} /\ r = Ok(Elem1(name))
    BY <1>3, <2>4
  <2> QED BY <1>2, <1>4, <2>1, <2>2, <2>3, <2>4
<1> QED BY <1>5 DEF r
-----------------------------------------------------------------------------
\* The elements by rank: the i-th is the one that has i - 1 others before it.
Before(es, j) == {k \in DOMAIN es : es[k].rank < es[j].rank}
LEMMA RankFacts ==
  ASSUME NEW es, IsSeq(es), Distinct(es), \A j \in DOMAIN es : es[j].rank \in Int
  PROVE  /\ \A j \in DOMAIN es : Cardinality(Before(es, j)) \in 0..Len(es) - 1
         /\ \A i, j \in DOMAIN es : Cardinality(Before(es, i)) = Cardinality(Before(es, j)) => i = j
<1> DEFINE n == Len(es)
<1>1. n \in Nat /\ DOMAIN es = 1..n
  BY SeqFacts
<1>2. IsFiniteSet(1..n) /\ Cardinality(1..n) = n
  BY <1>1, FS_Interval
<1>3. \A j \in 1..n : IsFiniteSet(Before(es, j)) /\ Before(es, j) \subseteq 1..n /\ j \notin Before(es, j)
  <2> TAKE j \in 1..n
  <2>1. Before(es, j) \subseteq 1..n /\ j \notin Before(es, j)
    BY <1>1 DEF Before
  <2> QED BY <1>2, <2>1, FS_Subset
<1>4. ASSUME NEW i \in 1..n, NEW j \in 1..n, es[i].rank < es[j].rank
      PROVE  Cardinality(Before(es, i)) < Cardinality(Before(es, j))
  <2>1. Before(es, i) \subseteq Before(es, j) \ {i} /\ i \in Before(es, j)
    BY <1>1, <1>4 DEF Before
  <2>2. IsFiniteSet(Before(es, j)) /\ IsFiniteSet(Before(es, j) \ {i})
        /\ Cardinality(Before(es, j) \ {i}) = Cardinality(Before(es, j)) - 1
    BY <1>3, <2>1, FS_RemoveElement
  <2>3. Cardinality(Before(es, i)) <= Cardinality(Before(es, j) \ {i})
    BY <2>1, <2>2, FS_Subset
  <2>4. Cardinality(Before(es, i)) \in Nat /\ Cardinality(Before(es, j)) \in Nat
    BY <1>3, FS_CardinalityType
  <2> QED BY <2>2, <2>3, <2>4
<1>5. \A j \in 1..n : Cardinality(Before(es, j)) \in 0..n - 1
  <2> TAKE j \in 1..n
  <2>1. Before(es, j) \subseteq (1..n) \ {j}
    BY <1>3
  <2>2. IsFiniteSet((1..n) \ {j}) /\ Cardinality((1..n) \ {j}) = n - 1
    BY <1>2, FS_RemoveElement
  <2>3. Cardinality(Before(es, j)) <= n - 1
    BY <2>1, <2>2, FS_Subset
  <2>4. Cardinality(Before(es, j)) \in Nat
    BY <1>3, FS_CardinalityType
  <2> QED BY <1>1, <2>3, <2>4
<1>6. ASSUME NEW i \in 1..n, NEW j \in 1..n, Cardinality(Before(es, i)) = Cardinality(Before(es, j)) PROVE i = j
  <2>1. es[i].rank \in Int /\ es[j].rank \in Int
    BY <1>1
  <2>2. Cardinality(Before(es, i)) \in Int
    BY <1>5
  <2>3. ~(es[i].rank < es[j].rank) /\ ~(es[j].rank < es[i].rank)
    BY <1>4, <1>6, <2>2
  <2>4. es[i].rank = es[j].rank
    BY <2>1, <2>3
  <2> QED BY <1>1, <2>4 DEF Distinct
<1> QED BY <1>1, <1>5, <1>6

LEMMA SortedFacts ==
  ASSUME NEW es, IsSeq(es), Distinct(es), \A j \in DOMAIN es : es[j].rank \in Int
  PROVE  \A i \in DOMAIN es : \E j \in DOMAIN es : Sorted(es)[i] = es[j]
<1> DEFINE n == Len(es)
           f == [j \in 1..n |-> Cardinality(Before(es, j)) + 1]
<1>1. n \in Nat /\ DOMAIN es = 1..n /\ IsFiniteSet(1..n)
  BY SeqFacts, FS_Interval
<1>2. \A j \in 1..n : f[j] = Cardinality(Before(es, j)) + 1 /\ f[j] - 1 = Cardinality(Before(es, j)) /\ f[j] \in 1..n
  <2> TAKE j \in 1..n
  <2>1. Cardinality(Before(es, j)) \in 0..n - 1
    BY <1>1, RankFacts
  <2> QED BY <1>1, <2>1
<1>3. f \in [1..n -> 1..n]
  BY <1>2
<1>4. \A i, j \in 1..n : f[i] = f[j] => i = j
  <2> SUFFICES ASSUME NEW i \in 1..n, NEW j \in 1..n, f[i] = f[j] PROVE i = j
    OBVIOUS
  <2>1. Cardinality(Before(es, i)) = Cardinality(Before(es, j))
    BY <1>2
  <2> QED BY <1>1, <2>1, RankFacts
<1> HIDE DEF f, n
<1>5. f \in Injection(1..n, 1..n)
  BY <1>3, <1>4 DEF Injection, IsInjective
<1>6. f \in Surjection(1..n, 1..n)
  BY <1>1, <1>5, FS_Injection
<1>7. ASSUME NEW i \in 1..n PROVE \E j \in 1..n : Sorted(es)[i] = es[j]
  <2>1. PICK j \in 1..n : f[j] = i
    BY <1>6 DEF Surjection
  <2>2. Cardinality(Before(es, j)) = i - 1
    BY <1>2, <2>1
  <2> DEFINE Chosen(e) == Cardinality({k \in DOMAIN es : es[k].rank < e.rank}) = i - 1
             all == {es[k] : k \in DOMAIN es}
  <2>3. es[j] \in all /\ Chosen(es[j])
    BY <1>1, <2>2 DEF Before
  <2>4. Sorted(es)[i] = CHOOSE e \in all : Chosen(e)
    BY <1>1 DEF Sorted
  <2>5. (CHOOSE e \in all : Chosen(e)) \in all
    <3> HIDE DEF all, Chosen
    <3> QED BY <2>3
  <2> QED BY <1>1, <2>4, <2>5
<1> QED BY <1>1, <1>7

\* What a range goes through are values.
ArePairs(items) == IsSeq(items) /\ \A i \in 1..Len(items) : IsValue(items[i].index) /\ IsValue(items[i].elem)
LEMMA PairFacts ==
  ASSUME NEW x, NEW y
  PROVE  Pair(x, y).index = x /\ Pair(x, y).elem = y
BY DEF Pair

LEMMA ItemsValues ==
  ASSUME NEW v, IsValue(v), NEW n, CanRange(v, n)
  PROVE  ArePairs(Items(v))
<1> DEFINE t == Items(v)
           es == v.elems
<1>1. /\ IsSeq(es) /\ Len(es) \in Nat /\ DOMAIN es = 1..Len(es) /\ Distinct(es) /\ v.n \in Int
      /\ \A j \in DOMAIN es : IsValue(es[j].v) /\ es[j].rank \in Int
  BY ValueParts, SeqIs DEF IsValue
<1> HIDE DEF es
<1>2. CASE v.kind = "int"
  <2>1. t = [i \in 1..v.n |-> Pair(Invalid, Int_(i - 1))]
    BY <1>2 DEF Items
  <2>2. PICK m \in Nat : 1..m = 1..v.n
    <3>1. CASE v.n \in Nat
      BY <3>1
    <3>2. CASE v.n \notin Nat
      <4>1. 1..0 = 1..v.n /\ 0 \in Nat
        BY <1>1, <3>2
      <4> QED BY <4>1
    <3> QED BY <3>1, <3>2
  <2> HIDE DEF t
  <2>3. t = [i \in 1..m |-> t[i]] /\ \A i \in 1..m : t[i] = Pair(Invalid, Int_(i - 1))
    BY <2>1, <2>2
  <2>4. IsSeq(t) /\ Len(t) = m
    BY <2>3, Sequence
  <2>5. \A i \in 1..m : IsValue(t[i].index) /\ IsValue(t[i].elem)
    <3> TAKE i \in 1..m
    <3>1. t[i].index = Invalid /\ t[i].elem = Value("int", i - 1) /\ i - 1 \in Int
      BY <2>3, PairFacts DEF Int_
    <3> QED BY <3>1, InvalidFacts, ValueFacts
  <2> QED BY <2>4, <2>5 DEF ArePairs, t
<1>3. CASE v.kind = "map"
  <2>1. t = [i \in DOMAIN es |-> Pair(String_(Sorted(es)[i].rank), Sorted(es)[i].v)]
    BY <1>3 DEF Items, es
  <2> HIDE DEF t
  <2>2. DOMAIN t = DOMAIN es /\ t = [i \in DOMAIN es |-> t[i]]
        /\ \A i \in DOMAIN es : t[i] = Pair(String_(Sorted(es)[i].rank), Sorted(es)[i].v)
    BY <2>1
  <2>3. IsSeq(t) /\ Len(t) = Len(es)
    BY <1>1, <2>2, Mapped
  <2>4. \A i \in DOMAIN es : IsValue(t[i].index) /\ IsValue(t[i].elem)
    <3> TAKE i \in DOMAIN es
    <3>1. PICK j \in DOMAIN es : Sorted(es)[i] = es[j]
      BY <1>1, SortedFacts
    <3>2. t[i].index = Value("string", es[j].rank) /\ t[i].elem = es[j].v
      BY <2>2, <3>1, PairFacts DEF String_
    <3> QED BY <1>1, <3>2, ValueFacts
  <2> QED BY <1>1, <2>3, <2>4 DEF ArePairs, t
<1>4. CASE v.kind \notin {"int", "map"}
  <2>1. t = [i \in DOMAIN es |-> Pair(Int_(i - 1), es[i].v)]
    BY <1>4 DEF Items, es
  <2> HIDE DEF t
  <2>2. DOMAIN t = DOMAIN es /\ t = [i \in DOMAIN es |-> t[i]]
        /\ \A i \in DOMAIN es : t[i] = Pair(Int_(i - 1), es[i].v)
    BY <2>1
  <2>3. IsSeq(t) /\ Len(t) = Len(es)
    BY <1>1, <2>2, Mapped
  <2>4. \A i \in DOMAIN es : IsValue(t[i].index) /\ IsValue(t[i].elem)
    <3> TAKE i \in DOMAIN es
    <3>1. t[i].index = Value("int", i - 1) /\ t[i].elem = es[i].v /\ i - 1 \in Int
      BY <1>1, <2>2, PairFacts DEF Int_
    <3> QED BY <1>1, <3>1, ValueFacts
  <2> QED BY <1>1, <2>3, <2>4 DEF ArePairs, t
<1> QED BY <1>2, <1>3, <1>4
-----------------------------------------------------------------------------
\* What a walk carries: values in every frame and every variable.
Carried(f) ==
  /\ IsValue(f.dot) /\ IsValue(f.value) /\ AreValues(f.list) /\ ArePairs(f.items)
  /\ f.op = "call" => f.name \in Functions_
\* A call that needs an argument has one, or has one left to evaluate.
Ready(f) == f.op = "call" /\ f.name \notin Variadic => f.list # <<>> \/ f.args # <<>> \/ f.value # Missing
Stack(fs) == IsSeq(fs) /\ \A i \in 1..Len(fs) : Carried(fs[i])
AllValues(vs) == \A i \in DOMAIN vs : IsValue(vs[i].v)
VarsCarried(sts) == \A e \in DOMAIN sts : AllValues(sts[e])
Bearing == IsValue(out) /\ AreValues(out.args) /\ Stack(frames) /\ Ready(Last(frames)) /\ VarsCarried(states)
DataInv == IsValue(out) /\ AreValues(out.args) /\ (status = "running" => Bearing)

LEMMA NoValues == AreValues(<<>>) /\ ArePairs(<<>>)
<1>1. IsSeq(<<>>) /\ Len(<<>>) = 0
  BY EmptyFields
<1>2. \A i \in 1..Len(<<>>) : FALSE
  BY <1>1
<1> QED BY <1>1, <1>2 DEF AreValues, ArePairs

SameData(f, g) == g.dot = f.dot /\ g.value = f.value /\ g.list = f.list /\ g.items = f.items /\ g.name = f.name
LEMMA SameCarried ==
  ASSUME NEW f, NEW g, Carried(f), SameData(f, g), g.op # "call" \/ g.op = f.op
  PROVE  Carried(g)
BY DEF Carried, SameData

LEMMA NotReady ==
  ASSUME NEW f, f.op # "call"
  PROVE  Ready(f)
BY DEF Ready

LEMMA StartedData ==
  ASSUME NEW f, IsRecord(f), NEW op, NEW m
  PROVE  SameData(f, Started(f, op, m)) /\ Started(f, op, m).op = op
<1> DEFINE g == Started(f, op, m)
<1>1. g = [f EXCEPT !.op = op, !.mark = m]
  BY DEF Started
<1> HIDE DEF g
<1>2. SameData(f, g) /\ g.op = op
  BY <1>1 DEF IsRecord, Fields, SameData
<1> QED BY <1>2 DEF g

LEMMA AgainData ==
  ASSUME NEW f, IsRecord(f), NEW nodes
  PROVE  SameData(f, ListAgain(f, nodes)) /\ ListAgain(f, nodes).op = "list"
<1> DEFINE g == ListAgain(f, nodes)
<1>1. g = [f EXCEPT !.op = "list", !.nodes = nodes]
  BY DEF ListAgain
<1> HIDE DEF g
<1>2. SameData(f, g) /\ g.op = "list"
  BY <1>1 DEF IsRecord, Fields, SameData
<1> QED BY <1>2 DEF g

LEMMA WithData ==
  ASSUME NEW f, IsRecord(f), NEW nodes, NEW scope
  PROVE  SameData(f, ListWith(f, nodes, scope)) /\ ListWith(f, nodes, scope).op = "list"
<1> DEFINE g == ListWith(f, nodes, scope)
<1>1. g = [f EXCEPT !.op = "list", !.nodes = nodes, !.scope = scope]
  BY DEF ListWith
<1> HIDE DEF g
<1>2. SameData(f, g) /\ g.op = "list"
  BY <1>1 DEF IsRecord, Fields, SameData
<1> QED BY <1>2 DEF g

LEMMA OnwardData ==
  ASSUME NEW f, IsRecord(f), NEW x
  PROVE  /\ SameData(f, [f EXCEPT !.nodes = x]) /\ [f EXCEPT !.nodes = x].op = f.op
         /\ SameData(f, [f EXCEPT !.cmds = x]) /\ [f EXCEPT !.cmds = x].op = f.op
         /\ SameData(f, [f EXCEPT !.args = x]) /\ [f EXCEPT !.args = x].op = f.op
         /\ [f EXCEPT !.args = x].args = x
BY DEF IsRecord, Fields, SameData

LEMMA ItemsData ==
  ASSUME NEW f, IsRecord(f), Carried(f), NEW items, ArePairs(items)
  PROVE  Carried([f EXCEPT !.items = items]) /\ [f EXCEPT !.items = items].op = f.op
<1> DEFINE g == [f EXCEPT !.items = items]
<1>1. g.dot = f.dot /\ g.value = f.value /\ g.list = f.list /\ g.items = items /\ g.name = f.name /\ g.op = f.op
  BY DEF IsRecord, Fields
<1> HIDE DEF g
<1>2. Carried(g) /\ g.op = f.op
  BY <1>1 DEF Carried
<1> QED BY <1>2 DEF g

\* New frames.
LEMMA FrameData ==
  ASSUME NEW op \in Op, NEW dot
  PROVE  LET f == Frame(op, dot) IN
         /\ IsRecord(f) /\ f.op = op /\ f.dot = dot /\ f.value = Invalid /\ f.list = <<>> /\ f.items = <<>>
         /\ IsValue(dot) /\ op # "call" => Carried(f)
<1> DEFINE f == Frame(op, dot)
           e == <<>>
           v == Invalid
<1>0. IsRecord(f) /\ AreValues(e) /\ ArePairs(e) /\ IsValue(v)
  BY FrameFacts, NoValues, InvalidFacts
<1>1. f = [op |-> op, dot |-> dot, nodes |-> e, cmds |-> e, args |-> e, list |-> e, items |-> e,
           decls |-> e, isAssign |-> FALSE, name |-> "", value |-> v, mark |-> 0, top |-> 0, scope |-> e]
  BY DEF Frame
<1> HIDE DEF f, e, v
<1>2. f.op = op /\ f.dot = dot /\ f.value = v /\ f.list = e /\ f.items = e
  BY ONLY <1>1
<1>3. IsValue(dot) /\ op # "call" => Carried(f)
  BY <1>0, <1>2 DEF Carried
<1> QED BY <1>0, <1>2, <1>3 DEF f, e, v

LEMMA SomeOps == {"list", "pop", "loop", "return", "pipeline", "call"} \subseteq Op
BY DEF Op, Carrier

LEMMA ListData ==
  ASSUME NEW dot, IsValue(dot), NEW nodes, NEW scope
  PROVE  Carried(List(dot, nodes, scope)) /\ List(dot, nodes, scope).op = "list"
<1> DEFINE e == Frame("list", dot)
           f == List(dot, nodes, scope)
<1>1. IsRecord(e) /\ e.op = "list" /\ Carried(e)
  BY FrameData, SomeOps
<1>2. f = [e EXCEPT !.nodes = nodes, !.scope = scope]
  BY DEF List
<1> HIDE DEF e, f
<1>3. SameData(e, f) /\ f.op = "list"
  BY <1>1, <1>2 DEF IsRecord, Fields, SameData
<1>4. Carried(f) /\ f.op = "list"
  BY <1>1, <1>3, SameCarried
<1> QED BY <1>4 DEF f

LEMMA PipelineData ==
  ASSUME NEW dot, IsValue(dot), NEW pipe
  PROVE  Carried(Pipeline(dot, pipe)) /\ Pipeline(dot, pipe).op = "pipeline"
<1> DEFINE e == Frame("pipeline", dot)
           f == Pipeline(dot, pipe)
           value == IF pipe.cmds = <<>> THEN Invalid ELSE Missing
<1>1. IsRecord(e) /\ e.op = "pipeline" /\ Carried(e)
  BY FrameData, SomeOps
<1>2. IsValue(value)
  BY InvalidFacts
<1>3. f = [e EXCEPT !.cmds = pipe.cmds, !.decls = pipe.decls, !.isAssign = pipe.isAssign, !.value = value]
  BY DEF Pipeline
<1> HIDE DEF e, f, value
<1>4. f.dot = e.dot /\ f.value = value /\ f.list = e.list /\ f.items = e.items /\ f.op = "pipeline"
  BY <1>1, <1>3 DEF IsRecord, Fields
<1>5. Carried(f) /\ f.op = "pipeline"
  BY <1>1, <1>2, <1>4 DEF Carried
<1> QED BY <1>5 DEF f

LEMMA PopData ==
  ASSUME IsValue(Top.dot), NEW m
  PROVE  Carried(Pop(m)) /\ Pop(m).op = "pop"
<1> DEFINE e == Frame("pop", Top.dot)
           f == Pop(m)
<1>1. IsRecord(e) /\ e.op = "pop" /\ Carried(e)
  BY FrameData, SomeOps
<1>2. f = [e EXCEPT !.mark = m]
  BY DEF Pop
<1> HIDE DEF e, f
<1>3. SameData(e, f) /\ f.op = "pop"
  BY <1>1, <1>2 DEF IsRecord, Fields, SameData
<1>4. Carried(f) /\ f.op = "pop"
  BY <1>1, <1>3, SameCarried
<1> QED BY <1>4 DEF f

LEMMA CallData ==
  ASSUME NEW dot, IsValue(dot), NEW name \in Functions_, NEW args, NEW value, IsValue(value),
         name \in Variadic \/ args # <<>> \/ value # Missing
  PROVE  Carried(Calling(dot, name, args, value)) /\ Ready(Calling(dot, name, args, value))
<1> DEFINE e == Frame("call", dot)
           f == Calling(dot, name, args, value)
<1>1. IsRecord(e) /\ e.op = "call" /\ e.dot = dot /\ e.list = <<>> /\ e.items = <<>>
  BY FrameData, SomeOps
<1>2. AreValues(<<>>) /\ ArePairs(<<>>)
  BY NoValues
<1>3. f = [e EXCEPT !.name = name, !.args = args, !.value = value]
  BY DEF Calling
<1> HIDE DEF e, f
<1>4. f.dot = e.dot /\ f.value = value /\ f.list = e.list /\ f.items = e.items /\ f.op = "call" /\ f.name = name /\ f.args = args
  BY <1>1, <1>3 DEF IsRecord, Fields
<1>5. Carried(f)
  BY <1>1, <1>2, <1>4 DEF Carried
<1>6. Ready(f)
  BY <1>4 DEF Ready
<1> QED BY <1>5, <1>6 DEF f

LEMMA LoopData ==
  ASSUME NEW dot, IsValue(dot), NEW nodes, NEW decls, NEW isAssign, NEW items, ArePairs(items), NEW m, NEW top, NEW scope
  PROVE  LET f == Looping(dot, nodes, decls, isAssign, items, m, top, scope) IN
         Carried(f) /\ f.op = "loop" /\ f.items = items
<1> DEFINE e == Frame("loop", dot)
           f == Looping(dot, nodes, decls, isAssign, items, m, top, scope)
<1>1. IsRecord(e) /\ e.op = "loop" /\ Carried(e)
  BY FrameData, SomeOps
<1>2. f = [e EXCEPT !.nodes = nodes, !.decls = decls, !.isAssign = isAssign, !.items = items, !.mark = m,
             !.top = top, !.scope = scope]
  BY DEF Looping
<1> HIDE DEF e, f
<1>3. f.dot = e.dot /\ f.value = e.value /\ f.list = e.list /\ f.items = items /\ f.op = "loop"
  BY <1>1, <1>2 DEF IsRecord, Fields
<1>4. Carried(f)
  BY <1>1, <1>3 DEF Carried
<1> QED BY <1>3, <1>4 DEF f
-----------------------------------------------------------------------------
\* A value given to a call is carried on; a call that had what it needs, or is given it, has it.
LEMMA ListedValues ==
  ASSUME NEW list, AreValues(list), NEW v, IsValue(v)
  PROVE  AreValues(Append(list, v)) /\ Append(list, v) # <<>> /\ Len(Append(list, v)) > 0 /\ IsValue(Last(Append(list, v)))
<1> DEFINE t == Append(list, v)
<1>1. IsSeq(list) /\ Len(list) \in Nat
  BY SeqFacts DEF AreValues
<1>2. IsSeq(t) /\ Len(t) = Len(list) + 1 /\ Last(t) = v /\ t[Len(list) + 1] = v /\ \A i \in 1..Len(list) : t[i] = list[i]
  BY <1>1, Appended
<1> HIDE DEF t
<1>3. AreValues(t)
  BY <1>1, <1>2 DEF AreValues
<1>4. t # <<>>
  <2>1. Len(<<>>) = 0
    BY EmptyFields
  <2> QED BY <1>1, <1>2, <2>1
<1>5. Len(t) > 0 /\ IsValue(Last(t))
  BY <1>1, <1>2
<1> QED BY <1>3, <1>4, <1>5 DEF t

Decided(f, list) == [f EXCEPT !.list = list, !.args = <<>>, !.value = Missing]
LEMMA GivenData ==
  ASSUME NEW f, IsRecord(f), Carried(f), NEW v, IsValue(v)
  PROVE  /\ Carried(Given(f, v)) /\ Ready(Given(f, v)) /\ Given(f, v).op = f.op
         /\ f.op = "pipeline" => Given(f, v).value = indirectInterface(v)
<1> DEFINE g == Given(f, v)
           w == indirectInterface(v)
           list == Append(f.list, v)
           missing == Missing
<1>1. IsValue(w) /\ IsValue(missing)
  BY UnboxedFacts, InvalidFacts
<1>2. AreValues(list) /\ list # <<>>
  BY ListedValues DEF Carried
<1> HIDE DEF w, list, missing
<1>3. CASE f.op = "pipeline"
  <2>1. g = [f EXCEPT !.value = w]
    BY <1>3 DEF Given, w
  <2> HIDE DEF g
  <2>2. g.dot = f.dot /\ g.value = w /\ g.list = f.list /\ g.items = f.items /\ g.op = f.op
    BY <2>1 DEF IsRecord, Fields
  <2>3. Carried(g) /\ Ready(g)
    BY <1>1, <1>3, <2>2 DEF Carried, Ready
  <2> QED BY <2>2, <2>3 DEF g, w
<1>4. CASE f.op \notin {"pipeline", "call"}
  <2>1. g = [f EXCEPT !.value = v]
    BY <1>4 DEF Given
  <2> HIDE DEF g
  <2>2. g.dot = f.dot /\ g.value = v /\ g.list = f.list /\ g.items = f.items /\ g.op = f.op
    BY <2>1 DEF IsRecord, Fields
  <2>3. Carried(g) /\ Ready(g)
    BY <1>4, <2>2 DEF Carried, Ready
  <2> QED BY <1>4, <2>2, <2>3 DEF g
<1>5. CASE f.op = "call" /\ Decides(f.name, v)
  <2>1. g = [f EXCEPT !.list = Append(@, v), !.args = <<>>, !.value = Missing]
    BY <1>5 DEF Given
  <2>2. g = [f EXCEPT !.list = list, !.args = <<>>, !.value = missing]
    BY <2>1 DEF list, missing
  <2> HIDE DEF g
  <2>3. g.dot = f.dot /\ g.value = missing /\ g.list = list /\ g.items = f.items /\ g.op = f.op /\ g.name = f.name
    BY <2>2 DEF IsRecord, Fields
  <2>4. Carried(g) /\ Ready(g)
    BY <1>1, <1>2, <1>5, <2>3 DEF Carried, Ready
  <2> QED BY <1>5, <2>3, <2>4 DEF g
<1>6. CASE f.op = "call" /\ ~Decides(f.name, v)
  <2>1. g = [f EXCEPT !.list = Append(@, v)]
    BY <1>6 DEF Given
  <2>2. g = [f EXCEPT !.list = list]
    BY <2>1 DEF list
  <2> HIDE DEF g
  <2>3. g.dot = f.dot /\ g.value = f.value /\ g.list = list /\ g.items = f.items /\ g.op = f.op /\ g.name = f.name
    BY <2>2 DEF IsRecord, Fields
  <2>4. Carried(g) /\ Ready(g)
    BY <1>1, <1>2, <1>6, <2>3 DEF Carried, Ready
  <2> QED BY <1>6, <2>3, <2>4 DEF g
<1> QED BY <1>3, <1>4, <1>5, <1>6

\* Stacks.
LEMMA StackPut ==
  ASSUME NEW fs, Stack(fs), NEW f, Carried(f)
  PROVE  Stack(Append(fs, f)) /\ Last(Append(fs, f)) = f
<1>1. IsSeq(fs) /\ Len(fs) \in Nat
  BY SeqFacts DEF Stack
<1>2. LET t == Append(fs, f) IN IsSeq(t) /\ Len(t) = Len(fs) + 1 /\ Last(t) = f /\ t[Len(fs) + 1] = f /\ \A i \in 1..Len(fs) : t[i] = fs[i]
  BY <1>1, Appended
<1> DEFINE t == Append(fs, f)
<1> HIDE DEF t
<1>3. IsSeq(t) /\ Len(t) = Len(fs) + 1 /\ Last(t) = f /\ t[Len(fs) + 1] = f /\ \A i \in 1..Len(fs) : t[i] = fs[i]
  BY <1>2 DEF t
<1>4. Stack(t)
  BY <1>1, <1>3 DEF Stack
<1> QED BY <1>3, <1>4 DEF t

LEMMA StackFront ==
  ASSUME NEW fs, Stack(fs), Len(fs) > 0
  PROVE  Stack(Front(fs)) /\ Carried(Last(fs)) /\ Len(Front(fs)) = Len(fs) - 1 /\ \A i \in 1..Len(fs) : Carried(fs[i])
<1>1. IsSeq(fs) /\ Len(fs) \in Nat
  BY SeqFacts DEF Stack
<1>2. LET t == Front(fs) IN IsSeq(t) /\ Len(t) = Len(fs) - 1 /\ \A i \in 1..Len(fs) - 1 : t[i] = fs[i]
  BY <1>1, Fronted
<1> DEFINE t == Front(fs)
<1> HIDE DEF t
<1>3. IsSeq(t) /\ Len(t) = Len(fs) - 1 /\ \A i \in 1..Len(fs) - 1 : t[i] = fs[i]
  BY <1>2 DEF t
<1>4. Stack(t)
  BY <1>1, <1>3 DEF Stack
<1>5. Carried(Last(fs))
  BY <1>1 DEF Stack, Last
<1> QED BY <1>3, <1>4, <1>5 DEF t, Stack

LEMMA StackPush ==
  ASSUME NEW fs, Stack(fs), Len(fs) > 0, NEW f, Carried(f), NEW g, Carried(g)
  PROVE  LET gs == Front(fs) \o <<f, g>> IN Stack(gs) /\ Last(gs) = g
<1> DEFINE h == Front(fs)
           gs == h \o <<f, g>>
<1>1. Stack(h)
  BY StackFront
<1> HIDE DEF h
<1>2. gs = Append(Append(h, f), g)
  BY <1>1, Joined2 DEF Stack
<1> HIDE DEF gs
<1>3. Stack(Append(h, f))
  BY <1>1, StackPut
<1>4. Stack(gs) /\ Last(gs) = g
  BY <1>2, <1>3, StackPut
<1> QED BY <1>4 DEF gs, h

LEMMA StackPush2 ==
  ASSUME NEW fs, Stack(fs), Len(fs) > 0, NEW f, Carried(f), NEW g, Carried(g), NEW h, Carried(h)
  PROVE  LET gs == Front(fs) \o <<f, g, h>> IN Stack(gs) /\ Last(gs) = h
<1> DEFINE t == Front(fs)
           gs == t \o <<f, g, h>>
<1>1. Stack(t)
  BY StackFront
<1> HIDE DEF t
<1>2. gs = Append(Append(Append(t, f), g), h)
  BY <1>1, Joined3 DEF Stack
<1> HIDE DEF gs
<1>3. Stack(Append(Append(t, f), g))
  BY <1>1, StackPut
<1>4. Stack(gs) /\ Last(gs) = h
  BY <1>2, <1>3, StackPut
<1> QED BY <1>4 DEF gs, t

\* Variables.
LEMMA TopValues ==
  ASSUME NEW sts, IsSeq(sts), Len(sts) > 0, VarsCarried(sts)
  PROVE  AllValues(Last(sts))
<1>1. Len(sts) \in DOMAIN sts
  BY SeqFacts
<1> QED BY <1>1 DEF VarsCarried, Last

LEMMA SetValues ==
  ASSUME NEW sts, VarsCarried(sts), NEW vs, AllValues(vs)
  PROVE  VarsCarried([sts EXCEPT ![Len(sts)] = vs])
<1> DEFINE n == Len(sts)
           ts == [sts EXCEPT ![n] = vs]
<1> HIDE DEF n
<1>1. DOMAIN ts = DOMAIN sts /\ \A e \in DOMAIN sts : ts[e] = IF e = n THEN vs ELSE sts[e]
  OBVIOUS
<1> HIDE DEF ts
<1>2. \A e \in DOMAIN ts : AllValues(ts[e])
  BY <1>1 DEF VarsCarried
<1> QED BY <1>2 DEF VarsCarried, ts, n

LEMMA CutValues ==
  ASSUME NEW vs, IsVars(vs), AllValues(vs), NEW m \in 0..Len(vs)
  PROVE  AllValues(pop(vs, m))
<1> DEFINE us == pop(vs, m)
<1>1. IsVars(us) /\ Len(us) = m /\ \A i \in 1..m : us[i] = vs[i]
  BY Cut
<1> HIDE DEF us
<1>2. DOMAIN us = 1..m /\ 1..m \subseteq DOMAIN vs
  <2>1. DOMAIN us = 1..Len(us) /\ DOMAIN vs = 1..Len(vs) /\ Len(vs) \in Nat
    BY <1>1, NamesFacts
  <2> QED BY <1>1, <2>1
<1>3. AllValues(us)
  BY <1>1, <1>2 DEF AllValues
<1> QED BY <1>3 DEF us

LEMMA OneVariable ==
  ASSUME NEW v, IsValue(v)
  PROVE  AllValues(<<Variable("$", v)>>)
<1> DEFINE x == Variable("$", v)
<1>1. x.v = v
  BY VariableFacts
<1> HIDE DEF x
<1>2. DOMAIN <<x>> = {1} /\ <<x>>[1] = x
  OBVIOUS
<1> QED BY <1>1, <1>2 DEF AllValues, x

LEMMA AnotherState ==
  ASSUME NEW sts, IsSeq(sts), VarsCarried(sts), NEW vs, AllValues(vs)
  PROVE  VarsCarried(Append(sts, vs))
<1> DEFINE ts == Append(sts, vs)
           n == Len(sts)
<1>1. n \in Nat /\ DOMAIN sts = 1..n
  BY SeqFacts
<1>2. DOMAIN ts = 1..n + 1 /\ ts[n + 1] = vs /\ \A i \in 1..n : ts[i] = sts[i]
  BY Appended
<1> HIDE DEF ts, n
<1>3. ASSUME NEW e \in DOMAIN ts PROVE AllValues(ts[e])
  <2>1. e \in 1..n \/ e = n + 1
    BY <1>1, <1>2
  <2> QED BY <1>1, <1>2, <2>1 DEF VarsCarried
<1> QED BY <1>3 DEF VarsCarried, ts

LEMMA OneStateLess ==
  ASSUME NEW sts, IsSeq(sts), Len(sts) > 0, VarsCarried(sts)
  PROVE  VarsCarried(Front(sts))
<1> DEFINE ts == Front(sts)
           n == Len(sts)
<1>1. n \in Nat /\ DOMAIN sts = 1..n
  BY SeqFacts
<1>2. DOMAIN ts = 1..n - 1 /\ \A i \in 1..n - 1 : ts[i] = sts[i]
  BY Fronted
<1> HIDE DEF ts, n
<1>3. ASSUME NEW e \in DOMAIN ts PROVE AllValues(ts[e])
  BY <1>1, <1>2 DEF VarsCarried
<1> QED BY <1>3 DEF VarsCarried, ts

LEMMA SetVarValues ==
  ASSUME NEW vs, IsVars(vs), AllValues(vs), NEW k, NEW v, IsValue(v)
  PROVE  IsVars([vs EXCEPT ![k].v = v]) /\ AllValues([vs EXCEPT ![k].v = v]) /\ Len([vs EXCEPT ![k].v = v]) = Len(vs)
<1> DEFINE us == [vs EXCEPT ![k].v = v]
<1>1. IsVars(us) /\ Len(us) = Len(vs) /\ (k \in DOMAIN vs => us[k].v = v) /\ \A i \in DOMAIN vs : i # k => us[i] = vs[i]
  BY SetVarFacts
<1>2. DOMAIN us = DOMAIN vs
  OBVIOUS
<1> HIDE DEF us
<1>3. AllValues(us)
  BY <1>1, <1>2 DEF AllValues
<1> QED BY <1>1, <1>3 DEF us
-----------------------------------------------------------------------------
\* Steps carry values on: those of lists,
LEMMA Bears ==
  ASSUME Live, Bearing
  PROVE  /\ IsValue(out) /\ AreValues(out.args) /\ Stack(frames) /\ Len(frames) > 0 /\ IsSeq(frames) /\ VarsCarried(states)
         /\ Carried(Top) /\ Ready(Top) /\ IsFrame(Top) /\ IsRecord(Top) /\ Top = Last(frames)
         /\ IsValue(Top.dot) /\ IsValue(Top.value)
         /\ IsSeq(states) /\ Len(states) > 0 /\ IsVars(Vars) /\ AllValues(Vars) /\ Vars = Last(states)
<1>1. /\ IsSeq(frames) /\ Len(frames) > 0 /\ IsFrame(Top)
      /\ IsSeq(states) /\ Len(states) > 0 /\ IsVars(Vars) /\ Top = Last(frames) /\ Vars = Last(states)
  BY LiveFacts DEF Top, Vars
<1>2. Stack(frames) /\ Ready(Top) /\ VarsCarried(states) /\ IsValue(out) /\ AreValues(out.args)
  BY <1>1 DEF Bearing
<1>3. Carried(Top) /\ AllValues(Vars) /\ IsRecord(Top)
  BY <1>1, <1>2, StackFront, TopValues, FrameFields
<1> QED BY <1>1, <1>2, <1>3 DEF Carried

LEMMA BearsOn ==
  ASSUME IsValue(out'), AreValues(out'.args), Stack(frames'), Ready(Last(frames')), VarsCarried(states')
  PROVE  DataInv'
BY DEF DataInv, Bearing

LEMMA BearsStill ==
  ASSUME Bearing, NEW err, errorf(err)
  PROVE  DataInv'
BY DEF DataInv, Bearing, errorf

LEMMA walkTextBears ==
  ASSUME Live, Bearing, walkText
  PROVE  DataInv'
<1> DEFINE nodes == Tail(Top.nodes)
           f == [Top EXCEPT !.nodes = nodes]
           tok == Text(Node.text)
<1>1. Top.op = "list" /\ Top.nodes # <<>> /\ states' = states /\ frames' = Append(Front(frames), f) /\ out' = WriteString(out, tok)
  BY DEF walkText, AtNode, Walking, Become
<1>2. tok.t # "?"
  <2>1. Node \in Nodes
    BY <1>1, Bears, FrameFields, NodeFacts DEF Node
  <2>2. Node.text # "?"
    BY <2>1, ProgramAssumption
  <2> QED BY <2>2 DEF Text
<1> HIDE DEF tok, nodes
<1>3. Carried(f) /\ Ready(f)
  <2>1. SameData(Top, f) /\ f.op = Top.op
    BY Bears, OnwardData
  <2> HIDE DEF f
  <2> QED BY <1>1, <2>1, Bears, SameCarried, NotReady
<1> HIDE DEF f
<1>4. IsValue(out') /\ AreValues(out'.args)
  <2> DEFINE u == WriteString(out, tok)
  <2>1. IsValue(u) /\ u.args = out.args
    BY <1>2, Bears, WriteStringFacts
  <2> HIDE DEF u
  <2>2. IsValue(u) /\ AreValues(u.args)
    BY <2>1, Bears
  <2> QED BY <1>1, <2>2 DEF u
<1>5. Stack(frames') /\ Last(frames') = f
  BY <1>1, <1>3, Bears, StackFront, StackPut
<1> QED BY <1>1, <1>3, <1>4, <1>5, Bears, BearsOn

LEMMA EvaluateBears ==
  ASSUME Live, Bearing, NEW op \in Evaluating, Evaluate(op)
  PROVE  DataInv'
<1> DEFINE f == Started(Top, op, mark(Vars))
           g == Pipeline(Top.dot, Node.pipe)
<1>1. states' = states /\ out' = out /\ frames' = Front(frames) \o <<f, g>>
  BY DEF Evaluate, Push, Quiet, Started
<1>2. Carried(f)
  <2>1. SameData(Top, f) /\ f.op = op
    BY Bears, StartedData
  <2>2. op # "call"
    BY DEF Evaluating
  <2> HIDE DEF f
  <2> QED BY <2>1, <2>2, Bears, SameCarried
<1>3. Carried(g) /\ g.op = "pipeline"
  BY Bears, PipelineData
<1> HIDE DEF f, g
<1>4. Stack(frames') /\ Last(frames') = g
  BY <1>1, <1>2, <1>3, Bears, StackPush
<1> QED BY <1>1, <1>3, <1>4, Bears, BearsOn, NotReady

LEMMA lookupTemplateBears ==
  ASSUME Live, Bearing, lookupTemplate
  PROVE  DataInv'
<1>1. \/ errorf("template")
      \/ errorf("depth")
      \/ Evaluate("template")
  BY DEF lookupTemplate
<1>2. "template" \in Evaluating
  BY DEF Evaluating
<1> QED BY <1>1, <1>2, BearsStill, EvaluateBears

LEMMA PastData == ASSUME Live, Bearing PROVE Carried(Past) /\ Past.op = "list"
<1> DEFINE f == ListWith(Top, Tail(Top.nodes), Inner)
<1>1. Past = f
  BY DEF Past, ListWith
<1>2. SameData(Top, f) /\ f.op = "list"
  BY Bears, WithData
<1> HIDE DEF f
<1> QED BY <1>1, <1>2, Bears, SameCarried

LEMMA OutsideData == ASSUME Live, Bearing PROVE Carried(Outside) /\ Outside.op = "list"
<1> DEFINE f == ListAgain(Top, Tail(Top.nodes))
<1>1. Outside = f
  BY DEF Outside, ListAgain
<1>2. SameData(Top, f) /\ f.op = "list"
  BY Bears, AgainData
<1> HIDE DEF f
<1> QED BY <1>1, <1>2, Bears, SameCarried

Kinded(v, k) == [v EXCEPT !.kind = k]
LEMMA KindedFacts ==
  ASSUME NEW v, IsValue(v), NEW k
  PROVE  IsValue(Kinded(v, k)) /\ Kinded(v, k).kind = k
<1> DEFINE EL == Elems
           w == Kinded(v, k)
<1>1. v \in [kind : {v.kind}, n : Int, elems : Seq(EL), boxed : BOOLEAN, text : {v.text}, args : {v.args}]
      /\ Distinct(v.elems) /\ IsSeq(v.text) /\ IsSeq(v.args) /\ Matched(v.text, v.args)
  BY DEF IsValue
<1> HIDE DEF EL
<1>2. w = [v EXCEPT !.kind = k]
  BY DEF Kinded
<1> HIDE DEF w
<1>3. w \in [kind : {k}, n : Int, elems : Seq(EL), boxed : BOOLEAN, text : {v.text}, args : {v.args}]
      /\ w.kind = k /\ w.text = v.text /\ w.args = v.args /\ w.elems = v.elems
  BY <1>1, <1>2
<1>4. IsValue(w)
  BY <1>1, <1>3 DEF IsValue, EL
<1> QED BY <1>3, <1>4 DEF w

\* What is printed is written with its parameter, and no fragment is one.
LEMMA printedFacts ==
  ASSUME IsValue(out), AreValues(out.args), NEW v, IsValue(v)
  PROVE  IsValue(printed(v)) /\ AreValues(printed(v).args)
<1> DEFINE u == printed(v)
<1>1. CASE v.kind = "sql"
  <2> DEFINE tok == [t |-> "sql", of |-> v]
             w == WriteString(out, tok)
  <2>1. u = w
    BY <1>1 DEF printed
  <2>2. tok.t # "?"
    OBVIOUS
  <2> HIDE DEF tok
  <2>3. IsValue(w) /\ w.args = out.args
    BY <2>2, WriteStringFacts
  <2> HIDE DEF w, u
  <2>4. IsValue(u) /\ AreValues(u.args)
    BY <2>1, <2>3
  <2> QED BY <2>4 DEF u
<1>2. ASSUME NEW x, IsValue(x), x.kind # "write", u = WriteParam(out, x) PROVE IsValue(u) /\ AreValues(u.args)
  <2> DEFINE w == WriteParam(out, x)
  <2>1. IsValue(w) /\ AreValues(w.args)
    BY <1>2, WriteParamFacts
  <2> HIDE DEF w, u
  <2>2. u = w
    BY <1>2 DEF w
  <2> QED BY <2>1, <2>2
<1>3. CASE v.kind = "invalid"
  <2> DEFINE x == Value("no value", 0)
  <2>1. u = WriteParam(out, x)
    BY <1>3 DEF printed
  <2>2. IsValue(x) /\ x.kind = "no value"
    BY Bits, ValueFacts
  <2> HIDE DEF x, u
  <2>3. IsValue(u) /\ AreValues(u.args)
    BY <1>2, <2>1, <2>2
  <2> QED BY <2>3 DEF u
<1>4. CASE v.kind = "write"
  <2> DEFINE x == Kinded(v, "struct")
  <2>1. u = WriteParam(out, x)
    BY <1>4 DEF printed, Kinded
  <2>2. IsValue(x) /\ x.kind = "struct"
    BY KindedFacts
  <2> HIDE DEF x, u
  <2>3. IsValue(u) /\ AreValues(u.args)
    BY <1>2, <2>1, <2>2
  <2> QED BY <2>3 DEF u
<1>5. CASE v.kind \notin {"sql", "invalid", "write"}
  <2>1. u = WriteParam(out, v)
    BY <1>5 DEF printed
  <2> HIDE DEF u
  <2>2. IsValue(u) /\ AreValues(u.args)
    BY <1>2, <1>5, <2>1
  <2> QED BY <2>2 DEF u
<1> QED BY <1>1, <1>3, <1>4, <1>5

LEMMA walkActionBears ==
  ASSUME Live, Bearing, walkAction
  PROVE  DataInv'
<1>1. \/ errorf("print")
      \/ errorf("panic")
      \/ out' \in {printed(Top.value), out} /\ Become(Past) /\ states' = states
  BY DEF walkAction
<1>2. CASE out' \in {printed(Top.value), out} /\ Become(Past) /\ states' = states
  <2>1. Carried(Past) /\ Past.op = "list" /\ Ready(Past)
    BY PastData, NotReady
  <2>2. Stack(Front(frames)) /\ frames' = Append(Front(frames), Past)
    BY <1>2, Bears, StackFront DEF Become
  <2>3. Stack(frames') /\ Last(frames') = Past
    BY <2>1, <2>2, StackPut
  <2>4. IsValue(out') /\ AreValues(out'.args)
    <3>1. IsValue(printed(Top.value)) /\ AreValues(printed(Top.value).args)
      BY Bears, printedFacts
    <3> QED BY <1>2, <3>1, Bears
  <2> QED BY <1>2, <2>1, <2>3, <2>4, Bears, BearsOn
<1> QED BY <1>1, <1>2, BearsStill

LEMMA walkIfOrWithBears ==
  ASSUME Live, Bearing, NEW op, walkIfOrWith(op)
  PROVE  DataInv'
<1> DEFINE f == Outside
           g == Pop(Top.mark)
           h == IF IsTrue(Top.value) THEN List(IF op = "with" THEN Top.value ELSE Top.dot, Node.list, Inner)
                ELSE List(Top.dot, Node.elseList, Inner)
<1>1. states' = states /\ out' = out /\ frames' = Front(frames) \o <<f, g, h>>
  BY DEF walkIfOrWith, Quiet
<1>2. Carried(f) /\ Carried(g)
  BY OutsideData, Bears, PopData
<1>3. Carried(h) /\ h.op = "list"
  <2>1. IsValue(Top.value) /\ IsValue(Top.dot)
    BY Bears
  <2> QED BY <2>1, ListData
<1> HIDE DEF f, g, h
<1>4. Stack(frames') /\ Last(frames') = h
  BY <1>1, <1>2, <1>3, Bears, StackPush2
<1> QED BY <1>1, <1>3, <1>4, Bears, BearsOn, NotReady

LEMMA walkTemplateBears ==
  ASSUME Live, Bearing, walkTemplate
  PROVE  DataInv'
<1> DEFINE f == Past
           g == Frame("return", Top.dot)
           h == List(Top.value, prog.defs[Node.name], <<"$">>)
           vs == <<Variable("$", Top.value)>>
<1>1. states' = Append(states, vs) /\ out' = out /\ frames' = Front(frames) \o <<f, g, h>>
  BY DEF walkTemplate, Quiet
<1>2. Carried(f) /\ Carried(g)
  BY PastData, Bears, FrameData, SomeOps
<1>3. Carried(h) /\ h.op = "list" /\ AllValues(vs)
  BY Bears, ListData, OneVariable
<1> HIDE DEF f, g, h, vs
<1>4. Stack(frames') /\ Last(frames') = h
  BY <1>1, <1>2, <1>3, Bears, StackPush2
<1>5. VarsCarried(states')
  BY <1>1, <1>3, Bears, AnotherState
<1> QED BY <1>1, <1>3, <1>4, <1>5, Bears, BearsOn, NotReady

\* those that end a list or a control structure,
LEMMA returnBears ==
  ASSUME Live, Bearing, return
  PROVE  DataInv'
<1>1. Top.op = "return" /\ states' = Front(states) /\ frames' = Front(frames) /\ out' = out
  BY DEF return, Walking, Quiet
<1>2. Last(frames').op = "list"
  <2>1. FramesInv(prog, frames) /\ VarsInv(frames, states)
    BY LiveFacts
  <2> QED BY <1>1, <2>1, PopReturn DEF Top
<1>3. Stack(frames') /\ VarsCarried(states')
  BY <1>1, Bears, StackFront, OneStateLess
<1>4. Ready(Last(frames'))
  BY <1>2, NotReady
<1> QED BY <1>1, <1>3, <1>4, Bears, BearsOn

LEMMA EndListBears ==
  ASSUME Live, Bearing, EndList
  PROVE  DataInv'
<1>1. Top.op = "list" /\ states' = states /\ frames' = Front(frames) /\ out' = out
      /\ status' = IF Len(frames) = 1 THEN "ok" ELSE status
  BY DEF EndList, Walking
<1>2. FramesInv(prog, frames) /\ VarsInv(frames, states) /\ Len(frames) \in Nat /\ Len(frames) > 0 /\ Top = Last(frames)
  BY LiveFacts DEF Top
<1>3. CASE Len(frames) = 1
  <2>1. status' # "running" /\ IsValue(out') /\ AreValues(out'.args)
    BY <1>1, <1>3, Bears
  <2> QED BY <2>1 DEF DataInv
<1>4. ASSUME Len(frames) > 1 PROVE DataInv'
  <2>1. FramesInv(prog, frames') /\ VarsInv(frames', states) /\ Last(frames') = frames[Len(frames) - 1]
    BY <1>1, <1>2, <1>4, PopTop
  <2>2. Over(frames[Len(frames) - 1], Top)
    BY <1>2, <1>4, Below
  <2>3. Last(frames').op # "call"
    BY <1>1, <2>1, <2>2 DEF Over
  <2>4. Ready(Last(frames'))
    BY <2>3, NotReady
  <2>5. Stack(frames')
    BY <1>1, Bears, StackFront
  <2> QED BY <1>1, <2>4, <2>5, Bears, BearsOn
<1>5. Len(frames) = 1 \/ Len(frames) > 1
  <2>1. Len(frames) \in Nat /\ Len(frames) > 0
    BY <1>2
  <2> QED BY ONLY <2>1, OneOrMore
<1> QED BY <1>3, <1>4, <1>5

\* A control structure is left for a list, with a mark that no variable has been cut below.
LEMMA LeaveFacts ==
  ASSUME Live, Top.op \in {"pop", "loop"}
  PROVE  Last(Front(frames)).op = "list" /\ Top.mark \in 0..Len(Vars)
<1> DEFINE gs == Front(frames)
<1>2. /\ FramesInv(prog, frames) /\ VarsInv(frames, states) /\ Len(frames) \in Nat /\ Len(frames) > 0 /\ Top = Last(frames)
      /\ IsVars(Vars)
  BY LiveFacts DEF Top
<1>3. Len(frames) > 1
  <2>1. Len(frames) # 1
    BY <1>2, Below DEF Evaluating
  <2>2. Len(frames) \in Nat /\ Len(frames) > 0
    BY <1>2
  <2> QED BY ONLY <2>1, <2>2, OneOrMore
<1>4. FramesInv(prog, gs) /\ VarsInv(gs, states) /\ Last(gs) = frames[Len(frames) - 1]
  BY <1>2, <1>3, PopTop
<1> HIDE DEF gs
<1>5. Last(gs).op = "list" /\ Top.mark = Len(Last(gs).scope)
  BY <1>2, <1>3, <1>4, Below DEF Over
<1>6. IsFrame(Last(gs)) /\ Holds(Last(gs), Names(Vars))
  BY <1>4, StackFacts DEF Vars
<1>7. Top.mark \in 0..Len(Vars)
  <2>1. Low(Last(gs)) = Top.mark
    BY <1>5 DEF Low
  <2>2. Last(gs).op \in Carrier /\ Last(gs).op # "pop"
    BY <1>5 DEF Carrier
  <2>3. Len(Names(Vars)) = Len(Vars) /\ Len(Vars) \in Nat
    BY <1>2, NamesFacts
  <2>4. Top.mark \in Nat
    BY <1>5, <1>6, FrameFields, SeqFacts
  <2> QED BY <1>5, <1>6, <2>1, <2>2, <2>3, <2>4 DEF Holds
<1> QED BY <1>5, <1>7 DEF gs

LEMMA leaveBears ==
  ASSUME Live, Bearing, leave
  PROVE  DataInv'
<1> DEFINE vs == pop(Vars, Top.mark)
<1>1. Top.op \in {"pop", "loop"} /\ frames' = Front(frames) /\ states' = [states EXCEPT ![Len(states)] = vs] /\ out' = out
  BY DEF leave, Walking, Quiet, SetVars
<1>2. Last(frames').op = "list" /\ Top.mark \in 0..Len(Vars)
  BY <1>1, LeaveFacts
<1>3. AllValues(vs)
  BY <1>2, Bears, CutValues
<1> HIDE DEF vs
<1>4. VarsCarried(states') /\ Stack(frames')
  BY <1>1, <1>3, Bears, SetValues, StackFront
<1>5. Ready(Last(frames'))
  BY <1>2, NotReady
<1> QED BY <1>1, <1>4, <1>5, Bears, BearsOn

\* those of a range,
LEMMA walkRangeBears ==
  ASSUME Live, Bearing, walkRange
  PROVE  DataInv'
<1> DEFINE decls == Node.pipe.decls
           isAssign == Node.pipe.isAssign
           items == Items(Top.value)
           f == [Frame("loop", Top.dot) EXCEPT !.nodes = Node.list, !.decls = decls, !.isAssign = isAssign,
                   !.items = items, !.mark = Top.mark, !.top = mark(Vars), !.scope = Inner]
           g == List(Top.dot, Node.elseList, Inner)
           none == <<>>
           rest == IF f.items = none THEN <<g>> ELSE none
<1>1. \/ errorf("range")
      \/ /\ CanRange(Top.value, Len(decls)) /\ states' = states /\ out' = out
         /\ frames' = Front(frames) \o <<Outside, f>> \o rest
  BY DEF walkRange
<1>2. CASE errorf("range")
  BY <1>2, BearsStill
<1>3. ASSUME CanRange(Top.value, Len(decls)), states' = states, out' = out,
             frames' = Front(frames) \o <<Outside, f>> \o rest
      PROVE  DataInv'
  <2>1. ArePairs(items)
    BY <1>3, Bears, ItemsValues
  <2> HIDE DEF items, decls, isAssign
  <2>2. Carried(f) /\ f.op = "loop"
    <3> DEFINE nodes == Node.list
               m == Top.mark
               top == mark(Vars)
               scope == Inner
               dot == Top.dot
    <3>1. f = Looping(dot, nodes, decls, isAssign, items, m, top, scope)
      BY DEF Looping
    <3>2. IsValue(dot)
      BY Bears
    <3> HIDE DEF f, nodes, m, top, scope, dot
    <3> QED BY ONLY <2>1, <3>1, <3>2, LoopData
  <2>3. Carried(g) /\ g.op = "list" /\ Carried(Outside)
    BY Bears, ListData, OutsideData
  <2> DEFINE hs == Front(frames) \o <<Outside, f>>
  <2>0. frames' = hs \o rest /\ rest \in {<<g>>, none}
    BY <1>3
  <2> HIDE DEF f, g, rest
  <2>4. Stack(hs) /\ Last(hs) = f /\ IsSeq(hs)
    <3>1. Stack(hs) /\ Last(hs) = f
      BY <2>2, <2>3, Bears, StackPush
    <3> HIDE DEF hs
    <3> QED BY <3>1 DEF Stack
  <2> HIDE DEF hs
  <2>5. frames' = Append(hs, g) \/ frames' = hs
    <3>1. hs \o <<g>> = Append(hs, g)
      BY <2>4, Joined1
    <3>2. hs \o <<>> = hs
      BY <2>4, JoinedNone
    <3> QED BY <2>0, <3>1, <3>2 DEF none
  <2>6. Stack(frames') /\ Ready(Last(frames'))
    <3>1. Ready(f) /\ Ready(g)
      BY <2>2, <2>3, NotReady
    <3>2. Stack(Append(hs, g)) /\ Last(Append(hs, g)) = g
      BY <2>3, <2>4, StackPut
    <3> QED BY <2>4, <2>5, <3>1, <3>2
  <2> QED BY <1>3, <2>6, Bears, BearsOn
<1> QED BY <1>1, <1>2, <1>3

LEMMA PairsOn ==
  ASSUME NEW items, ArePairs(items), items # <<>>
  PROVE  IsValue(Head(items).index) /\ IsValue(Head(items).elem) /\ ArePairs(Tail(items))
<1> DEFINE S == {items[i] : i \in DOMAIN items}
           t == Tail(items)
<1>1. items \in Seq(S) /\ Len(items) \in Nat
  BY SeqFacts DEF ArePairs, IsSeq
<1> HIDE DEF S
<1>2. t \in Seq(S) /\ Len(items) > 0 /\ Len(t) = Len(items) - 1 /\ Head(items) = items[1] /\ \A i \in 1..Len(t) : t[i] = items[i + 1]
  BY <1>1
<1> HIDE DEF t
<1>3. 1 \in 1..Len(items) /\ \A i \in 1..Len(t) : i + 1 \in 1..Len(items)
  BY <1>1, <1>2
<1>4. IsSeq(t)
  BY <1>2, SeqIs
<1>5. \A i \in 1..Len(t) : IsValue(t[i].index) /\ IsValue(t[i].elem)
  BY <1>2, <1>3 DEF ArePairs
<1>6. IsValue(items[1].index) /\ IsValue(items[1].elem)
  BY <1>3 DEF ArePairs
<1> QED BY <1>2, <1>4, <1>5, <1>6 DEF ArePairs, t

LEMMA IteratedValues ==
  ASSUME NEW vs, IsVars(vs), AllValues(vs), ArePairs(Top.items), Top.items # <<>>
  PROVE  AllValues(Iterated(vs))
<1> DEFINE x == Head(Top.items).index
           y == Head(Top.items).elem
           d1 == Top.decls[1]
           d2 == Top.decls[2]
           n == Len(Top.decls)
<1>1. IsValue(x) /\ IsValue(y)
  BY PairsOn
<1>2. \A us, name, v : IsVars(us) /\ AllValues(us) /\ IsValue(v) => IsVars(setVar(us, name, v)) /\ AllValues(setVar(us, name, v))
  BY SetVarValues DEF setVar
<1>3. \A us, k, v : IsVars(us) /\ AllValues(us) /\ IsValue(v) => IsVars(setTopVar(us, k, v)) /\ AllValues(setTopVar(us, k, v))
  BY SetVarValues DEF setTopVar
<1>4. Iterated(vs) \in {vs, setVar(vs, d1, y), setVar(setVar(vs, d1, x), d2, y), setTopVar(vs, 1, y), setTopVar(setTopVar(vs, 1, y), 2, x)}
  BY DEF Iterated
<1> HIDE DEF x, y, d1, d2
<1>5. /\ AllValues(setVar(vs, d1, y)) /\ AllValues(setVar(setVar(vs, d1, x), d2, y))
      /\ AllValues(setTopVar(vs, 1, y)) /\ AllValues(setTopVar(setTopVar(vs, 1, y), 2, x))
  BY <1>1, <1>2, <1>3
<1> QED BY <1>4, <1>5

LEMMA oneIterationBears ==
  ASSUME Live, Bearing, oneIteration
  PROVE  DataInv'
<1> DEFINE items == Tail(Top.items)
           f == [Top EXCEPT !.items = items]
           g == List(Head(Top.items).elem, Top.nodes, Top.scope)
           cut == pop(Vars, Top.top)
           vs == Iterated(cut)
<1>1. Top.op = "loop" /\ Top.items # <<>> /\ states' = [states EXCEPT ![Len(states)] = vs] /\ out' = out
  BY DEF oneIteration, Walking, Quiet, SetVars
<1>2. ArePairs(Top.items)
  BY Bears DEF Carried
<1>3. frames' = Append(Append(Front(frames), f), g)
  <2>1. [frames EXCEPT ![Len(frames)].items = Tail(@)] = [frames EXCEPT ![Len(frames)] = f]
    BY DEF Top, Last
  <2>2. [frames EXCEPT ![Len(frames)] = f] = Append(Front(frames), f)
    <3> HIDE DEF f
    <3> QED BY Bears, ExceptLast
  <2> QED BY <2>1, <2>2 DEF oneIteration, NextItem
<1>4. ArePairs(items) /\ IsValue(Head(Top.items).elem)
  BY <1>1, <1>2, PairsOn
<1> HIDE DEF items
<1>5. Carried(f)
  BY <1>4, Bears, ItemsData
<1>6. Carried(g) /\ g.op = "list"
  BY <1>4, ListData
<1> HIDE DEF f, g
<1>7. Stack(frames') /\ Last(frames') = g
  <2>1. Stack(Append(Front(frames), f))
    BY <1>5, Bears, StackFront, StackPut
  <2> QED BY <1>3, <1>6, <2>1, StackPut
<1>8. Top.top \in 0..Len(Vars)
  <2>1. Alone(prog, Top) /\ Holds(Top, Names(Vars)) /\ IsFrame(Top) /\ IsVars(Vars)
    BY LiveFacts
  <2>2. Top.top = Len(Top.scope) /\ Low(Top) = Len(Top.scope) /\ Top.op \in Carrier
    BY <1>1, <2>1 DEF Alone, Low, Carrier
  <2>3. Len(Names(Vars)) = Len(Vars) /\ Len(Vars) \in Nat /\ Top.top \in Nat
    BY <2>1, NamesFacts, FrameFields
  <2> QED BY <2>1, <2>2, <2>3 DEF Holds
<1>9. IsVars(cut) /\ AllValues(cut)
  BY <1>8, Bears, Cut, CutValues
<1> HIDE DEF cut
<1>10. AllValues(vs)
  BY <1>1, <1>2, <1>9, IteratedValues
<1> HIDE DEF vs
<1>11. VarsCarried(states')
  BY <1>1, <1>10, Bears, SetValues
<1>12. Ready(Last(frames'))
  BY <1>6, <1>7, NotReady
<1> QED BY <1>1, <1>7, <1>11, <1>12, Bears, BearsOn

\* and those of pipelines.
LEMMA ArgumentData ==
  ASSUME NEW arg \in Arguments
  PROVE  arg.n \in Int /\ arg.typ \in Operands /\ (arg.typ = "identifier" => arg.name \in Functions_)
<1> HIDE DEF Arguments, Operands
<1> QED BY ProgramAssumption

LEMMA OperandValue ==
  ASSUME Live, Bearing, NEW arg \in Arguments, arg.typ # "pipe", operand(arg).err = ""
  PROVE  IsValue(operand(arg).v)
<1> DEFINE r == operand(arg)
<1> SUFFICES IsValue(r.v)
  OBVIOUS
<1> HIDE DEF r
<1>0. r.err = ""
  BY DEF r
<1>1. arg.n \in Int /\ arg.typ \in {"dot", "int", "string", "nil", "field", "variable", "identifier"}
  BY ArgumentData DEF Operands
<1>2. ASSUME NEW x, IsValue(x), r = Ok(x) PROVE IsValue(r.v)
  BY <1>2, OkFacts
<1>3. CASE arg.typ = "dot"
  <2>1. r = Ok(Top.dot)
    BY <1>3 DEF operand, r
  <2> QED BY <1>2, <2>1, Bears
<1>4. CASE arg.typ \in {"int", "string"}
  <2>1. r = Ok(Value(arg.typ, arg.n))
    BY <1>4 DEF operand, r
  <2>2. IsValue(Value(arg.typ, arg.n))
    BY <1>1, ValueFacts
  <2> QED BY <1>2, <2>1, <2>2
<1>5. CASE arg.typ = "nil"
  <2>1. r = Ok(Invalid)
    BY <1>5 DEF operand, r
  <2> QED BY <1>2, <2>1, InvalidFacts
<1>6. CASE arg.typ = "field"
  <2>1. r = evalField(arg.name, FALSE, Top.dot)
    BY <1>6 DEF operand, r
  <2> QED BY <1>0, <2>1, Bears, FieldValue
<1>7. CASE arg.typ = "variable"
  <2> DEFINE k == IndexOf(Vars, arg.name)
  <2>1. r = IF k = 0 THEN [v |-> Invalid, err |-> "undefined"] ELSE Ok(Vars[k].v)
    BY <1>7 DEF operand, r
  <2>2. k # 0 => k \in DOMAIN Vars
    BY Bears, IndexOfFacts
  <2> HIDE DEF k
  <2>3. k # 0
    BY <1>0, <2>1
  <2>4. IsValue(Vars[k].v)
    BY <2>2, <2>3, Bears DEF AllValues
  <2> QED BY <1>2, <2>1, <2>3, <2>4
<1>8. CASE arg.typ = "identifier"
  <2>1. r = IF arg.name \in Variadic THEN Call(arg.name, <<>>) ELSE [v |-> Invalid, err |-> "args"]
    BY <1>8 DEF operand, r
  <2>2. arg.name \in Variadic
    BY <1>0, <2>1
  <2> DEFINE e == <<>>
  <2>3. AreValues(e) /\ r = Call(arg.name, e)
    BY <2>1, <2>2, NoValues
  <2> HIDE DEF e
  <2> QED BY <1>0, <2>2, <2>3, VariadicValue
<1> QED BY <1>1, <1>3, <1>4, <1>5, <1>6, <1>7, <1>8

\* The last frame goes on with a value, or is left for another.
LEMMA BecomeGiven ==
  ASSUME Live, Bearing, NEW rest, IsRecord(rest), Carried(rest), NEW v, IsValue(v), Become(Given(rest, v)),
         states' = states, out' = out
  PROVE  DataInv'
<1> DEFINE f == Given(rest, v)
<1>1. frames' = Append(Front(frames), f)
  BY DEF Become
<1>2. Carried(f) /\ Ready(f)
  BY GivenData
<1> HIDE DEF f
<1>3. Stack(frames') /\ Last(frames') = f
  BY <1>1, <1>2, Bears, StackFront, StackPut
<1> QED BY <1>2, <1>3, Bears, BearsOn

LEMMA PushBears ==
  ASSUME Live, Bearing, NEW f, Carried(f), NEW g, Carried(g), Ready(g), Push(f, g), states' = states, out' = out
  PROVE  DataInv'
<1>1. frames' = Front(frames) \o <<f, g>>
  BY DEF Push
<1>2. Stack(frames') /\ Last(frames') = g
  BY <1>1, Bears, StackPush
<1> QED BY <1>2, Bears, BearsOn

LEMMA CommandParts ==
  ASSUME NEW cmds \in Seq(Commands), cmds # <<>>
  PROVE  LET cmd == Head(cmds) IN
         /\ Tail(cmds) \in Seq(Commands) /\ cmd[1] \in Arguments /\ Tail(cmd) \in Seq(Arguments)
         /\ Len(cmd) \in Nat /\ (Len(cmd) > 1 => Tail(cmd) # <<>>)
<1> DEFINE cmd == Head(cmds)
<1> HIDE DEF Commands, Arguments
<1>1. cmd \in Commands /\ Tail(cmds) \in Seq(Commands)
  OBVIOUS
<1> HIDE DEF cmd
<1>2. cmd \in Seq(Arguments) /\ cmd # <<>>
  BY <1>1, ProgramAssumption
<1>3. cmd[1] \in Arguments /\ Tail(cmd) \in Seq(Arguments) /\ Len(cmd) \in Nat
  BY <1>2
<1>4. ASSUME Len(cmd) > 1 PROVE Tail(cmd) # <<>>
  <2> DEFINE t == Tail(cmd)
             e == <<>>
  <2>1. Len(t) = Len(cmd) - 1
    BY <1>2
  <2>2. Len(e) = 0
    BY EmptyFields
  <2> HIDE DEF t, e
  <2>3. t # e
    BY <1>3, <1>4, <2>1, <2>2
  <2> QED BY <2>3 DEF t, e
<1> QED BY <1>1, <1>3, <1>4 DEF cmd

LEMMA evalCommandBears ==
  ASSUME Live, Bearing, evalCommand
  PROVE  DataInv'
<1> DEFINE cmds == Tail(Top.cmds)
           cmd == Head(Top.cmds)
           first == cmd[1]
           hasArgs == Len(cmd) > 1 \/ Top.value # Missing
           numIn == Len(cmd) - (IF Top.value = Missing THEN 1 ELSE 0)
           arity == IF first.name \in {"and", "or"} THEN numIn > 0 ELSE first.name \in Variadic \/ numIn = 1
           rest == [Top EXCEPT !.cmds = cmds]
           g == Calling(Top.dot, first.name, Tail(cmd), Top.value)
           pl == Pipeline(Top.dot, first.pipe)
           Give(r) == r.err = "" /\ Become(Given(rest, r.v))
<1>1. Top.op = "pipeline" /\ Top.cmds # <<>>
  BY DEF evalCommand, Walking
<1>2. /\ first \in Arguments /\ Len(cmd) \in Nat
      /\ Len(cmd) > 1 => Tail(cmd) # <<>>
  BY <1>1, Bears, FrameFields, CommandParts
<1>3. \/ \E err : errorf(err)
      \/ /\ states' = states /\ out' = out
         /\ \/ first.typ = "identifier" /\ arity /\ Push(rest, g)
            \/ Push(rest, pl)
            \/ first.typ = "field" /\ Give(evalField(first.name, hasArgs, Top.dot))
            \/ first.typ \notin {"field", "pipe"} /\ Give(operand(first))
  BY DEF evalCommand, Calling
<1>4. SameData(Top, rest) /\ rest.op = Top.op /\ IsRecord(rest)
  <2>1. IsRecord(Top) /\ IsFrame(Top)
    BY Bears
  <2> HIDE DEF cmds
  <2>2. SameData(Top, rest) /\ rest.op = Top.op
    BY <2>1, OnwardData
  <2>3. IsRecord(rest)
    BY <2>1 DEF IsRecord
  <2> QED BY <2>2, <2>3
<1> HIDE DEF rest, cmds
<1>5. Carried(rest)
  BY <1>4, Bears, SameCarried
<1>6. ASSUME first.typ = "identifier", arity, Push(rest, g), states' = states, out' = out PROVE DataInv'
  <2>1. first.name \in Functions_
    BY <1>2, <1>6, ArgumentData
  <2>2. first.name \in Variadic \/ Tail(cmd) # <<>> \/ Top.value # Missing
    <3>1. CASE Top.value = Missing /\ first.name \notin Variadic
      <4>1. numIn = Len(cmd) - 1
        BY <3>1
      <4>2. numIn > 0 \/ numIn = 1
        BY <1>6, <3>1
      <4> HIDE DEF numIn, cmd, arity, first
      <4>3. Len(cmd) \in Nat
        BY <1>2
      <4>4. Len(cmd) > 1
        BY ONLY <4>1, <4>2, <4>3
      <4> QED BY <1>2, <4>4
    <3> QED BY <3>1
  <2> HIDE DEF first, cmd, arity
  <2>3. Carried(g) /\ Ready(g)
    <3> DEFINE dot == Top.dot
               name == first.name
               args == Tail(cmd)
               value == Top.value
    <3>1. IsValue(dot) /\ IsValue(value) /\ name \in Functions_ /\ (name \in Variadic \/ args # <<>> \/ value # Missing)
      BY <2>1, <2>2, Bears
    <3> HIDE DEF dot, name, args, value
    <3>2. Carried(Calling(dot, name, args, value)) /\ Ready(Calling(dot, name, args, value))
      BY <3>1, CallData
    <3> QED BY <3>2 DEF dot, name, args, value
  <2> HIDE DEF g
  <2> QED BY <1>5, <1>6, <2>3, PushBears
<1>7. ASSUME Push(rest, pl), states' = states, out' = out PROVE DataInv'
  <2>1. Carried(pl) /\ pl.op = "pipeline"
    BY Bears, PipelineData
  <2> HIDE DEF pl
  <2>2. Ready(pl)
    BY <2>1, NotReady
  <2> QED BY <1>5, <1>7, <2>1, <2>2, PushBears
<1>8. ASSUME first.typ = "field", Give(evalField(first.name, hasArgs, Top.dot)), states' = states, out' = out PROVE DataInv'
  <2>1. IsValue(evalField(first.name, hasArgs, Top.dot).v)
    <3> HIDE DEF first, hasArgs
    <3> QED BY <1>8, Bears, FieldValue
  <2> QED BY <1>4, <1>5, <1>8, <2>1, BecomeGiven
<1>9. ASSUME first.typ \notin {"field", "pipe"}, Give(operand(first)), states' = states, out' = out PROVE DataInv'
  <2>1. IsValue(operand(first).v)
    <3> HIDE DEF first
    <3> QED BY <1>2, <1>9, OperandValue
  <2> QED BY <1>4, <1>5, <1>9, <2>1, BecomeGiven
<1>10. CASE \E err : errorf(err)
  BY <1>10, BearsStill
<1> HIDE DEF Give, first, g, pl, arity
<1> QED BY <1>3, <1>6, <1>7, <1>8, <1>9, <1>10

LEMMA evalArgBears ==
  ASSUME Live, Bearing, evalArg
  PROVE  DataInv'
<1> DEFINE args == Tail(Top.args)
           arg == Head(Top.args)
           rest == [Top EXCEPT !.args = args]
           pl == Pipeline(Top.dot, arg.pipe)
           Give(r) == r.err = "" /\ Become(Given(rest, r.v))
<1>1. Top.op = "call" /\ Top.args # <<>>
  BY DEF evalArg, Walking
<1>2. arg \in Arguments
  <2> HIDE DEF Arguments
  <2>1. Top.args \in Seq(Arguments)
    BY Bears, FrameFields
  <2> QED BY <1>1, <2>1
<1>3. \/ \E err : errorf(err)
      \/ /\ states' = states /\ out' = out
         /\ \/ Push(rest, pl)
            \/ arg.typ # "pipe" /\ Give(operand(arg))
  BY DEF evalArg
<1>4. SameData(Top, rest) /\ rest.op = Top.op /\ IsRecord(rest)
  <2>1. IsRecord(Top)
    BY Bears
  <2> HIDE DEF args
  <2>2. SameData(Top, rest) /\ rest.op = Top.op
    BY <2>1, OnwardData
  <2>3. IsRecord(rest)
    BY <2>1 DEF IsRecord
  <2> QED BY <2>2, <2>3
<1> HIDE DEF rest, args, arg
<1>5. Carried(rest)
  BY <1>4, Bears, SameCarried
<1>6. ASSUME Push(rest, pl), states' = states, out' = out PROVE DataInv'
  <2>1. Carried(pl) /\ pl.op = "pipeline"
    BY Bears, PipelineData
  <2> HIDE DEF pl
  <2>2. Ready(pl)
    BY <2>1, NotReady
  <2> QED BY <1>5, <1>6, <2>1, <2>2, PushBears
<1>7. ASSUME arg.typ # "pipe", Give(operand(arg)), states' = states, out' = out PROVE DataInv'
  <2>1. IsValue(operand(arg).v)
    BY <1>2, <1>7, OperandValue
  <2> QED BY <1>4, <1>5, <1>7, <2>1, BecomeGiven
<1>8. CASE \E err : errorf(err)
  BY <1>8, BearsStill
<1> HIDE DEF Give, pl
<1> QED BY <1>3, <1>6, <1>7, <1>8

\* A call or pipeline is below the frame it returns to: a call below a pipeline.
LEMMA ReturnFacts ==
  ASSUME Live, Bearing, Top.op \in {"pipeline", "call"}
  PROVE  LET f == Last(Front(frames)) IN
         /\ Stack(Front(Front(frames))) /\ IsRecord(f) /\ Carried(f)
         /\ Top.op = "call" => f.op = "pipeline"
<1> DEFINE hs == Front(frames)
           f == Last(hs)
<1>1. /\ FramesInv(prog, frames) /\ VarsInv(frames, states) /\ Len(frames) \in Nat /\ Len(frames) > 0 /\ Top = Last(frames)
  BY LiveFacts DEF Top
<1>2. Len(frames) # 1
  BY <1>1, Below DEF Evaluating
<1>3. Len(frames) > 1
  BY ONLY <1>1, <1>2, OneOrMore
<1>4. FramesInv(prog, hs) /\ VarsInv(hs, states) /\ f = frames[Len(frames) - 1]
  BY <1>1, <1>3, PopTop
<1>5. Over(f, Top)
  BY <1>1, <1>3, <1>4, Below
<1>6. Stack(hs) /\ Len(hs) > 0
  <2>1. Stack(hs) /\ Len(hs) = Len(frames) - 1
    BY <1>1, Bears, StackFront
  <2> HIDE DEF hs
  <2> QED BY <1>1, <1>3, <2>1
<1> HIDE DEF hs
<1>7. IsFrame(f)
  BY <1>4, StackFacts
<1> HIDE DEF f
<1>8. IsRecord(f)
  BY <1>7, FrameFields
<1>9. Stack(Front(hs)) /\ Carried(f)
  BY <1>6, StackFront DEF f
<1>10. Top.op = "call" => f.op = "pipeline"
  BY <1>5 DEF Over
<1> QED BY <1>8, <1>9, <1>10 DEF f, hs

LEMMA ReturnBears ==
  ASSUME Live, Bearing, Top.op \in {"pipeline", "call"}, NEW v, IsValue(v), Return(v), VarsCarried(states'), out' = out
  PROVE  /\ DataInv'
         /\ Top.op = "call" => Last(frames').value = indirectInterface(v)
<1> DEFINE hs == Front(Front(frames))
           f == Last(Front(frames))
           g == Given(f, v)
<1>1. Stack(hs) /\ IsRecord(f) /\ Carried(f) /\ (Top.op = "call" => f.op = "pipeline")
  BY ReturnFacts
<1>2. frames' = Append(hs, g)
  BY DEF Return
<1> HIDE DEF hs, f
<1>3. Carried(g) /\ Ready(g) /\ (f.op = "pipeline" => g.value = indirectInterface(v))
  BY <1>1, GivenData
<1> HIDE DEF g
<1>4. Stack(frames') /\ Last(frames') = g
  BY <1>1, <1>2, <1>3, StackPut
<1>5. DataInv'
  BY <1>3, <1>4, Bears, BearsOn
<1> QED BY <1>1, <1>3, <1>4, <1>5

\* What a call is made with.
LEMMA PassedFacts ==
  ASSUME Live, Bearing, Top.op = "call", Top.args = <<>>
  PROVE  /\ AreValues(Passed) /\ Top.name \in Functions_
         /\ Top.name \notin Variadic => Len(Passed) > 0 /\ IsValue(Last(Passed))
<1> DEFINE list == Top.list
           value == Top.value
<1>1. AreValues(list) /\ IsValue(value) /\ Top.name \in Functions_
  BY Bears DEF Carried
<1>2. Top.name \notin Variadic => list # <<>> \/ value # Missing
  BY Bears DEF Ready
<1>3. Passed = IF value = Missing THEN list ELSE Append(list, value)
  BY DEF Passed
<1> HIDE DEF list, value
<1>4. AreValues(Append(list, value)) /\ Len(Append(list, value)) > 0 /\ IsValue(Last(Append(list, value)))
  BY <1>1, ListedValues
<1>5. ASSUME list # <<>> PROVE Len(list) > 0 /\ IsValue(Last(list))
  <2>1. IsSeq(list) /\ Len(list) \in Nat
    BY <1>1, SeqFacts DEF AreValues
  <2>2. Len(list) > 0
    BY <1>5, <2>1, SomeLength
  <2> QED BY <1>1, <2>1, <2>2 DEF AreValues, Last
<1>6. CASE value = Missing
  BY <1>1, <1>2, <1>3, <1>5, <1>6
<1>7. CASE value # Missing
  BY <1>1, <1>3, <1>4, <1>7
<1> QED BY <1>6, <1>7

LEMMA evalCallBears ==
  ASSUME Live, Bearing, evalCall
  PROVE  DataInv'
<1> DEFINE r == IF Top.name \in {"and", "or"} THEN Ok(Last(Passed)) ELSE Call(Top.name, Passed)
<1>1. Top.op = "call" /\ Top.args = <<>>
  BY DEF evalCall, Walking
<1>2. \/ \E err : errorf(err)
      \/ r.err = "" /\ Return(r.v) /\ states' = states /\ out' = out
  BY DEF evalCall
<1>3. /\ AreValues(Passed) /\ Top.name \in Functions_
      /\ Top.name \notin Variadic => Len(Passed) > 0 /\ IsValue(Last(Passed))
  BY <1>1, PassedFacts
<1>4. ASSUME r.err = "" PROVE IsValue(r.v)
  <2>1. CASE Top.name \in {"and", "or"}
    <3> DEFINE x == Last(Passed)
    <3>1. r = Ok(x) /\ Top.name \notin Variadic
      BY <2>1 DEF Variadic
    <3>2. IsValue(x)
      BY <1>3, <3>1
    <3> HIDE DEF x, r
    <3> QED BY <3>1, <3>2, OkFacts
  <2>2. CASE Top.name \notin {"and", "or"}
    <3>1. r = Call(Top.name, Passed) /\ Top.name \in Functions_ \ {"and", "or"}
      BY <1>3, <2>2
    <3>2. r.err = ""
      BY <1>4
    <3> HIDE DEF r
    <3> QED BY <1>3, <3>1, <3>2, CallValue
  <2> QED BY <2>1, <2>2
<1> HIDE DEF r
<1>5. CASE \E err : errorf(err)
  BY <1>5, BearsStill
<1>6. ASSUME r.err = "", Return(r.v), states' = states, out' = out PROVE DataInv'
  <2>1. IsValue(r.v) /\ Top.op \in {"pipeline", "call"} /\ VarsCarried(states')
    BY <1>1, <1>4, <1>6, Bears
  <2> QED BY <1>6, <2>1, ReturnBears
<1> QED BY <1>2, <1>5, <1>6

LEMMA AssignedValues ==
  ASSUME NEW vs, AllValues(vs), NEW places, NEW v, IsValue(v)
  PROVE  AllValues([i \in DOMAIN vs |-> IF i \in places THEN Variable(vs[i].name, v) ELSE vs[i]])
<1> DEFINE us == [i \in DOMAIN vs |-> IF i \in places THEN Variable(vs[i].name, v) ELSE vs[i]]
<1>1. DOMAIN us = DOMAIN vs /\ \A i \in DOMAIN vs : us[i] = IF i \in places THEN Variable(vs[i].name, v) ELSE vs[i]
  OBVIOUS
<1> HIDE DEF us
<1>2. ASSUME NEW i \in DOMAIN us PROVE IsValue(us[i].v)
  <2>1. CASE i \in places
    BY <1>1, <2>1, VariableFacts
  <2>2. CASE i \notin places
    BY <1>1, <2>2 DEF AllValues
  <2> QED BY <2>1, <2>2
<1> QED BY <1>2 DEF AllValues, us

LEMMA PushedValues ==
  ASSUME NEW vs, IsVars(vs), AllValues(vs), NEW decls \in Seq(STRING), NEW v, IsValue(v)
  PROVE  AllValues(vs \o [j \in DOMAIN decls |-> Variable(decls[j], v)])
<1> DEFINE ds == [j \in DOMAIN decls |-> Variable(decls[j], v)]
           us == vs \o ds
           n == Len(vs)
           m == Len(decls)
<1>1. IsSeq(vs) /\ n \in Nat /\ DOMAIN vs = 1..n
  BY NamesFacts DEF IsVars
<1>2. m \in Nat /\ DOMAIN decls = 1..m /\ IsSeq(decls)
  BY SeqIs
<1>3. DOMAIN ds = DOMAIN decls /\ ds = [j \in DOMAIN decls |-> ds[j]] /\ \A j \in DOMAIN decls : ds[j] = Variable(decls[j], v)
  OBVIOUS
<1> HIDE DEF ds
<1>4. IsSeq(ds) /\ Len(ds) = m
  BY <1>2, <1>3, Mapped
<1>5. IsSeq(us) /\ Len(us) = n + Len(ds) /\ (\A i \in 1..n : us[i] = vs[i]) /\ \A i \in 1..Len(ds) : us[n + i] = ds[i]
  BY ONLY <1>1, <1>4, Concatenated
<1>6. DOMAIN us = 1..Len(us)
  BY <1>5, SeqFacts
<1> HIDE DEF us, n, m
<1>7. ASSUME NEW i \in DOMAIN us PROVE IsValue(us[i].v)
  <2>1. CASE i \in 1..n
    BY <1>1, <1>5, <2>1 DEF AllValues
  <2>2. CASE i \notin 1..n
    <3>1. i \in 1..n + m
      BY <1>4, <1>5, <1>6
    <3>2. i - n \in 1..m /\ n + (i - n) = i
      BY <1>1, <1>2, <2>2, <3>1
    <3>3. us[i] = Variable(decls[i - n], v)
      BY <1>2, <1>3, <1>4, <1>5, <3>2
    <3> QED BY <3>3, VariableFacts
  <2> QED BY <2>1, <2>2
<1> QED BY <1>7 DEF AllValues, us, ds

LEMMA endPipelineBears ==
  ASSUME Live, Bearing, endPipeline
  PROVE  DataInv'
<1> DEFINE places == {IndexOf(Vars, Top.decls[j]) : j \in DOMAIN Top.decls}
           assigned == [i \in DOMAIN Vars |-> IF i \in places THEN Variable(Vars[i].name, Top.value) ELSE Vars[i]]
           pushed == Vars \o [j \in DOMAIN Top.decls |-> Variable(Top.decls[j], Top.value)]
           us == IF Top.isAssign THEN assigned ELSE pushed
<1>1. Top.op = "pipeline"
  BY DEF endPipeline, Walking
<1>2. \/ \E err : errorf(err)
      \/ states' = [states EXCEPT ![Len(states)] = us] /\ Return(Top.value) /\ out' = out
  BY DEF endPipeline, SetVars
<1> HIDE DEF places
<1>3. AllValues(us)
  <2>1. AllValues(assigned)
    BY Bears, AssignedValues
  <2>2. AllValues(pushed)
    BY Bears, FrameFields, PushedValues
  <2> HIDE DEF assigned, pushed
  <2> QED BY <2>1, <2>2
<1> HIDE DEF us
<1>4. CASE \E err : errorf(err)
  BY <1>4, BearsStill
<1>5. ASSUME states' = [states EXCEPT ![Len(states)] = us], Return(Top.value), out' = out PROVE DataInv'
  <2>1. VarsCarried(states') /\ Top.op \in {"pipeline", "call"} /\ IsValue(Top.value)
    BY <1>1, <1>3, <1>5, Bears, SetValues
  <2> QED BY <1>5, <2>1, ReturnBears
<1> QED BY <1>2, <1>4, <1>5

LEMMA DataInit == Init => DataInv
<1> SUFFICES ASSUME Init PROVE DataInv
  OBVIOUS
<1> DEFINE f == List(data, prog.main, <<"$">>)
           vs == <<Variable("$", data)>>
<1>1. out = Empty /\ frames = <<f>> /\ states = <<vs>> /\ data \in Parts
  BY DataAssumption DEF Init
<1>2. IsValue(data)
  BY <1>1, PartFacts
<1>3. Carried(f) /\ f.op = "list" /\ AllValues(vs)
  BY <1>2, ListData, OneVariable
<1> HIDE DEF f, vs
<1>4. IsSeq(frames) /\ Len(frames) = 1 /\ frames[1] = f /\ Last(frames) = f /\ DOMAIN states = {1} /\ states[1] = vs
  BY <1>1 DEF IsSeq, Last
<1>5. Stack(frames) /\ Ready(Last(frames)) /\ VarsCarried(states)
  BY <1>3, <1>4, NotReady DEF Stack, VarsCarried
<1>6. IsValue(out) /\ AreValues(out.args)
  <2>1. Empty.args = <<>>
    BY DEF Empty, Write
  <2> QED BY <1>1, <2>1, EmptyFacts, NoValues
<1> QED BY <1>5, <1>6 DEF DataInv, Bearing

LEMMA DataNext == Inv /\ DataInv /\ [Next \/ Done]_vars => DataInv'
<1> SUFFICES ASSUME Inv, DataInv, [Next \/ Done]_vars PROVE DataInv'
  OBVIOUS
<1>1. CASE UNCHANGED vars
  BY <1>1 DEF vars, DataInv, Bearing
<1>2. CASE Next
  <2>1. status = "running"
    BY <1>2 DEF Next, walkText, walkAction, walkIfOrWith, walkRange, oneIteration, leave, lookupTemplate, walkTemplate,
                return, EndList, Evaluate, evalCommand, evalArg, evalCall, endPipeline, AtNode, Walking
  <2>2. Live /\ Bearing
    BY <2>1 DEF Inv, Live, DataInv
  <2>3. CASE walkText \/ walkAction
    BY <2>2, <2>3, walkTextBears, walkActionBears
  <2>4. CASE walkIfOrWith("if") \/ walkIfOrWith("with")
    BY <2>2, <2>4, walkIfOrWithBears
  <2>5. CASE walkRange \/ oneIteration \/ leave
    BY <2>2, <2>5, walkRangeBears, oneIterationBears, leaveBears
  <2>6. CASE lookupTemplate \/ walkTemplate \/ return \/ EndList
    BY <2>2, <2>6, lookupTemplateBears, walkTemplateBears, returnBears, EndListBears
  <2>7. ASSUME NEW op \in {"action", "if", "with", "range"}, Evaluate(op) PROVE DataInv'
    BY <2>2, <2>7, EvaluateBears DEF Evaluating
  <2>8. CASE evalCommand \/ evalArg
    BY <2>2, <2>8, evalCommandBears, evalArgBears
  <2>9. CASE evalCall \/ endPipeline
    BY <2>2, <2>9, evalCallBears, endPipelineBears
  <2> QED BY <1>2, <2>3, <2>4, <2>5, <2>6, <2>7, <2>8, <2>9 DEF Next
<1>3. CASE Done
  BY <1>1, <1>3 DEF Done
<1> QED BY <1>1, <1>2, <1>3

LEMMA DataInvariant == Spec => []DataInv
<1> QED BY Invariant, DataInit, DataNext, PTL DEF Spec
-----------------------------------------------------------------------------
\* Every placeholder has its own parameter, at its own place, in what is written so far and in the
\* fragments among the parameters, for every program and every data (SqlWrite, sql_func.go): no
\* text is written without its parameter, and no parameter without its text.  A fragment that an
\* action prints is one parameter, a structure, with one placeholder (printableValue, exec.go): it
\* is not merged, as README.md:119-124 says it is.
THEOREM PlaceholdersMatched == Spec => []PlaceholdersMatch
<1>1. DataInv => PlaceholdersMatch
  <2> SUFFICES ASSUME DataInv PROVE PlaceholdersMatch
    OBVIOUS
  <2> DEFINE args == out.args
  <2>1. IsValue(out) /\ AreValues(args)
    BY DEF DataInv
  <2>2. Matched(out.text, out.args)
    BY <2>1 DEF IsValue
  <2> HIDE DEF args
  <2>3. DOMAIN args = 1..Len(args)
    BY <2>1, SeqFacts DEF AreValues
  <2>4. ASSUME NEW j \in DOMAIN args PROVE Matched(args[j].text, args[j].args)
    BY <2>1, <2>3, <2>4 DEF AreValues, IsValue
  <2> QED BY <2>2, <2>4 DEF PlaceholdersMatch, args
<1> QED BY <1>1, DataInvariant, PTL

\* The recursive function of InterpolateParams counts the placeholders, when no question mark is
\* part of the text.
Took(q, j, text) == q + (IF text[j].t \in {"?", "raw?"} THEN 1 ELSE 0)
Takes(p, n, text) == p = [j \in 0..n |-> IF j = 0 THEN 0 ELSE Took(p[j - 1], j, text)]

LEMMA MarksTook ==
  ASSUME NEW text, NEW n \in Nat, \A j \in 1..n : text[j].t # "raw?", NEW j \in 1..n
  PROVE  Marks(text, j) = Took(Marks(text, j - 1), j, text)
<1>1. j - 1 \in Nat /\ (j - 1) + 1 = j /\ text[j].t # "raw?"
  OBVIOUS
<1>2. /\ Marks(text, j - 1) \in Nat
      /\ text[(j - 1) + 1].t = "?" => Marks(text, (j - 1) + 1) = Marks(text, j - 1) + 1
      /\ text[(j - 1) + 1].t # "?" => Marks(text, (j - 1) + 1) = Marks(text, j - 1)
  BY ONLY <1>1, MarksNext
<1>3. /\ text[j].t = "?" => Marks(text, j) = Marks(text, j - 1) + 1
      /\ text[j].t # "?" => Marks(text, j) = Marks(text, j - 1)
  BY <1>1, <1>2
<1> DEFINE k == Marks(text, j - 1)
<1> SUFFICES Marks(text, j) = Took(k, j, text)
  OBVIOUS
<1>4. k \in Nat
  BY <1>2
<1> HIDE DEF k
<1>5. CASE text[j].t = "?"
  <2>1. Took(k, j, text) = k + 1
    BY <1>5 DEF Took
  <2> QED BY <2>1, <1>3, <1>5 DEF k
<1>6. CASE text[j].t # "?"
  <2>1. Took(k, j, text) = k + 0
    BY <1>1, <1>6 DEF Took
  <2>2. Marks(text, j) = k
    BY <1>3, <1>6 DEF k
  <2> QED BY <2>1, <2>2, <1>4
<1> QED BY <1>5, <1>6

LEMMA TakesExists ==
  ASSUME NEW text, NEW n \in Nat, \A j \in 1..n : text[j].t # "raw?"
  PROVE  \E p : Takes(p, n, text)
<1> DEFINE p == [j \in 0..n |-> Marks(text, j)]
           r(j) == IF j = 0 THEN 0 ELSE Took(p[j - 1], j, text)
<1>1. ASSUME NEW j \in 0..n PROVE Marks(text, j) = r(j)
  <2>1. CASE j = 0
    <3>1. Marks(text, 0) = 0
      BY MarksNext
    <3> QED BY <2>1, <3>1
  <2>2. CASE j # 0
    <3>1. j \in 1..n /\ j - 1 \in 0..n
      BY <2>2
    <3>2. Marks(text, j) = Took(Marks(text, j - 1), j, text)
      BY <3>1, MarksTook
    <3>3. p[j - 1] = Marks(text, j - 1)
      BY <3>1
    <3> HIDE DEF p
    <3> QED BY <2>2, <3>2, <3>3
  <2> QED BY <2>1, <2>2
<1> HIDE DEF r
<1>2. p = [j \in 0..n |-> r(j)]
  BY <1>1
<1> HIDE DEF p
<1>3. Takes(p, n, text)
  BY <1>2 DEF Takes, r
<1> QED BY <1>3

LEMMA TakesMarks ==
  ASSUME NEW text, NEW n \in Nat, \A j \in 1..n : text[j].t # "raw?", NEW p, Takes(p, n, text), NEW i \in 0..n
  PROVE  p[i] = Marks(text, i)
<1>1. p[0] = 0 /\ \A j \in 1..n : p[j] = Took(p[j - 1], j, text)
  <2>1. 0 \in 0..n /\ \A j \in 1..n : j \in 0..n /\ j # 0
    OBVIOUS
  <2>2. \A j \in 0..n : p[j] = IF j = 0 THEN 0 ELSE Took(p[j - 1], j, text)
    BY DEF Takes
  <2> QED BY <2>1, <2>2
<1> DEFINE S == {j \in 0..n : p[j] # Marks(text, j)}
<1>2. SUFFICES ASSUME S # {} PROVE FALSE
  OBVIOUS
<1>3. PICK j \in S : \A y \in S : j <= y
  <2>1. S \subseteq Nat
    OBVIOUS
  <2> HIDE DEF S
  <2> QED BY <1>2, <2>1, LeastNat
<1>4. j \in 0..n /\ p[j] # Marks(text, j)
  BY <1>3
<1>5. Marks(text, 0) = 0
  BY MarksNext
<1>6. j \in 1..n /\ j - 1 \in 0..n /\ ~(j <= j - 1)
  BY <1>1, <1>4, <1>5
<1>7. j - 1 \notin S
  <2> HIDE DEF S
  <2> QED BY <1>3, <1>6
<1>8. p[j - 1] = Marks(text, j - 1)
  BY <1>6, <1>7
<1>9. Marks(text, j) = Took(Marks(text, j - 1), j, text)
  BY <1>6, MarksTook
<1> QED BY <1>1, <1>4, <1>6, <1>8, <1>9

\* InterpolateParams by the count of the placeholders, when no question mark is part of the text.
LEMMA Counted ==
  ASSUME NEW w, IsSeq(w.text), \A j \in DOMAIN w.text : w.text[j].t # "raw?"
  PROVE  InterpolateParams(w) =
           IF w.args = <<>> THEN w.text
           ELSE IF Marks(w.text, Len(w.text)) > Len(w.args) THEN <<Text("panic")>>
           ELSE [k \in DOMAIN w.text |-> IF w.text[k].t \in {"?", "raw?"}
                                         THEN [t |-> "literal", of |-> w.args[Marks(w.text, k)]] ELSE w.text[k]]
<1> DEFINE text == w.text
           n == Len(text)
           p == CHOOSE p : Takes(p, n, text)
<1>1. n \in Nat /\ DOMAIN text = 1..n
  BY SeqFacts
<1>2. InterpolateParams(w) =
        IF w.args = <<>> THEN text
        ELSE IF p[n] > Len(w.args) THEN <<Text("panic")>>
        ELSE [k \in DOMAIN text |-> IF text[k].t \in {"?", "raw?"}
                                    THEN [t |-> "literal", of |-> w.args[p[k]]] ELSE text[k]]
  BY DEF InterpolateParams, Takes, Took
<1> HIDE DEF p, n, text
<1>3. \A k \in 0..n : p[k] = Marks(text, k)
  <2>1. \A j \in 1..n : text[j].t # "raw?"
    BY <1>1 DEF text
  <2>2. Takes(p, n, text)
    BY <1>1, <2>1, TakesExists DEF p
  <2> QED BY <1>1, <2>1, <2>2, TakesMarks
<1>4. p[n] = Marks(text, n) /\ \A k \in DOMAIN text : p[k] = Marks(text, k)
  BY <1>1, <1>3
<1> DEFINE f(c) == [t |-> "literal", of |-> w.args[c]]
<1>5. [k \in DOMAIN text |-> IF text[k].t \in {"?", "raw?"} THEN f(p[k]) ELSE text[k]]
      = [k \in DOMAIN text |-> IF text[k].t \in {"?", "raw?"} THEN f(Marks(text, k)) ELSE text[k]]
  <2> HIDE DEF f
  <2> QED BY <1>4
<1> QED BY <1>2, <1>4, <1>5 DEF text, n

\* A statement that is not prepared shows every parameter at the place of its placeholder, for
\* every program and every data, unless the template itself holds a question mark
\* (InterpolateParams).
THEOREM Interpolated == Spec => []InterpolatedInPlace
<1>1. ASSUME NEW w, IsValue(w), \A j \in DOMAIN w.text : w.text[j].t # "raw?", NEW j \in DOMAIN w.text
      PROVE  InterpolateParams(w)[j] =
               IF w.text[j].t = "?" THEN [t |-> "literal", of |-> w.text[j].of] ELSE w.text[j]
  <2> DEFINE text == w.text
             args == w.args
             r == InterpolateParams(w)
             n == Marks(text, Len(text))
  <2> SUFFICES r[j] = IF text[j].t = "?" THEN [t |-> "literal", of |-> text[j].of] ELSE text[j]
    OBVIOUS
  <2>1. IsSeq(text) /\ IsSeq(args) /\ Matched(text, args)
    BY <1>1 DEF IsValue
  <2>2. Len(text) \in Nat /\ DOMAIN text = 1..Len(text) /\ Len(args) \in Nat
    BY <2>1, SeqFacts
  <2>3. r = IF args = <<>> THEN text
            ELSE IF n > Len(args) THEN <<Text("panic")>>
            ELSE [k \in DOMAIN text |-> IF text[k].t \in {"?", "raw?"}
                                         THEN [t |-> "literal", of |-> args[Marks(text, k)]] ELSE text[k]]
    BY <1>1, <2>1, Counted
  <2>4. Len(args) = n /\ (text[j].t = "?" => text[j].of = args[Marks(text, j)]) /\ text[j].t # "raw?"
    BY <1>1, <2>1 DEF Matched
  <2>5. text[j].t = "?" => Marks(text, j) \in 1..n
    BY <2>2, MarkCounts
  <2>6. j \in DOMAIN text
    OBVIOUS
  <2> HIDE DEF text, args, r, n
  <2>7. CASE args = <<>>
    <3>1. Len(args) = 0
      BY <2>7
    <3>2. text[j].t # "?"
      BY <2>4, <2>5, <3>1
    <3>3. r = text
      BY <2>3, <2>7
    <3> QED BY <3>2, <3>3
  <2>8. CASE args # <<>>
    <3>1. ~(n > Len(args))
      BY <2>2, <2>4
    <3>2. r[j] = IF text[j].t \in {"?", "raw?"} THEN [t |-> "literal", of |-> args[Marks(text, j)]] ELSE text[j]
      BY <2>3, <2>6, <2>8, <3>1
    <3> QED BY <2>4, <3>2
  <2> QED BY <2>7, <2>8
<1>2. DataInv => InterpolatedInPlace
  <2>1. DataInv => IsValue(out)
    BY DEF DataInv
  <2> QED BY <1>1, <2>1 DEF InterpolatedInPlace
<1> QED BY <1>2, DataInvariant, PTL

\* A call with nothing left to evaluate is made as the next step.
LEMMA CallStep ==
  ASSUME Inv, DataInv, Next, Walking("call"), Top.args = <<>>
  PROVE  Live /\ Bearing /\ evalCall
<1>1. status = "running" /\ Top.op = "call"
  BY DEF Walking
<1>2. ~walkText /\ ~walkAction /\ ~walkIfOrWith("if") /\ ~walkIfOrWith("with") /\ ~walkRange
  BY <1>1 DEF walkText, walkAction, walkIfOrWith, walkRange, AtNode, Walking
<1>3. ~leave /\ ~lookupTemplate /\ ~walkTemplate /\ ~return /\ ~EndList /\ ~oneIteration
  BY <1>1 DEF leave, lookupTemplate, walkTemplate, return, EndList, oneIteration, AtNode, Walking
<1>4. \A op \in {"action", "if", "with", "range"} : ~Evaluate(op)
  BY <1>1 DEF Evaluate, AtNode, Walking
<1>5. ~evalCommand /\ ~evalArg /\ ~endPipeline
  BY <1>1 DEF evalCommand, evalArg, endPipeline, Walking
<1> QED BY <1>1, <1>2, <1>3, <1>4, <1>5 DEF Next, Inv, Live, DataInv

\* A function given items that are not nil, and no fragment that is empty or odd, puts one separator
\* between any two of the placeholders it writes, for every program and every data, whatever lists
\* are spread, fields left out and fragments merged (params, marshal, inParameter, setParameter,
\* whereParameter).
THEOREM FragmentsSeparated == Spec => SeparatorsAlternate
<1> DEFINE Alternating ==
      Walking("call") /\ Top.args = <<>> /\ Top.name \in Variadic /\ status' = "running"
        /\ (\A j \in DOMAIN Passed : Item(Passed[j]) /\ \A k \in DOMAIN Passed[j].elems : Item(Passed[j].elems[k].v))
      => Alternates(Top'.value.text)
<1>1. Inv /\ DataInv /\ [Next \/ Done]_vars => [Alternating]_vars
  <2> SUFFICES ASSUME Inv, DataInv, Next \/ Done, Walking("call"), Top.args = <<>>, Top.name \in Variadic, status' = "running",
                      \A j \in DOMAIN Passed : Item(Passed[j]) /\ \A k \in DOMAIN Passed[j].elems : Item(Passed[j].elems[k].v)
               PROVE  Alternates(Top'.value.text)
    OBVIOUS
  <2>1. Next
    BY DEF Done, Walking
  <2>2. Live /\ Bearing /\ evalCall /\ Top.op = "call" /\ status = "running"
    BY <2>1, CallStep DEF Walking
  <2> DEFINE list == Passed
             r == Call(Top.name, list)
             v == r.v
  <2>3. AreValues(list)
    BY <2>2, PassedFacts
  <2>4. Top.name \notin {"and", "or"}
    BY DEF Variadic
  <2>5. \/ r.err # "" /\ status' = r.err
        \/ r.err = "" /\ Return(v) /\ states' = states /\ out' = out
    BY <2>2, <2>4 DEF evalCall, errorf
  <2>6. ASSUME r.err # "", status' = r.err PROVE FALSE
    <3>1. r.err = "call"
      BY <2>6 DEF Call, params, marshal, inParameter, setParameter, whereParameter, Pairs, Ok, Failed, Variadic
    <3> QED BY <2>6, <3>1
  <2>7. r.err = "" /\ Return(v) /\ states' = states /\ out' = out
    BY <2>5, <2>6
  <2> HIDE DEF list
  <2>8. \A j \in 1..Len(list) : Item(list[j]) /\ \A k \in DOMAIN list[j].elems : Item(list[j].elems[k].v)
    <3>1. DOMAIN list = 1..Len(list)
      BY <2>3, SeqFacts DEF AreValues
    <3> QED BY <3>1 DEF list
  <2>9. Alternates(v.text) /\ IsValue(v)
    BY <2>3, <2>7, <2>8, CallAlternates, VariadicValue
  <2> HIDE DEF v, r
  <2>10. Top'.value = indirectInterface(v)
    <3>1. VarsCarried(states')
      BY <2>2, <2>7, Bears
    <3>2. Last(frames').value = indirectInterface(v)
      BY <2>2, <2>7, <2>9, <3>1, ReturnBears
    <3> QED BY <3>2 DEF Top, Last
  <2>11. indirectInterface(v).text = v.text
    BY <2>9, UnboxedFacts
  <2> QED BY <2>9, <2>10, <2>11
<1> HIDE DEF Alternating
<1>2. Spec => [][Alternating]_vars
  BY <1>1, Invariant, DataInvariant, PTL DEF Spec
<1> QED BY <1>2 DEF SeparatorsAlternate, Alternating
=============================================================================
