---------------------------- MODULE ParserProof ----------------------------
(***************************************************************************)
(* The token buffers and the calls of the parser, how a text that is       *)
(* accepted is closed and what is in scope in it, for texts of any length. *)
(***************************************************************************)
EXTENDS Parser, TLAPS, FiniteSetTheorems, NaturalsInduction, WellFoundedInduction

-----------------------------------------------------------------------------
Name == STRING \cup {"", "definition"}
Item == [typ : ItemType, name : Name, at : Nat]
RetRec == [kind : {"node", "blank", "end", "else"}, exec : BOOLEAN]
IsSeq(s) == s \in Seq({s[i] : i \in DOMAIN s})
TreeRec(t) == [name : Name, vars : {t.vars}, token : [1..3 -> Item], peekCount : 0..3, empty : BOOLEAN]
IsTree(t) == t \in TreeRec(t) /\ IsSeq(t.vars)

\* The functions that call one another, each by the places where it goes on.
Root == {"parse", "parseDelim", "parsed"}
Tree == {"defineName", "defineDelim", "treeList"}
List == {"list", "listed"}
NodeOp == {"textOrAction", "action", "done", "end", "else", "templateName", "templateArg", "blockPipe", "treeList",
           "control", "controlPipe", "controlList", "controlElse", "controlEnd"}
Pipe == {"decl", "declAfter", "declNext", "declSecond", "pipe", "piped"}
Command == {"operand", "chain", "argEnd"}
Family == {Root, Tree, List, NodeOp, Pipe, Command}
Op == Root \cup Tree \cup List \cup NodeOp \cup Pipe \cup Command
Context == {"", "root", "command", "template", "block", "paren"} \cup Control
FrameRec == [op : Op, ctx : Context, name : Name, mark : Nat, v : Item, after : Item,
             decls : Nat, n : Nat, exec : BOOLEAN, literal : BOOLEAN]
\* Who is called by a function that goes on at op.
Calls(op, callee) ==
  \/ op = "parse" /\ callee \in Tree
  \/ op \in {"parsed", "listed", "controlEnd"} /\ callee \in NodeOp
  \/ op \in {"treeList", "controlList", "controlElse"} /\ callee \in List
  \/ op \in {"controlPipe", "done", "blockPipe", "chain"} /\ callee \in Pipe
  \/ op = "piped" /\ callee \in Command
StackInv(s) ==
  /\ s \in Seq(FrameRec) /\ s # <<>>
  /\ \A i \in DOMAIN s : s[i].op \in Root <=> i = 1
  /\ \A i \in 2..Len(s) : Calls(s[i - 1].op, s[i].op)
TreesIn(s) == Cardinality({i \in 1..Len(s) : s[i].op \in Tree})
\* An item as the lexer gives it.
Given(x) == \/ x.at \in DOMAIN input /\ x.typ = input[x.at].typ /\ x.name = input[x.at].name
            \/ x.at = Len(input) + 1 /\ x.typ \in {"eof", "error"}
\* Tokens used, held (0 for none) and pending: the n first of tok, with r items given.
Tokens(used, held, tok, n, r) ==
  /\ used \in Seq(Nat) /\ held \in Nat /\ r \in 0..Len(input)
  /\ \A i \in DOMAIN used : used[i] \in 1..r /\ ~IsSpace(used[i])
  /\ \A i, j \in DOMAIN used : i < j => used[i] < used[j]
  /\ held # 0 => held \in 1..r /\ ~IsSpace(held) /\ \A i \in DOMAIN used : used[i] < held
  /\ \A k \in 1..n : Given(tok[k]) /\ held < tok[k].at /\ \A i \in DOMAIN used : used[i] < tok[k].at
  /\ n > 0 => tok[1].at = r \/ (tok[1].at = Len(input) + 1 /\ r = Len(input))
  /\ \A k \in 2..n : /\ tok[k].at < tok[k - 1].at
                     /\ tok[k - 1].at = tok[k].at + 1 \/ tok[k].typ = "left"
  /\ \A p \in 1..r : ~IsSpace(p) => \/ \E i \in DOMAIN used : used[i] = p
                                    \/ held = p
                                    \/ \E k \in 1..n : tok[k].at = p
HeldAt(f) == IF f.op \in {"parseDelim", "declAfter", "declNext"} THEN f.v.at ELSE 0

\* How much may be pending where.
Ended == {"parsed", "listed", "treeList", "controlList", "controlElse", "controlEnd"}
Buffer(op, kind, n, tok) ==
  /\ n > 1 => \/ op = "textOrAction" /\ n = 2 /\ tok[2].typ = "left"
              \/ op \in {"pipe", "operand"} /\ tok[n].typ = "variable" /\ (n = 3 => tok[2].typ = "space")
              \/ op \in {"chain", "argEnd"} /\ n = 2 /\ tok[2].typ = "space"
  /\ op \in {"parseDelim", "declAfter", "blockPipe"} => n = 0
  /\ op \in Ended /\ kind = "end" => n = 0
\* The token after a variable decides whether it is declared.
Waits(f, n, tok, r) ==
  /\ f.op = "parseDelim" => f.v.typ = "left" /\ Given(f.v)
  /\ f.op = "declAfter" => f.v.typ = "variable" /\ f.v.at = r /\ Given(f.v)
  /\ f.op = "declNext" => /\ f.v.typ = "variable" /\ f.after.at = f.v.at + 1 /\ Given(f.v) /\ Given(f.after)
                          /\ \/ n = 1 /\ tok[1] = f.after
                             \/ n = 0 /\ f.after.typ = "space" /\ r = f.after.at
\* A parse at work: the calls, the trees and the tokens.
TreesInv(s, ts) ==
  /\ IsSeq(ts) /\ Len(ts) = TreesIn(s) + 1
  /\ \A i \in DOMAIN ts : IsTree(ts[i])
  /\ \A i \in 1..Len(ts) - 1 : ts[i].peekCount = 0
TokensInv(f, kind, used, tok, n, r) ==
  Tokens(used, HeldAt(f), tok, n, r) /\ Buffer(f.op, kind, n, tok) /\ Waits(f, n, tok, r)
Good(s, ts, rt, used, r) ==
  StackInv(s) /\ TreesInv(s, ts) /\ TokensInv(Last(s), rt.kind, used, Last(ts).token, Last(ts).peekCount, r)
Inv == /\ input \in Input /\ ret \in RetRec
       /\ status = "parsing" => Good(stack, trees, ret, taken, read)

-----------------------------------------------------------------------------
\* The trees of a stack are counted call by call.
Among(s, k) == Cardinality({i \in 1..k : s[i].op \in Tree})

LEMMA AmongNext ==
  ASSUME NEW s, NEW k \in Nat
  PROVE  /\ Among(s, 0) = 0
         /\ Among(s, k) \in Nat
         /\ s[k + 1].op \in Tree => Among(s, k + 1) = Among(s, k) + 1
         /\ s[k + 1].op \notin Tree => Among(s, k + 1) = Among(s, k)
<1> DEFINE C(n) == {i \in 1..n : s[i].op \in Tree}
<1>0. Among(s, 0) = Cardinality(C(0)) /\ Among(s, k) = Cardinality(C(k)) /\ Among(s, k + 1) = Cardinality(C(k + 1))
  BY DEF Among
<1>1. C(0) = {}
  OBVIOUS
<1>2. IsFiniteSet(1..k)
  BY FS_Interval
<1>3. IsFiniteSet(C(k)) /\ k + 1 \notin C(k)
  BY <1>2, FS_Subset
<1>4. Cardinality(C(k)) \in Nat
  BY <1>3, FS_CardinalityType
<1>5. CASE s[k + 1].op \in Tree
  <2>1. C(k + 1) = C(k) \cup {k + 1}
    BY <1>5
  <2> HIDE DEF C
  <2>2. Cardinality(C(k + 1)) = Cardinality(C(k)) + 1
    BY <1>3, <2>1, FS_AddElement
  <2> QED BY <1>0, <1>1, <1>4, <1>5, <2>2, FS_EmptySet
<1>6. CASE s[k + 1].op \notin Tree
  <2>1. C(k + 1) = C(k)
    BY <1>6
  <2> HIDE DEF C
  <2> QED BY <1>0, <1>1, <1>4, <1>6, <2>1, FS_EmptySet
<1> QED
  BY <1>5, <1>6

LEMMA AmongSame ==
  ASSUME NEW s, NEW u, NEW k \in Nat, \A i \in 1..k : s[i] = u[i]
  PROVE  Among(s, k) = Among(u, k)
<1>1. {i \in 1..k : s[i].op \in Tree} = {i \in 1..k : u[i].op \in Tree}
  OBVIOUS
<1> QED
  BY <1>1 DEF Among

\* The top of the stack, and what the stack is without it.
LEMMA TopFacts ==
  ASSUME NEW s, StackInv(s)
  PROVE  /\ Len(s) \in Nat /\ Len(s) > 0 /\ DOMAIN s = 1..Len(s) /\ Last(s) = s[Len(s)]
         /\ Last(s) \in FrameRec
         /\ Len(s) = 1 <=> Last(s).op \in Root
         /\ TreesIn(s) \in Nat
<1>1. s \in Seq(FrameRec) /\ s # <<>>
  BY DEF StackInv
<1>2. Len(s) \in Nat /\ Len(s) > 0 /\ DOMAIN s = 1..Len(s) /\ s[Len(s)] \in FrameRec
  BY <1>1
<1>3. Len(s) = 1 <=> s[Len(s)].op \in Root
  BY <1>2 DEF StackInv
<1>4. TreesIn(s) \in Nat
  <2>1. TreesIn(s) = Among(s, Len(s))
    BY DEF TreesIn, Among
  <2> QED BY <1>2, <2>1, AmongNext
<1> QED
  BY <1>2, <1>3, <1>4 DEF Last

LEMMA Push ==
  ASSUME NEW s, StackInv(s), NEW f \in FrameRec, Calls(Last(s).op, f.op)
  PROVE  LET t == Append(s, f) IN
         /\ StackInv(t) /\ Last(t) = f
         /\ f.op \in Tree => TreesIn(t) = TreesIn(s) + 1
         /\ f.op \notin Tree => TreesIn(t) = TreesIn(s)
<1> DEFINE t == Append(s, f)
           n == Len(s)
<1>1. n \in Nat /\ n > 0 /\ DOMAIN s = 1..n /\ Last(s) = s[n] /\ s \in Seq(FrameRec)
  BY TopFacts DEF StackInv
<1>2. t \in Seq(FrameRec) /\ t # <<>> /\ Len(t) = n + 1 /\ t[n + 1] = f /\ \A i \in 1..n : t[i] = s[i]
  BY <1>1
<1>3. f.op \notin Root
  BY DEF Calls, Root, Tree, NodeOp, List, Pipe, Command
<1> HIDE DEF t, n
<1>4. \A i \in 1..n + 1 : t[i].op \in Root <=> i = 1
  <2>1. \A i \in 1..n : s[i].op \in Root <=> i = 1
    BY <1>1 DEF StackInv
  <2> QED BY <1>1, <1>2, <1>3, <2>1
<1>5. \A i \in 2..n + 1 : Calls(t[i - 1].op, t[i].op)
  <2>1. \A i \in 2..n : Calls(s[i - 1].op, s[i].op)
    BY DEF StackInv, n
  <2>2. \A i \in 2..n : t[i] = s[i] /\ t[i - 1] = s[i - 1]
    BY <1>1, <1>2
  <2>3. Calls(t[n].op, t[n + 1].op)
    BY <1>1, <1>2
  <2> TAKE i \in 2..n + 1
  <2>4. CASE i = n + 1
    <3>1. i - 1 = n
      BY <1>1, <2>4
    <3> QED BY <2>3, <2>4, <3>1
  <2>5. CASE i \in 2..n
    BY <2>1, <2>2, <2>5
  <2> QED BY <1>1, <2>4, <2>5
<1>6. StackInv(t) /\ Last(t) = f
  <2>1. DOMAIN t = 1..n + 1
    BY <1>2
  <2> QED BY <1>2, <1>4, <1>5, <2>1 DEF StackInv, Last
<1>7. Among(t, n) = Among(s, n)
  BY <1>1, <1>2, AmongSame
<1>8. TreesIn(t) = Among(t, n + 1) /\ TreesIn(s) = Among(s, n)
  BY <1>2 DEF TreesIn, Among, n
<1>9. /\ t[n + 1].op \in Tree => Among(t, n + 1) = Among(t, n) + 1
      /\ t[n + 1].op \notin Tree => Among(t, n + 1) = Among(t, n)
  BY <1>1, AmongNext
<1>10. /\ f.op \in Tree => TreesIn(t) = TreesIn(s) + 1
       /\ f.op \notin Tree => TreesIn(t) = TreesIn(s)
  BY <1>2, <1>7, <1>8, <1>9
<1> QED
  BY <1>6, <1>10 DEF t

LEMMA Popped ==
  ASSUME NEW s, StackInv(s), Last(s).op \notin Root
  PROVE  LET t == Front(s) IN
         /\ StackInv(t) /\ Calls(Last(t).op, Last(s).op)
         /\ Last(s).op \in Tree => TreesIn(t) = TreesIn(s) - 1
         /\ Last(s).op \notin Tree => TreesIn(t) = TreesIn(s)
<1> DEFINE t == Front(s)
           n == Len(s) - 1
<1>1. Len(s) \in Nat /\ n > 0 /\ DOMAIN s = 1..Len(s) /\ Last(s) = s[n + 1] /\ s \in Seq(FrameRec)
  BY TopFacts DEF StackInv
<1>2. t \in Seq(FrameRec) /\ Len(t) = n /\ DOMAIN t = 1..n /\ n \in Nat /\ t # <<>> /\ \A i \in 1..n : t[i] = s[i]
  <2>1. t = SubSeq(s, 1, n) /\ n \in Nat /\ n <= Len(s)
    BY <1>1 DEF Front
  <2> HIDE DEF t, n
  <2>2. t \in Seq(FrameRec) /\ Len(t) = n /\ \A i \in 1..n : t[i] = s[i]
    BY <1>1, <2>1
  <2>3. DOMAIN t = 1..n /\ t # <<>>
    BY <1>1, <2>2
  <2> QED BY <2>1, <2>2, <2>3
<1>3. \A i \in 1..n : s[i].op \in Root <=> i = 1
  BY <1>1 DEF StackInv
<1>4. \A i \in 2..n + 1 : Calls(s[i - 1].op, s[i].op)
  BY <1>1 DEF StackInv
<1>5. TreesIn(t) = Among(t, Len(t)) /\ TreesIn(s) = Among(s, n + 1)
  BY <1>1 DEF TreesIn, Among
<1>6. Last(t) = t[Len(t)]
  BY DEF Last
<1> HIDE DEF t, n
<1>7. StackInv(t)
  <2>1. \A i \in 2..n : t[i - 1] = s[i - 1] /\ t[i] = s[i]
    BY <1>2
  <2>2. \A i \in 2..n : Calls(t[i - 1].op, t[i].op)
    BY <1>2, <1>4, <2>1
  <2> QED BY <1>2, <1>3, <2>2 DEF StackInv
<1>8. Calls(Last(t).op, Last(s).op)
  <2>1. n + 1 \in 2..n + 1 /\ n + 1 - 1 = n /\ t[n] = s[n]
    BY <1>1, <1>2
  <2> QED BY <1>1, <1>2, <1>4, <1>6, <2>1
<1>9. Among(t, n) = Among(s, n) /\ Among(s, n) \in Nat
  BY <1>2, AmongSame, AmongNext
<1>10. /\ s[n + 1].op \in Tree => Among(s, n + 1) = Among(s, n) + 1
       /\ s[n + 1].op \notin Tree => Among(s, n + 1) = Among(s, n)
  BY <1>2, AmongNext
<1> QED
  BY <1>1, <1>2, <1>5, <1>7, <1>8, <1>9, <1>10 DEF t

\* A function stays in its family.
Kin(op, next_) == \A F \in Family : op \in F => next_ \in F

LEMMA KinCalls ==
  ASSUME NEW op, NEW a, NEW b, Calls(op, a), Kin(a, b)
  PROVE  Calls(op, b)
BY DEF Kin, Family, Calls

\* The function at the top goes on at another place.
LEMMA Replaced ==
  ASSUME NEW s, StackInv(s), NEW f \in FrameRec, Kin(Last(s).op, f.op)
  PROVE  LET t == Append(Front(s), f) IN
         /\ StackInv(t) /\ Last(t) = f
         /\ (Last(s).op \in Tree <=> f.op \in Tree) => TreesIn(t) = TreesIn(s)
         /\ Last(s).op \notin Tree /\ f.op \in Tree => TreesIn(t) = TreesIn(s) + 1
<1> DEFINE t == Append(Front(s), f)
<1>1. TreesIn(s) \in Nat /\ Len(s) \in Nat /\ Len(s) > 0 /\ DOMAIN s = 1..Len(s) /\ s \in Seq(FrameRec)
  BY TopFacts DEF StackInv
<1>2. CASE Last(s).op \notin Root
  <2>1. StackInv(Front(s)) /\ Calls(Last(Front(s)).op, Last(s).op)
    BY <1>2, Popped
  <2>2. Calls(Last(Front(s)).op, f.op)
    BY <2>1, KinCalls
  <2>3. /\ StackInv(t) /\ Last(t) = f
        /\ f.op \in Tree => TreesIn(t) = TreesIn(Front(s)) + 1
        /\ f.op \notin Tree => TreesIn(t) = TreesIn(Front(s))
    BY <2>1, <2>2, Push
  <2>4. /\ Last(s).op \in Tree => TreesIn(Front(s)) = TreesIn(s) - 1
        /\ Last(s).op \notin Tree => TreesIn(Front(s)) = TreesIn(s)
    BY <1>2, Popped
  <2> HIDE DEF t
  <2>5. /\ (Last(s).op \in Tree <=> f.op \in Tree) => TreesIn(t) = TreesIn(s)
        /\ Last(s).op \notin Tree /\ f.op \in Tree => TreesIn(t) = TreesIn(s) + 1
    BY <1>1, <2>3, <2>4
  <2> QED BY <2>3, <2>5 DEF t
<1>3. CASE Last(s).op \in Root
  <2>1. f.op \in Root /\ f.op \notin Tree /\ Last(s).op \notin Tree
    BY <1>3 DEF Kin, Family, Root, Tree
  <2>2. Len(s) = 1
    BY <1>3, TopFacts
  <2>3. Front(s) = <<>>
    BY <1>1, <2>2 DEF Front
  <2>4. t = <<f>>
    BY <2>3
  <2>5. t \in Seq(FrameRec) /\ t # <<>> /\ Len(t) = 1 /\ t[1] = f /\ DOMAIN t = 1..1
    BY <2>4
  <2> HIDE DEF t
  <2>6. StackInv(t) /\ Last(t) = f
    <3>1. \A i \in DOMAIN t : t[i].op \in Root <=> i = 1
      BY <2>1, <2>5
    <3>2. 2..Len(t) = {}
      BY <2>5
    <3> QED BY <2>5, <3>1, <3>2 DEF StackInv, Last
  <2>7. TreesIn(t) = TreesIn(s)
    <3>1. TreesIn(t) = Among(t, 1) /\ TreesIn(s) = Among(s, 1)
      BY <2>2, <2>5 DEF TreesIn, Among
    <3>2. Among(t, 0) = 0 /\ Among(s, 0) = 0
      BY AmongNext
    <3>3. t[0 + 1].op \notin Tree /\ s[0 + 1].op \notin Tree
      BY <2>1, <2>2, <2>5 DEF Last
    <3>4. Among(t, 0 + 1) = Among(t, 0) /\ Among(s, 0 + 1) = Among(s, 0)
      BY <3>3, AmongNext
    <3> QED BY <3>1, <3>2, <3>4
  <2> QED BY <2>1, <2>6, <2>7 DEF t
<1> QED
  BY <1>2, <1>3

-----------------------------------------------------------------------------
\* Tokens: what holding, using and dropping them do.
LEMMA Ats ==
  ASSUME NEW used, NEW held, NEW tok, NEW n \in 1..3, NEW r, input \in Seq([typ : ItemType, name : Name]),
         Tokens(used, held, tok, n, r)
  PROVE  /\ \A k \in 1..n : tok[k].at \in Nat /\ tok[k].at > 0
         /\ \A k \in 1..n - 1 : tok[k].at > tok[n].at
         /\ tok[n].at \in DOMAIN input => tok[n].at \in 1..r
<1>1. \A k \in 1..n : Given(tok[k])
  BY DEF Tokens
<1>2. Len(input) \in Nat /\ DOMAIN input = 1..Len(input)
  OBVIOUS
<1>3. \A k \in 1..n : tok[k].at \in Nat /\ tok[k].at > 0
  BY <1>1, <1>2 DEF Given
<1>4. \A k \in 2..n : tok[k].at < tok[k - 1].at
  BY DEF Tokens
<1>5. n >= 2 => tok[2].at < tok[1].at
  <2>1. n >= 2 => 2 \in 2..n /\ 2 - 1 = 1
    OBVIOUS
  <2> QED BY <1>4, <2>1
<1>6. n >= 3 => tok[3].at < tok[2].at
  <2>1. n >= 3 => 3 \in 2..n /\ 3 - 1 = 2
    OBVIOUS
  <2> QED BY <1>4, <2>1
<1>7. \A k \in 1..n - 1 : tok[k].at > tok[n].at
  <2> TAKE k \in 1..n - 1
  <2>1. (n = 2 /\ k = 1) \/ (n = 3 /\ (k = 1 \/ k = 2))
    OBVIOUS
  <2>2. 1 \in 1..n /\ (n >= 2 => 2 \in 1..n) /\ (n >= 3 => 3 \in 1..n)
    OBVIOUS
  <2> QED BY <1>3, <1>5, <1>6, <2>1, <2>2
<1>8. tok[1].at = r \/ (tok[1].at = Len(input) + 1 /\ r = Len(input))
  BY DEF Tokens
<1>9. ASSUME tok[n].at \in DOMAIN input PROVE tok[n].at \in 1..r
  <2>1. n \in 1..n /\ 1 \in 1..n /\ (n = 1 \/ 1 \in 1..n - 1)
    OBVIOUS
  <2>2. tok[n].at <= tok[1].at
    BY <1>3, <1>7, <2>1
  <2> QED BY <1>2, <1>3, <1>8, <1>9, <2>1, <2>2
<1> QED
  BY <1>3, <1>7, <1>9

LEMMA HoldToken ==
  ASSUME NEW used, NEW tok, NEW n \in 1..3, NEW r, input \in Seq([typ : ItemType, name : Name]),
         Tokens(used, 0, tok, n, r), tok[n].at \in DOMAIN input, ~IsSpace(tok[n].at)
  PROVE  Tokens(used, tok[n].at, tok, n - 1, r)
<1> DEFINE a == tok[n].at
<1>1. a \in 1..r /\ a \in Nat /\ a # 0
  <2>1. n \in 1..n
    OBVIOUS
  <2>2. tok[n].at \in 1..r /\ tok[n].at \in Nat /\ tok[n].at > 0
    BY <2>1, Ats
  <2> QED BY <2>2
<1>2. \A k \in 1..n - 1 : k \in 1..n /\ a < tok[k].at
  <2>1. \A k \in 1..n - 1 : tok[k].at > tok[n].at
    BY Ats
  <2>2. \A k \in 1..n : tok[k].at \in Nat
    BY Ats
  <2>3. \A k \in 1..n - 1 : k \in 1..n
    OBVIOUS
  <2> QED BY <1>1, <2>1, <2>2, <2>3
<1>3. \A i \in DOMAIN used : used[i] < a
  <2>1. n \in 1..n
    OBVIOUS
  <2> QED BY <2>1 DEF Tokens
<1>4. \A p \in 1..r : ~IsSpace(p) => \/ \E i \in DOMAIN used : used[i] = p
                                     \/ a = p
                                     \/ \E k \in 1..n - 1 : tok[k].at = p
  <2> TAKE p \in 1..r
  <2> HAVE ~IsSpace(p)
  <2>1. (\E i \in DOMAIN used : used[i] = p) \/ \E k \in 1..n : tok[k].at = p
    BY DEF Tokens
  <2>2. CASE \E k \in 1..n : tok[k].at = p
    <3>1. PICK k \in 1..n : tok[k].at = p
      BY <2>2
    <3>2. k = n \/ k \in 1..n - 1
      OBVIOUS
    <3> QED BY <3>1, <3>2
  <2> QED BY <2>1, <2>2
<1>5. n - 1 > 0 => tok[1].at = r \/ (tok[1].at = Len(input) + 1 /\ r = Len(input))
  BY DEF Tokens
<1>6. \A k \in 2..n - 1 : /\ tok[k].at < tok[k - 1].at
                          /\ tok[k - 1].at = tok[k].at + 1 \/ tok[k].typ = "left"
  BY DEF Tokens
<1>7. \A k \in 1..n - 1 : Given(tok[k]) /\ a < tok[k].at /\ \A i \in DOMAIN used : used[i] < tok[k].at
  BY <1>2 DEF Tokens
<1>8. /\ used \in Seq(Nat) /\ r \in 0..Len(input)
      /\ \A i \in DOMAIN used : used[i] \in 1..r /\ ~IsSpace(used[i])
      /\ \A i, j \in DOMAIN used : i < j => used[i] < used[j]
  BY DEF Tokens
<1> HIDE DEF a
<1>9. ~IsSpace(a)
  BY DEF a
<1>10. Tokens(used, a, tok, n - 1, r)
  BY <1>1, <1>3, <1>4, <1>5, <1>6, <1>7, <1>8, <1>9 DEF Tokens
<1> QED
  BY <1>10 DEF a

LEMMA UseHeld ==
  ASSUME NEW used, NEW held, NEW tok, NEW n \in 0..3, NEW r, input \in Seq([typ : ItemType, name : Name]),
         Tokens(used, held, tok, n, r), held # 0
  PROVE  Tokens(Append(used, held), 0, tok, n, r)
<1> DEFINE u == Append(used, held)
           l == Len(used)
<1>1. /\ used \in Seq(Nat) /\ held \in 1..r /\ held \in Nat /\ ~IsSpace(held) /\ r \in 0..Len(input)
      /\ \A i \in DOMAIN used : used[i] \in 1..r /\ ~IsSpace(used[i]) /\ used[i] < held
      /\ \A i, j \in DOMAIN used : i < j => used[i] < used[j]
  BY DEF Tokens
<1>2. /\ l \in Nat /\ DOMAIN used = 1..l /\ u \in Seq(Nat) /\ DOMAIN u = 1..l + 1 /\ u[l + 1] = held
      /\ \A i \in 1..l : u[i] = used[i]
  BY <1>1
<1>3. /\ \A k \in 1..n : Given(tok[k]) /\ held < tok[k].at /\ \A i \in DOMAIN used : used[i] < tok[k].at
      /\ n > 0 => tok[1].at = r \/ (tok[1].at = Len(input) + 1 /\ r = Len(input))
      /\ \A k \in 2..n : /\ tok[k].at < tok[k - 1].at
                         /\ tok[k - 1].at = tok[k].at + 1 \/ tok[k].typ = "left"
  BY DEF Tokens
<1>4. \A p \in 1..r : ~IsSpace(p) => \/ \E i \in DOMAIN used : used[i] = p
                                     \/ held = p
                                     \/ \E k \in 1..n : tok[k].at = p
  BY DEF Tokens
<1> HIDE DEF u, l
<1>5. \A i \in DOMAIN u : u[i] \in 1..r /\ ~IsSpace(u[i])
  <2> TAKE i \in DOMAIN u
  <2>1. CASE i = l + 1
    BY <1>1, <1>2, <2>1
  <2>2. CASE i \in 1..l
    BY <1>1, <1>2, <2>2
  <2> QED BY <1>2, <2>1, <2>2
<1>6. \A i, j \in DOMAIN u : i < j => u[i] < u[j]
  <2> TAKE i, j \in DOMAIN u
  <2> HAVE i < j
  <2>1. i \in 1..l /\ i \in DOMAIN used /\ u[i] = used[i]
    BY <1>2
  <2>2. CASE j = l + 1
    BY <1>1, <1>2, <2>1, <2>2
  <2>3. CASE j \in 1..l
    <3>1. u[j] = used[j] /\ j \in DOMAIN used
      BY <1>2, <2>3
    <3> QED BY <1>1, <2>1, <3>1
  <2> QED BY <1>2, <2>2, <2>3
<1>7. \A k \in 1..n : Given(tok[k]) /\ 0 < tok[k].at /\ \A i \in DOMAIN u : u[i] < tok[k].at
  <2> TAKE k \in 1..n
  <2>1. Given(tok[k]) /\ held < tok[k].at /\ \A i \in DOMAIN used : used[i] < tok[k].at
    BY <1>3
  <2>2. \A i \in DOMAIN u : u[i] < tok[k].at
    <3> TAKE i \in DOMAIN u
    <3>1. u[i] = held \/ (i \in DOMAIN used /\ u[i] = used[i])
      BY <1>2
    <3> QED BY <2>1, <3>1
  <2>3. tok[k].at \in Nat
    <3>1. Len(input) \in Nat /\ DOMAIN input = 1..Len(input)
      OBVIOUS
    <3> QED BY <2>1, <3>1 DEF Given
  <2> QED BY <1>1, <2>1, <2>2, <2>3
<1>8. \A p \in 1..r : ~IsSpace(p) => (\E i \in DOMAIN u : u[i] = p) \/ \E k \in 1..n : tok[k].at = p
  <2> TAKE p \in 1..r
  <2> HAVE ~IsSpace(p)
  <2>1. CASE \E i \in DOMAIN used : used[i] = p
    <3>1. PICK i \in DOMAIN used : used[i] = p
      BY <2>1
    <3>2. i \in DOMAIN u /\ u[i] = p
      BY <1>2, <3>1
    <3> QED BY <3>2
  <2>2. CASE held = p
    <3>1. l + 1 \in DOMAIN u /\ u[l + 1] = p
      BY <1>2, <2>2
    <3> QED BY <3>1
  <2> QED BY <1>4, <2>1, <2>2
<1>9. Tokens(u, 0, tok, n, r)
  BY <1>1, <1>2, <1>3, <1>5, <1>6, <1>7, <1>8 DEF Tokens
<1> QED
  BY <1>9 DEF u

LEMMA UseToken ==
  ASSUME NEW used, NEW tok, NEW n \in 1..3, NEW r, input \in Seq([typ : ItemType, name : Name]),
         Tokens(used, 0, tok, n, r), tok[n].at \in DOMAIN input, ~IsSpace(tok[n].at)
  PROVE  Tokens(Append(used, tok[n].at), 0, tok, n - 1, r)
<1>1. Tokens(used, tok[n].at, tok, n - 1, r)
  BY HoldToken
<1>2. tok[n].at # 0 /\ n - 1 \in 0..3
  BY Ats
<1> QED
  BY <1>1, <1>2, UseHeld

LEMMA DropSpace ==
  ASSUME NEW used, NEW held, NEW tok, NEW n \in 1..3, NEW r, input \in Seq([typ : ItemType, name : Name]),
         Tokens(used, held, tok, n, r), IsSpace(tok[n].at)
  PROVE  Tokens(used, held, tok, n - 1, r)
<1>1. \A p \in 1..r : ~IsSpace(p) => \/ \E i \in DOMAIN used : used[i] = p
                                     \/ held = p
                                     \/ \E k \in 1..n - 1 : tok[k].at = p
  <2> TAKE p \in 1..r
  <2> HAVE ~IsSpace(p)
  <2>1. \/ \E i \in DOMAIN used : used[i] = p
        \/ held = p
        \/ \E k \in 1..n : tok[k].at = p
    BY DEF Tokens
  <2>2. CASE \E k \in 1..n : tok[k].at = p
    <3>1. PICK k \in 1..n : tok[k].at = p
      BY <2>2
    <3>2. k # n
      BY <3>1
    <3>3. k \in 1..n - 1
      BY <3>2
    <3> QED BY <3>1, <3>3
  <2> QED BY <2>1, <2>2
<1>2. n - 1 > 0 => tok[1].at = r \/ (tok[1].at = Len(input) + 1 /\ r = Len(input))
  BY DEF Tokens
<1>3. \A k \in 2..n - 1 : /\ tok[k].at < tok[k - 1].at
                          /\ tok[k - 1].at = tok[k].at + 1 \/ tok[k].typ = "left"
  BY DEF Tokens
<1>4. \A k \in 1..n - 1 : Given(tok[k]) /\ held < tok[k].at /\ \A i \in DOMAIN used : used[i] < tok[k].at
  <2>1. \A k \in 1..n - 1 : k \in 1..n
    OBVIOUS
  <2> QED BY <2>1 DEF Tokens
<1>5. /\ used \in Seq(Nat) /\ held \in Nat /\ r \in 0..Len(input)
      /\ \A i \in DOMAIN used : used[i] \in 1..r /\ ~IsSpace(used[i])
      /\ \A i, j \in DOMAIN used : i < j => used[i] < used[j]
      /\ held # 0 => held \in 1..r /\ ~IsSpace(held) /\ \A i \in DOMAIN used : used[i] < held
  BY DEF Tokens
<1> QED
  BY <1>1, <1>2, <1>3, <1>4, <1>5 DEF Tokens

\* A token held is given back before the one read after it, with the space between them.
LEMMA BackToken ==
  ASSUME NEW used, NEW tok \in [1..3 -> Item], NEW r, input \in Seq([typ : ItemType, name : Name]),
         NEW v \in Item, Tokens(used, v.at, tok, 1, r), v.at # 0, Given(v),
         tok[1].at = v.at + 1 \/ v.typ = "left", NEW new, new[1] = tok[1], new[2] = v
  PROVE  Tokens(used, 0, new, 2, r)
<1>1. new[1] = tok[1] /\ new[2] = v
  OBVIOUS
<1>2. /\ used \in Seq(Nat) /\ r \in 0..Len(input)
      /\ \A i \in DOMAIN used : used[i] \in 1..r /\ ~IsSpace(used[i]) /\ used[i] < v.at
      /\ \A i, j \in DOMAIN used : i < j => used[i] < used[j]
  BY DEF Tokens
<1>3. /\ Given(tok[1]) /\ v.at < tok[1].at /\ \A i \in DOMAIN used : used[i] < tok[1].at
      /\ tok[1].at = r \/ (tok[1].at = Len(input) + 1 /\ r = Len(input))
  <2>1. 1 \in 1..1
    OBVIOUS
  <2> QED BY <2>1 DEF Tokens
<1>4. \A k \in 1..2 : k = 1 \/ k = 2
  OBVIOUS
<1>5. v.at \in Nat /\ v.at > 0 /\ tok[1].at \in Nat
  BY DEF Item
<1>6. \A k \in 1..2 : Given(new[k]) /\ 0 < new[k].at /\ \A i \in DOMAIN used : used[i] < new[k].at
  BY <1>1, <1>2, <1>3, <1>4, <1>5
<1>7. \A k \in 2..2 : /\ new[k].at < new[k - 1].at
                      /\ new[k - 1].at = new[k].at + 1 \/ new[k].typ = "left"
  <2> TAKE k \in 2..2
  <2>1. k = 2 /\ k - 1 = 1
    OBVIOUS
  <2> QED BY <1>1, <1>3, <2>1
<1>8. \A p \in 1..r : ~IsSpace(p) => (\E i \in DOMAIN used : used[i] = p) \/ \E k \in 1..2 : new[k].at = p
  <2> TAKE p \in 1..r
  <2> HAVE ~IsSpace(p)
  <2>1. (\E i \in DOMAIN used : used[i] = p) \/ v.at = p \/ \E k \in 1..1 : tok[k].at = p
    BY DEF Tokens
  <2>2. 1 \in 1..2 /\ 2 \in 1..2 /\ \A k \in 1..1 : k = 1
    OBVIOUS
  <2> QED BY <1>1, <2>1, <2>2
<1>9. Tokens(used, 0, new, 2, r)
  BY <1>1, <1>2, <1>3, <1>6, <1>7, <1>8 DEF Tokens
<1> QED
  BY <1>9

LEMMA BackSpaced ==
  ASSUME NEW used, NEW tok \in [1..3 -> Item], NEW r, input \in Seq([typ : ItemType, name : Name]),
         NEW v \in Item, NEW x \in Item, Tokens(used, v.at, tok, 1, r), v.at # 0, Given(v), Given(x),
         x.at = v.at + 1, tok[1].at = x.at + 1, NEW new, new[1] = tok[1], new[2] = x, new[3] = v
  PROVE  Tokens(used, 0, new, 3, r)
<1>1. new[1] = tok[1] /\ new[2] = x /\ new[3] = v
  OBVIOUS
<1>2. /\ used \in Seq(Nat) /\ r \in 0..Len(input)
      /\ \A i \in DOMAIN used : used[i] \in 1..r /\ ~IsSpace(used[i]) /\ used[i] < v.at
      /\ \A i, j \in DOMAIN used : i < j => used[i] < used[j]
  BY DEF Tokens
<1>3. /\ Given(tok[1]) /\ v.at < tok[1].at /\ \A i \in DOMAIN used : used[i] < tok[1].at
      /\ tok[1].at = r \/ (tok[1].at = Len(input) + 1 /\ r = Len(input))
  <2>1. 1 \in 1..1
    OBVIOUS
  <2> QED BY <2>1 DEF Tokens
<1>4. \A k \in 1..3 : k = 1 \/ k = 2 \/ k = 3
  OBVIOUS
<1>5. v.at \in Nat /\ v.at > 0 /\ tok[1].at \in Nat /\ x.at \in Nat /\ x.at > v.at
  BY DEF Item
<1>6. \A k \in 1..3 : Given(new[k]) /\ 0 < new[k].at /\ \A i \in DOMAIN used : used[i] < new[k].at
  <2>1. \A i \in DOMAIN used : used[i] < v.at /\ used[i] \in Int
    <3>1. r \in Int
      BY <1>2
    <3> QED BY <1>2, <3>1
  <2>2. \A i \in DOMAIN used : used[i] < x.at
    BY <1>5, <2>1
  <2> QED BY <1>1, <1>3, <1>4, <1>5, <2>1, <2>2
<1>7. \A k \in 2..3 : /\ new[k].at < new[k - 1].at
                      /\ new[k - 1].at = new[k].at + 1 \/ new[k].typ = "left"
  <2> TAKE k \in 2..3
  <2>1. (k = 2 /\ k - 1 = 1) \/ (k = 3 /\ k - 1 = 2)
    OBVIOUS
  <2> QED BY <1>1, <1>5, <2>1
<1>8. \A p \in 1..r : ~IsSpace(p) => (\E i \in DOMAIN used : used[i] = p) \/ \E k \in 1..3 : new[k].at = p
  <2> TAKE p \in 1..r
  <2> HAVE ~IsSpace(p)
  <2>1. (\E i \in DOMAIN used : used[i] = p) \/ v.at = p \/ \E k \in 1..1 : tok[k].at = p
    BY DEF Tokens
  <2>2. 1 \in 1..3 /\ 3 \in 1..3 /\ \A k \in 1..1 : k = 1
    OBVIOUS
  <2> QED BY <1>1, <2>1, <2>2
<1>9. Tokens(used, 0, new, 3, r)
  BY <1>1, <1>2, <1>3, <1>6, <1>7, <1>8 DEF Tokens
<1> QED
  BY <1>9

\* The buffer with a token in it: what the next read finds.
FillTok == IF Cur.peekCount > 0 THEN Cur.token ELSE [Cur.token EXCEPT ![1] = nextItem]
FillN == IF Cur.peekCount > 0 THEN Cur.peekCount ELSE 1
FillR == IF Cur.peekCount > 0 \/ read = Len(input) THEN read ELSE read + 1
Working == Inv /\ status = "parsing"

LEMMA Elements ==
  ASSUME NEW S, NEW R, NEW s \in Seq(S), S \subseteq R
  PROVE  /\ s \in Seq(R) /\ Len(s) \in Nat /\ DOMAIN s = 1..Len(s)
         /\ \A p \in DOMAIN s : s[p] \in S
<1>1. Len(s) \in Nat /\ DOMAIN s = 1..Len(s) /\ \A p \in DOMAIN s : s[p] \in S
  OBVIOUS
<1>2. \A p \in 1..Len(s) : s[p] \in R
  BY <1>1
<1>3. s \in Seq(R)
  BY <1>1, <1>2
<1> QED
  BY <1>1, <1>3

LEMMA InputFacts ==
  ASSUME Inv
  PROVE  /\ input \in Seq([typ : ItemType, name : Name]) /\ Len(input) \in Nat /\ DOMAIN input = 1..Len(input)
         /\ \A p \in DOMAIN input : /\ input[p].typ \in ItemType /\ input[p].name \in Name
                                    /\ input[p].typ # "eof" /\ input[p].typ # "error"
         /\ \A p \in DOMAIN input : IsSpace(p) => p > 1 /\ ~IsSpace(p - 1)
<1> DEFINE S == [typ : ItemType \ {"eof", "error"}, name : STRING]
           R == [typ : ItemType, name : Name]
<1>1. input \in Input
  BY DEF Inv
<1>2. input \in Seq(S) /\ Fits(input)
  BY <1>1, InputAssumption
<1>3. S \subseteq R
  BY DEF Name
<1>4. \A x \in S : x.typ \in ItemType /\ x.name \in STRING /\ x.typ # "eof" /\ x.typ # "error"
  OBVIOUS
<1> HIDE DEF S
<1>5. input \in Seq(R) /\ Len(input) \in Nat /\ DOMAIN input = 1..Len(input) /\ \A p \in DOMAIN input : input[p] \in S
  <2> HIDE DEF R
  <2> QED BY <1>2, <1>3, Elements
<1>6. \A p \in DOMAIN input : IsSpace(p) => p > 1 /\ ~IsSpace(p - 1)
  BY <1>2 DEF Fits, IsSpace
<1> QED
  BY <1>4, <1>5, <1>6 DEF Name

LEMMA NextItem ==
  ASSUME Inv, read \in 0..Len(input)
  PROVE  /\ nextItem \in Item /\ Given(nextItem) /\ nextItem.at = read + 1
         /\ read = Len(input) => nextItem.typ \in {"eof", "error"}
<1>1. /\ Len(input) \in Nat /\ DOMAIN input = 1..Len(input)
      /\ \A p \in DOMAIN input : input[p].typ \in ItemType /\ input[p].name \in Name
  BY InputFacts
<1>2. CASE read < Len(input)
  <2> DEFINE typ == input[read + 1].typ
             name == input[read + 1].name
  <2>1. read + 1 \in DOMAIN input /\ read + 1 \in Nat
    BY <1>1, <1>2
  <2>2. typ \in ItemType /\ name \in Name
    BY <1>1, <2>1
  <2>3. nextItem = [typ |-> typ, name |-> name, at |-> read + 1]
    BY <1>2 DEF nextItem
  <2>4. typ = input[read + 1].typ /\ name = input[read + 1].name
    OBVIOUS
  <2> HIDE DEF typ, name
  <2>5. nextItem \in Item /\ nextItem.at = read + 1 /\ nextItem.typ = typ /\ nextItem.name = name
    BY <2>1, <2>2, <2>3 DEF Item
  <2>6. /\ nextItem.at \in DOMAIN input /\ nextItem.typ = input[nextItem.at].typ
        /\ nextItem.name = input[nextItem.at].name
    BY <2>1, <2>4, <2>5
  <2> HIDE DEF nextItem
  <2>7. Given(nextItem)
    BY <2>6 DEF Given
  <2>8. read # Len(input)
    <3>1. \A m \in Nat : \A n \in Nat : m < n => m # n
      OBVIOUS
    <3>2. read \in Nat /\ Len(input) \in Nat
      BY <1>1
    <3> QED BY <1>2, <3>1, <3>2
  <2> QED BY <2>5, <2>7, <2>8
<1>3. CASE read = Len(input)
  <2> DEFINE typ == IF Open THEN "error" ELSE "eof"
  <2>1. ~(read < Len(input)) /\ read + 1 \in Nat
    BY <1>1, <1>3
  <2>2. nextItem = [typ |-> typ, name |-> "", at |-> read + 1]
    BY <2>1 DEF nextItem
  <2>3. typ \in {"eof", "error"}
    OBVIOUS
  <2> HIDE DEF typ
  <2>4. typ \in ItemType
    BY <2>3 DEF ItemType
  <2> DEFINE name == ""
  <2>a. name \in Name
    BY DEF Name
  <2>b. nextItem = [typ |-> typ, name |-> name, at |-> read + 1]
    BY <2>2
  <2> HIDE DEF name
  <2>5. nextItem \in Item /\ nextItem.at = read + 1 /\ nextItem.typ = typ
    BY <2>1, <2>4, <2>a, <2>b DEF Item
  <2>6. nextItem.at = Len(input) + 1 /\ nextItem.typ \in {"eof", "error"}
    BY <1>3, <2>3, <2>5
  <2>7. Given(nextItem)
    BY <2>6 DEF Given
  <2> QED BY <2>5, <2>6, <2>7
<1>4. read < Len(input) \/ read = Len(input)
  <2>1. \A m \in Nat : \A k \in 0..m : k < m \/ k = m
    OBVIOUS
  <2> QED BY <1>1, <2>1
<1> QED
  BY <1>2, <1>3, <1>4

\* What holds of the tree being parsed and of its buffer.
LEMMA CurFacts ==
  ASSUME Working
  PROVE  /\ IsSeq(trees) /\ Len(trees) \in Nat /\ Len(trees) > 0
         /\ DOMAIN trees = 1..Len(trees) /\ Len(trees) = TreesIn(stack) + 1
         /\ IsTree(Cur) /\ Cur = trees[Len(trees)]
         /\ Cur.token \in [1..3 -> Item] /\ Cur.peekCount \in 0..3
         /\ read \in 0..Len(input)
         /\ StackInv(stack) /\ Top \in FrameRec /\ Last(stack) = Top
         /\ TokensInv(Top, ret.kind, taken, Cur.token, Cur.peekCount, read)
<1>1. Good(stack, trees, ret, taken, read)
  BY DEF Working, Inv
<1>2. StackInv(stack) /\ TreesInv(stack, trees) /\ Last(stack) = Top /\ Last(trees) = Cur
  BY <1>1 DEF Good, Top, Cur
<1>3. TokensInv(Top, ret.kind, taken, Cur.token, Cur.peekCount, read)
  BY <1>1, <1>2 DEF Good
<1>4. Top \in FrameRec /\ TreesIn(stack) \in Nat
  BY <1>2, TopFacts
<1>5. /\ IsSeq(trees) /\ Len(trees) = TreesIn(stack) + 1
      /\ \A i \in DOMAIN trees : IsTree(trees[i])
  BY <1>2 DEF TreesInv
<1>6. DOMAIN trees = 1..Len(trees) /\ Len(trees) \in Nat /\ Len(trees) > 0
  BY <1>4, <1>5 DEF IsSeq
<1>7. Cur = trees[Len(trees)]
  BY DEF Cur, Last
<1>8. IsTree(Cur)
  BY <1>5, <1>6, <1>7
<1>9. Cur.token \in [1..3 -> Item] /\ Cur.peekCount \in 0..3
  BY <1>8 DEF IsTree, TreeRec
<1>10. read \in 0..Len(input)
  BY <1>3 DEF TokensInv, Tokens
<1> QED
  BY <1>2, <1>3, <1>4, <1>5, <1>6, <1>7, <1>8, <1>9, <1>10

LEMMA Fill ==
  ASSUME Working
  PROVE  /\ FillTok \in [1..3 -> Item] /\ FillN \in 1..3 /\ token = FillTok[FillN] /\ token \in Item
         /\ FillR \in 0..Len(input)
         /\ IsTree(next) /\ next.token = FillTok /\ next.peekCount = FillN - 1
         /\ next.name = Cur.name /\ next.vars = Cur.vars /\ next.empty = Cur.empty
<1>1. /\ IsTree(Cur) /\ Cur.token \in [1..3 -> Item] /\ Cur.peekCount \in 0..3 /\ read \in 0..Len(input)
  BY CurFacts
<1>2. Inv /\ Len(input) \in Nat /\ nextItem \in Item
  BY <1>1, InputFacts, NextItem DEF Working
<1>3. Cur \in [name : Name, vars : {Cur.vars}, token : [1..3 -> Item], peekCount : 0..3, empty : BOOLEAN]
  BY <1>1 DEF IsTree, TreeRec
<1>x. IsSeq(Cur.vars)
  BY <1>1 DEF IsTree
<1>4. CASE Cur.peekCount > 0
  <2>1. next = [Cur EXCEPT !.peekCount = Cur.peekCount - 1]
    BY <1>4 DEF next
  <2>2. next \in [name : Name, vars : {Cur.vars}, token : [1..3 -> Item], peekCount : 0..3, empty : BOOLEAN]
    BY <1>1, <1>3, <1>4, <2>1
  <2>3. /\ next.token = Cur.token /\ next.peekCount = Cur.peekCount - 1
        /\ next.name = Cur.name /\ next.vars = Cur.vars /\ next.empty = Cur.empty
    BY <1>3, <2>1
  <2>4. FillTok = Cur.token /\ FillN = Cur.peekCount /\ FillR = read /\ token = Cur.token[Cur.peekCount]
    BY <1>4 DEF FillTok, FillN, FillR, token
  <2>5. IsTree(next)
    BY <1>x, <2>2, <2>3 DEF IsTree, TreeRec
  <2>6. FillN \in 1..3 /\ token \in Item
    BY <1>1, <1>4, <2>4
  <2> QED BY <1>1, <2>3, <2>4, <2>5, <2>6
<1>5. CASE Cur.peekCount = 0
  <2>1. next = [Cur EXCEPT !.token[1] = nextItem]
    BY <1>5 DEF next
  <2>2. FillTok = [Cur.token EXCEPT ![1] = nextItem] /\ FillN = 1 /\ token = nextItem
    BY <1>5 DEF FillTok, FillN, token
  <2>3. FillTok \in [1..3 -> Item] /\ FillTok[1] = nextItem
    BY <1>1, <1>2, <2>2
  <2>4. next = [Cur EXCEPT !.token = FillTok]
    BY <1>1, <2>1, <2>2
  <2>5. next \in [name : Name, vars : {Cur.vars}, token : [1..3 -> Item], peekCount : 0..3, empty : BOOLEAN]
    BY <1>3, <2>3, <2>4
  <2>6. /\ next.token = FillTok /\ next.peekCount = 0
        /\ next.name = Cur.name /\ next.vars = Cur.vars /\ next.empty = Cur.empty
    BY <1>3, <1>5, <2>3, <2>4
  <2>7. IsTree(next)
    BY <1>x, <2>5, <2>6 DEF IsTree, TreeRec
  <2>8. FillR \in 0..Len(input)
    BY <1>1, <1>2 DEF FillR
  <2> QED BY <1>2, <2>2, <2>3, <2>6, <2>7, <2>8
<1> QED
  BY <1>1, <1>4, <1>5

LEMMA FillTokens ==
  ASSUME Working
  PROVE  /\ Tokens(taken, HeldAt(Top), FillTok, FillN, FillR) /\ Given(token)
         /\ \/ FillN = 1
            \/ Top.op = "textOrAction" /\ FillN = 2 /\ token.typ = "left"
            \/ /\ Top.op \in {"pipe", "operand"} /\ token.typ = "variable" /\ FillN <= 3
               /\ FillN = 3 => FillTok[2].typ = "space"
            \/ Top.op \in {"chain", "argEnd"} /\ FillN = 2 /\ token.typ = "space"
<1>1. /\ Cur.token \in [1..3 -> Item] /\ Cur.peekCount \in 0..3 /\ read \in 0..Len(input)
      /\ Tokens(taken, HeldAt(Top), Cur.token, Cur.peekCount, read)
      /\ Buffer(Top.op, ret.kind, Cur.peekCount, Cur.token)
  BY CurFacts DEF TokensInv
<1>2. Inv /\ Len(input) \in Nat /\ nextItem \in Item /\ Given(nextItem) /\ nextItem.at = read + 1
  BY <1>1, InputFacts, NextItem DEF Working
<1>3. CASE Cur.peekCount > 0
  <2>1. FillTok = Cur.token /\ FillN = Cur.peekCount /\ FillR = read /\ token = Cur.token[Cur.peekCount]
    BY <1>3 DEF FillTok, FillN, FillR, token
  <2>2. Given(token)
    <3>1. Cur.peekCount \in 1..Cur.peekCount
      BY <1>1, <1>3
    <3> QED BY <1>1, <2>1, <3>1 DEF Tokens
  <2> QED BY <1>1, <1>3, <2>1, <2>2 DEF Buffer
<1>4. CASE Cur.peekCount = 0
  <2>1. FillN = 1 /\ token = nextItem /\ FillTok[1] = nextItem
    BY <1>1, <1>4 DEF FillN, token, FillTok
  <2>2. FillR \in 0..Len(input) /\ FillR >= read /\ FillR \in Nat
    BY <1>1, <1>2, <1>4 DEF FillR
  <2>3. FillTok[1].at = FillR \/ (FillTok[1].at = Len(input) + 1 /\ FillR = Len(input))
    BY <1>1, <1>2, <1>4, <2>1 DEF FillR
  <2>4. /\ taken \in Seq(Nat) /\ HeldAt(Top) \in Nat
        /\ \A i \in DOMAIN taken : taken[i] \in 1..read /\ ~IsSpace(taken[i])
        /\ \A i, j \in DOMAIN taken : i < j => taken[i] < taken[j]
        /\ HeldAt(Top) # 0 => /\ HeldAt(Top) \in 1..read /\ ~IsSpace(HeldAt(Top))
                              /\ \A i \in DOMAIN taken : taken[i] < HeldAt(Top)
    BY <1>1 DEF Tokens
  <2>5. \A p \in 1..read : ~IsSpace(p) => (\E i \in DOMAIN taken : taken[i] = p) \/ HeldAt(Top) = p
    <3>1. 1..Cur.peekCount = {}
      BY <1>4
    <3> QED BY <1>1, <3>1 DEF Tokens
  <2> DEFINE h == HeldAt(Top)
  <2> HIDE DEF h, FillTok, FillN, FillR
  <2>6. \A i \in DOMAIN taken : taken[i] \in 1..FillR /\ taken[i] < read + 1
    BY <1>1, <2>2, <2>4
  <2>7. h # 0 => h \in 1..FillR
    BY <1>1, <2>2, <2>4 DEF h
  <2>8. h < read + 1
    BY <1>1, <2>4 DEF h
  <2>9. \A k \in 1..1 : Given(FillTok[k]) /\ h < FillTok[k].at /\ \A i \in DOMAIN taken : taken[i] < FillTok[k].at
    BY <1>2, <2>1, <2>6, <2>8
  <2>10. \A p \in 1..FillR : ~IsSpace(p) => \/ \E i \in DOMAIN taken : taken[i] = p
                                            \/ h = p
                                            \/ \E k \in 1..1 : FillTok[k].at = p
    <3> TAKE p \in 1..FillR
    <3> HAVE ~IsSpace(p)
    <3>1. p \in 1..read \/ p = read + 1
      BY <1>1, <1>2, <1>4 DEF FillR
    <3>2. 1 \in 1..1
      OBVIOUS
    <3> QED BY <1>2, <2>1, <2>5, <3>1, <3>2 DEF h
  <2>11. 2..1 = {}
    OBVIOUS
  <2>12. Tokens(taken, h, FillTok, 1, FillR)
    BY <2>2, <2>3, <2>4, <2>6, <2>7, <2>9, <2>10, <2>11 DEF Tokens, h
  <2> QED BY <1>2, <2>1, <2>12 DEF h
<1> QED
  BY <1>1, <1>3, <1>4
-----------------------------------------------------------------------------

\* Where a function holds no token.
Plain(op) == op \notin {"parseDelim", "declAfter", "declNext"}

LEMMA PlainFrame ==
  ASSUME NEW f, Plain(f.op), NEW n, NEW tok, NEW r
  PROVE  HeldAt(f) = 0 /\ Waits(f, n, tok, r)
BY DEF Plain, HeldAt, Waits

LEMMA EmptyBuffer ==
  ASSUME NEW op, NEW kind, NEW tok
  PROVE  Buffer(op, kind, 0, tok)
BY DEF Buffer

\* One token pending is allowed everywhere but where it cannot be.
LEMMA OneBuffered ==
  ASSUME NEW op, NEW kind, NEW tok, op \notin {"parseDelim", "declAfter", "blockPipe"}, op \in Ended => kind # "end"
  PROVE  Buffer(op, kind, 1, tok)
BY DEF Buffer

LEMMA Onward ==
  ASSUME Inv, input' = input, ret' \in RetRec, StackInv(stack'), TreesInv(stack', trees'),
         TokensInv(Last(stack'), ret'.kind, taken', Last(trees').token, Last(trees').peekCount, read')
  PROVE  Inv'
<1>1. input' \in Input
  BY DEF Inv
<1>2. /\ StackInv(stack)' /\ TreesInv(stack, trees)'
  BY DEF StackInv, TreesInv, TreesIn, IsTree, TreeRec, IsSeq, Last
<1>3. TokensInv(Last(stack), ret.kind, taken, Last(trees).token, Last(trees).peekCount, read)'
  BY DEF TokensInv, Tokens, HeldAt, Buffer, Waits, Given, IsSpace, Last
<1> QED
  BY <1>1, <1>2, <1>3 DEF Inv, Good

LEMMA AsSequence ==
  ASSUME NEW n \in Nat, NEW S, NEW f \in [1..n -> S]
  PROVE  f \in Seq(S) /\ Len(f) = n
OBVIOUS

LEMMA TreeChanged ==
  ASSUME Working, NEW t, IsTree(t), NEW s, TreesIn(s) = TreesIn(stack), NEW ts, ts = [trees EXCEPT ![Len(trees)] = t]
  PROVE  TreesInv(s, ts) /\ Last(ts) = t
<1> DEFINE n == Len(trees)
<1>1. /\ trees \in Seq({trees[i] : i \in DOMAIN trees}) /\ n \in Nat /\ n > 0
      /\ DOMAIN trees = 1..n /\ n = TreesIn(stack) + 1
  BY CurFacts DEF IsSeq
<1>2. /\ \A i \in DOMAIN trees : IsTree(trees[i])
      /\ \A i \in 1..n - 1 : trees[i].peekCount = 0
  BY DEF Working, Inv, Good, TreesInv
<1>3. DOMAIN ts = 1..n /\ ts[n] = t /\ \A i \in 1..n - 1 : ts[i] = trees[i]
  BY <1>1
<1> HIDE DEF n
<1>4. ts \in Seq({ts[i] : i \in DOMAIN ts}) /\ Len(ts) = n
  <2>1. ts = [i \in 1..n |-> ts[i]]
    <3>1. ts = [i \in DOMAIN trees |-> IF i = n THEN t ELSE trees[i]]
      BY <1>1 DEF n
    <3> QED BY <1>1, <3>1
  <2>2. \A i \in 1..n : ts[i] \in {ts[i_1] : i_1 \in DOMAIN ts}
    BY <1>3
  <2> DEFINE S == {ts[i] : i \in DOMAIN ts}
  <2>3. ts \in [1..n -> S]
    BY <2>1, <2>2
  <2> HIDE DEF S
  <2>4. ts \in Seq(S) /\ Len(ts) = n
    BY <1>1, <2>3, AsSequence
  <2> QED BY <2>4 DEF S
<1>5. \A i \in DOMAIN ts : IsTree(ts[i])
  <2> TAKE i \in DOMAIN ts
  <2>1. CASE i = n
    BY <1>3, <2>1
  <2>2. CASE i # n
    <3>1. i \in 1..n - 1 /\ i \in DOMAIN trees
      BY <1>1, <1>3, <2>2
    <3> QED BY <1>2, <1>3, <3>1
  <2> QED BY <2>1, <2>2
<1>6. \A i \in 1..n - 1 : ts[i].peekCount = 0
  BY <1>2, <1>3
<1> QED
  BY <1>1, <1>3, <1>4, <1>5, <1>6 DEF TreesInv, Last, IsSeq

\* What a read does to the tree.
LEMMA ReadTree ==
  ASSUME Working, NEW typs, NEW t, Read(typs, t)
  PROVE  token.typ \in typs /\ read' = FillR /\ trees' = [trees EXCEPT ![Len(trees)] = t]
BY DEF Read, FillR

LEMMA BackupTree ==
  ASSUME Working
  PROVE  /\ IsTree(backup(next)) /\ backup(next).token = FillTok /\ backup(next).peekCount = FillN
         /\ backup(next).name = Cur.name /\ backup(next).vars = Cur.vars /\ backup(next).empty = Cur.empty
<1>1. /\ FillN \in 1..3 /\ IsTree(next) /\ next.token = FillTok /\ next.peekCount = FillN - 1
      /\ next.name = Cur.name /\ next.vars = Cur.vars /\ next.empty = Cur.empty
  BY Fill
<1> DEFINE t == next
           b == backup(next)
<1>2. t \in [name : Name, vars : {t.vars}, token : [1..3 -> Item], peekCount : 0..3, empty : BOOLEAN]
  BY <1>1 DEF IsTree, TreeRec
<1>3. b = [t EXCEPT !.peekCount = t.peekCount + 1]
  BY DEF backup
<1>4. t.peekCount + 1 = FillN /\ FillN \in 0..3
  BY <1>1
<1> HIDE DEF t, b
<1>5. /\ b \in [name : Name, vars : {t.vars}, token : [1..3 -> Item], peekCount : 0..3, empty : BOOLEAN]
      /\ b.token = t.token /\ b.peekCount = FillN /\ b.name = t.name /\ b.vars = t.vars /\ b.empty = t.empty
  BY <1>2, <1>3, <1>4
<1>6. IsTree(b)
  <2>1. IsSeq(t.vars)
    BY <1>1 DEF IsTree, t
  <2> QED BY <1>5, <2>1 DEF IsTree, TreeRec
<1> QED
  BY <1>1, <1>5, <1>6 DEF b, t

\* Reads between places where no token is held.
LEMMA PeekStep ==
  ASSUME Working, NEW typs, Peek(typs), input' = input, ret' \in RetRec,
         StackInv(stack'), TreesIn(stack') = TreesIn(stack),
         Plain(Top.op), Plain(Last(stack').op), Buffer(Last(stack').op, ret'.kind, FillN, FillTok)
  PROVE  Inv'
<1>1. taken' = taken /\ read' = FillR /\ trees' = [trees EXCEPT ![Len(trees)] = backup(next)]
  BY ReadTree DEF Peek
<1>2. TreesInv(stack', trees') /\ Last(trees') = backup(next)
  BY <1>1, BackupTree, TreeChanged
<1>3. Last(trees').token = FillTok /\ Last(trees').peekCount = FillN
  BY <1>2, BackupTree
<1>4. Tokens(taken, 0, FillTok, FillN, FillR)
  BY FillTokens, PlainFrame
<1>5. HeldAt(Last(stack')) = 0 /\ Waits(Last(stack'), FillN, FillTok, FillR)
  BY PlainFrame
<1>6. TokensInv(Last(stack'), ret'.kind, taken', Last(trees').token, Last(trees').peekCount, read')
  BY <1>1, <1>3, <1>4, <1>5 DEF TokensInv
<1> QED
  BY <1>2, <1>6, Onward DEF Working

LEMMA UseStep ==
  ASSUME Working, NEW typs, Use(typs), token.typ \notin {"space", "eof", "error"},
         input' = input, ret' \in RetRec, StackInv(stack'), TreesIn(stack') = TreesIn(stack),
         Plain(Top.op), Plain(Last(stack').op), Buffer(Last(stack').op, ret'.kind, FillN - 1, FillTok)
  PROVE  Inv'
<1>1. taken' = Append(taken, token.at) /\ read' = FillR /\ trees' = [trees EXCEPT ![Len(trees)] = next]
  BY ReadTree DEF Use
<1>2. TreesInv(stack', trees') /\ Last(trees') = next
  BY <1>1, Fill, TreeChanged
<1>3. Last(trees').token = FillTok /\ Last(trees').peekCount = FillN - 1
  BY <1>2, Fill
<1>4. Tokens(taken, 0, FillTok, FillN, FillR) /\ Given(token)
  BY FillTokens, PlainFrame
<1>5. token.at \in DOMAIN input /\ ~IsSpace(token.at) /\ token = FillTok[FillN] /\ FillN \in 1..3
  BY <1>4, Fill DEF Given, IsSpace
<1>6. Tokens(taken', 0, FillTok, FillN - 1, FillR)
  <2>1. input \in Seq([typ : ItemType, name : Name])
    BY InputFacts DEF Working
  <2> QED BY <1>1, <1>4, <1>5, <2>1, UseToken
<1>7. HeldAt(Last(stack')) = 0 /\ Waits(Last(stack'), FillN - 1, FillTok, FillR)
  BY PlainFrame
<1>8. TokensInv(Last(stack'), ret'.kind, taken', Last(trees').token, Last(trees').peekCount, read')
  BY <1>1, <1>3, <1>6, <1>7 DEF TokensInv
<1> QED
  BY <1>2, <1>8, Onward DEF Working

\* The only token pending is used.
LEMMA UseLast ==
  ASSUME Working, NEW typs, Use(typs), token.typ \notin {"space", "eof", "error"}, FillN = 1,
         input' = input, ret' \in RetRec, StackInv(stack'), TreesIn(stack') = TreesIn(stack),
         Plain(Top.op), Plain(Last(stack').op)
  PROVE  Inv'
<1>1. FillN - 1 = 0
  OBVIOUS
<1>2. Buffer(Last(stack').op, ret'.kind, FillN - 1, FillTok)
  BY <1>1, EmptyBuffer
<1> QED
  BY <1>2, UseStep
-----------------------------------------------------------------------------
\* Frames, and the calls, returns and moves of the function at the top.
LEMMA Empty == "" \in Name
BY DEF Name

LEMMA NoItemFact == NoItem \in Item
<1> DEFINE name == ""
           typ == "eof"
<1>1. name \in Name /\ typ \in ItemType
  BY DEF Name, ItemType
<1>2. NoItem = [typ |-> typ, name |-> name, at |-> 0]
  BY DEF NoItem
<1> HIDE DEF name, typ
<1> QED
  BY <1>1, <1>2 DEF Item

LEMMA NewFrame ==
  ASSUME NEW op \in Op, NEW ctx \in Context
  PROVE  Frame(op, ctx) \in FrameRec /\ Frame(op, ctx).op = op
<1> DEFINE name == ""
<1>1. NoItem \in Item /\ name \in Name
  BY NoItemFact, Empty
<1>2. Frame(op, ctx) = [op |-> op, ctx |-> ctx, name |-> name, mark |-> 0, v |-> NoItem, after |-> NoItem,
                        decls |-> 0, n |-> 0, exec |-> TRUE, literal |-> FALSE]
  BY DEF Frame
<1> HIDE DEF name, NoItem
<1> QED
  BY <1>1, <1>2 DEF FrameRec

LEMMA OpFrame ==
  ASSUME NEW f \in FrameRec, NEW op \in Op
  PROVE  [f EXCEPT !.op = op] \in FrameRec /\ [f EXCEPT !.op = op].op = op
BY DEF FrameRec

LEMMA NodeFact == Node \in RetRec /\ Node.kind = "node"
BY DEF Node, RetRec

\* The function at the top is at op after the step, in as many trees.
Moved(op) == /\ input' = input /\ ret' \in RetRec
             /\ StackInv(stack') /\ TreesIn(stack') = TreesIn(stack) /\ Last(stack').op = op

\* Where a function may go on, and which it may call there.
Goes(from, op) == op \in Op /\ Kin(from, op) /\ (from \in Tree <=> op \in Tree)
Invokes(op, callee) == callee \in Op /\ Calls(op, callee) /\ callee \notin Tree

LEMMA GoesOn ==
  /\ Goes("parse", "parseDelim") /\ Goes("parse", "parsed") /\ Goes("parseDelim", "parsed") /\ Goes("parsed", "parse")
  /\ Goes("defineName", "defineDelim") /\ Goes("defineDelim", "treeList")
  /\ Goes("list", "listed") /\ Goes("listed", "list") /\ Goes("listed", "listed")
  /\ \A op \in NodeOp \ {"treeList"} : Goes("textOrAction", op) /\ Goes("action", op) /\ Goes("templateName", op)
                                       /\ Goes("templateArg", op)
  /\ Goes("control", "controlPipe") /\ Goes("controlPipe", "controlList") /\ Goes("controlList", "controlEnd")
  /\ Goes("controlList", "controlElse")
  /\ \A from, op \in Pipe : Goes(from, op)
  /\ \A from, op \in Command : Goes(from, op)
BY DEF Goes, Kin, Family, Op, Root, Tree, List, NodeOp, Pipe, Command

LEMMA MayInvoke ==
  /\ Invokes("parsed", "textOrAction") /\ Invokes("treeList", "list") /\ Invokes("listed", "textOrAction")
  /\ Invokes("done", "decl") /\ Invokes("blockPipe", "decl")
  /\ Invokes("chain", "decl") /\ Invokes("controlPipe", "decl")
  /\ Invokes("controlList", "list") /\ Invokes("controlElse", "list") /\ Invokes("controlEnd", "control")
  /\ Invokes("piped", "operand")
BY DEF Invokes, Calls, Op, Root, Tree, List, NodeOp, Pipe, Command

LEMMA BecomeTo ==
  ASSUME Working, Same, NEW f \in FrameRec, Become(f), Goes(Top.op, f.op)
  PROVE  Moved(f.op) /\ Last(stack') = f /\ ret' = ret
<1>1. StackInv(stack) /\ Last(stack) = Top /\ ret \in RetRec
  BY CurFacts DEF Working, Inv
<1>2. stack' = Append(Front(stack), f) /\ ret' = ret /\ input' = input
  BY DEF Become, Same
<1>3. StackInv(stack') /\ Last(stack') = f /\ TreesIn(stack') = TreesIn(stack)
  BY <1>1, <1>2, Replaced DEF Goes
<1> QED
  BY <1>1, <1>2, <1>3 DEF Moved

LEMMA BecomesTo ==
  ASSUME Working, Same, NEW from, Top.op = from, NEW op, Goes(from, op), Becomes(op)
  PROVE  Moved(op) /\ ret' = ret
<1> DEFINE f == [Top EXCEPT !.op = op]
<1>1. f \in FrameRec /\ f.op = op
  BY CurFacts, OpFrame DEF Goes
<1>2. Become(f)
  BY DEF Becomes
<1> HIDE DEF f
<1>3. Goes(Top.op, f.op)
  BY <1>1
<1> QED
  BY <1>1, <1>2, <1>3, BecomeTo

\* The function at the top calls another, and goes on as g after that.
LEMMA Called ==
  ASSUME Working, NEW g \in FrameRec, NEW f \in FrameRec, stack' = Front(stack) \o <<g, f>>,
         Kin(Top.op, g.op), Calls(g.op, f.op)
  PROVE  \E u : /\ StackInv(stack') /\ Last(stack') = f
                /\ (Top.op \in Tree <=> g.op \in Tree) => TreesIn(u) = TreesIn(stack)
                /\ Top.op \notin Tree /\ g.op \in Tree => TreesIn(u) = TreesIn(stack) + 1
                /\ f.op \in Tree => TreesIn(stack') = TreesIn(u) + 1
                /\ f.op \notin Tree => TreesIn(stack') = TreesIn(u)
<1> DEFINE u == Append(Front(stack), g)
<1>1. StackInv(stack) /\ Last(stack) = Top
  BY CurFacts
<1>2. Front(stack) \in Seq(FrameRec)
  <2>1. stack \in Seq(FrameRec) /\ Len(stack) \in Nat /\ Len(stack) > 0
    BY <1>1, TopFacts DEF StackInv
  <2> QED BY <2>1 DEF Front
<1>3. stack' = Append(u, f)
  BY <1>2
<1>4. /\ StackInv(u) /\ Last(u) = g
      /\ (Top.op \in Tree <=> g.op \in Tree) => TreesIn(u) = TreesIn(stack)
      /\ Top.op \notin Tree /\ g.op \in Tree => TreesIn(u) = TreesIn(stack) + 1
  BY <1>1, Replaced
<1> HIDE DEF u
<1>5. /\ StackInv(stack') /\ Last(stack') = f
      /\ f.op \in Tree => TreesIn(stack') = TreesIn(u) + 1
      /\ f.op \notin Tree => TreesIn(stack') = TreesIn(u)
  BY <1>3, <1>4, Push
<1> QED
  BY <1>4, <1>5

LEMMA CallTo ==
  ASSUME Working, Same, NEW g \in FrameRec, NEW f \in FrameRec, stack' = Front(stack) \o <<g, f>>, ret' = ret,
         Goes(Top.op, g.op), Invokes(g.op, f.op)
  PROVE  Moved(f.op) /\ ret' = ret
<1>1. ret \in RetRec
  BY DEF Working, Inv
<1>2. StackInv(stack') /\ Last(stack') = f /\ TreesIn(stack') = TreesIn(stack)
  BY Called DEF Goes, Invokes
<1> QED
  BY <1>1, <1>2 DEF Moved, Same

LEMMA CallsFrame ==
  ASSUME Working, Same, NEW from, Top.op = from, NEW op, Goes(from, op), NEW callee, Invokes(op, callee),
         NEW f \in FrameRec, f.op = callee, Call(op, f)
  PROVE  Moved(callee) /\ ret' = ret
<1> DEFINE g == [Top EXCEPT !.op = op]
<1>1. g \in FrameRec /\ g.op = op
  BY CurFacts, OpFrame DEF Goes
<1>2. stack' = Front(stack) \o <<g, f>> /\ ret' = ret
  BY DEF Call
<1> HIDE DEF g
<1>3. Goes(Top.op, g.op) /\ Invokes(g.op, f.op)
  BY <1>1
<1> QED
  BY <1>1, <1>2, <1>3, CallTo

LEMMA CallsTo ==
  ASSUME Working, Same, NEW from, Top.op = from, NEW op, Goes(from, op), NEW callee, Invokes(op, callee),
         NEW ctx \in Context, Call(op, Frame(callee, ctx))
  PROVE  Moved(callee) /\ ret' = ret
<1> DEFINE f == Frame(callee, ctx)
<1>1. f \in FrameRec /\ f.op = callee
  BY NewFrame DEF Invokes
<1>2. Call(op, f)
  OBVIOUS
<1> HIDE DEF f
<1> QED
  BY <1>1, <1>2, CallsFrame

LEMMA ReturnTo ==
  ASSUME Working, Same, NEW r \in RetRec, Return(r), Top.op \notin Root, Top.op \notin Tree
  PROVE  Moved(Last(stack').op) /\ Calls(Last(stack').op, Top.op) /\ ret' = r
<1>1. StackInv(stack) /\ Last(stack) = Top
  BY CurFacts
<1>2. stack' = Front(stack) /\ ret' = r
  BY DEF Return
<1> QED
  BY <1>1, <1>2, Popped DEF Moved, Same

LEMMA Callers ==
  ASSUME NEW op, NEW callee, Calls(op, callee)
  PROVE  /\ callee \in NodeOp \ {"treeList"} => op \in {"parsed", "listed", "controlEnd"}
         /\ callee \in List => op \in {"treeList", "controlList", "controlElse"}
         /\ callee \in Pipe => op \in {"controlPipe", "done", "blockPipe", "chain"}
         /\ callee \in Command => op = "piped"
BY DEF Calls, Root, Tree, List, NodeOp, Pipe, Command

LEMMA ReturnFrom ==
  ASSUME Working, Same, NEW r \in RetRec, Return(r), NEW from, Top.op = from,
         from \in (NodeOp \ {"treeList"}) \cup List \cup Pipe \cup Command
  PROVE  LET op == Last(stack').op IN
         /\ Moved(op) /\ ret' = r /\ Plain(op)
         /\ from \in NodeOp => op \in {"parsed", "listed", "controlEnd"}
         /\ from \in List => op \in {"treeList", "controlList", "controlElse"}
         /\ from \in Pipe => op \in {"controlPipe", "done", "blockPipe", "chain"}
         /\ from \in Command => op = "piped"
<1> DEFINE op == Last(stack').op
<1>1. Top.op \notin Root /\ Top.op \notin Tree
  BY DEF Root, Tree, List, NodeOp, Pipe, Command
<1>2. Moved(op) /\ Calls(op, from) /\ ret' = r
  BY <1>1, ReturnTo
<1> HIDE DEF op
<1>3. /\ from \in NodeOp \ {"treeList"} => op \in {"parsed", "listed", "controlEnd"}
      /\ from \in List => op \in {"treeList", "controlList", "controlElse"}
      /\ from \in Pipe => op \in {"controlPipe", "done", "blockPipe", "chain"}
      /\ from \in Command => op = "piped"
  BY <1>2, Callers
<1>4. from \in NodeOp => from \in NodeOp \ {"treeList"}
  BY DEF NodeOp, List, Pipe, Command
<1>5. Plain(op)
  BY <1>3 DEF Plain
<1> QED
  BY <1>2, <1>3, <1>4, <1>5 DEF op
-----------------------------------------------------------------------------
\* What is pending where nothing was given back by a look-ahead.
Ahead == {"textOrAction", "pipe", "operand", "chain", "argEnd"}

LEMMA AtMostOne ==
  ASSUME Working, Top.op \notin Ahead
  PROVE  Cur.peekCount \in 0..1 /\ FillN = 1
<1>1. Cur.peekCount \in 0..3 /\ Buffer(Top.op, ret.kind, Cur.peekCount, Cur.token)
  BY CurFacts DEF TokensInv
<1>2. ~(Cur.peekCount > 1)
  BY <1>1 DEF Buffer, Ahead
<1> QED
  BY <1>1, <1>2 DEF FillN

LEMMA OneFilled ==
  ASSUME Working, token.typ \notin {"left", "variable", "space"}
  PROVE  FillN = 1
BY FillTokens

LEMMA PeekOne ==
  ASSUME Working, NEW typs, Peek(typs), FillN = 1, NEW op, Moved(op), Plain(Top.op), Plain(op), op # "blockPipe",
         op \in Ended => ret'.kind # "end"
  PROVE  Inv'
<1>1. Last(stack').op = op
  BY DEF Moved
<1>2. Buffer(op, ret'.kind, FillN, FillTok)
  BY OneBuffered DEF Plain
<1> QED
  BY <1>1, <1>2, PeekStep DEF Moved

LEMMA UseOne ==
  ASSUME Working, NEW typs, Use(typs), token.typ \notin {"space", "eof", "error"}, FillN = 1, NEW op, Moved(op),
         Plain(Top.op), Plain(op)
  PROVE  Inv'
<1>1. Last(stack').op = op
  BY DEF Moved
<1> QED
  BY <1>1, UseLast DEF Moved

\* A step that reads nothing; it may change what else a tree keeps.
LEMMA QuietTree ==
  ASSUME Working, NoRead, NEW t, IsTree(t), t.token = Cur.token, t.peekCount = Cur.peekCount,
         trees' = [trees EXCEPT ![Len(trees)] = t], NEW op, Moved(op), Plain(Top.op), Plain(op),
         Buffer(op, ret'.kind, Cur.peekCount, Cur.token)
  PROVE  Inv'
<1>1. TreesInv(stack', trees') /\ Last(trees') = t
  BY TreeChanged DEF Moved
<1>2. Tokens(taken, 0, Cur.token, Cur.peekCount, read)
  BY CurFacts, PlainFrame DEF TokensInv
<1>3. HeldAt(Last(stack')) = 0 /\ Waits(Last(stack'), Cur.peekCount, Cur.token, read)
  BY PlainFrame DEF Moved
<1>4. TokensInv(Last(stack'), ret'.kind, taken', Last(trees').token, Last(trees').peekCount, read')
  BY <1>1, <1>2, <1>3 DEF TokensInv, Moved, NoRead
<1> QED
  BY <1>1, <1>4, Onward DEF Working, Moved

LEMMA Quiet ==
  ASSUME Working, NoRead, trees' = trees, NEW op, Moved(op), Plain(Top.op), Plain(op),
         Buffer(op, ret'.kind, Cur.peekCount, Cur.token)
  PROVE  Inv'
<1>1. IsTree(Cur) /\ Cur = trees[Len(trees)] /\ trees \in Seq({trees[i] : i \in DOMAIN trees})
  BY CurFacts DEF IsSeq
<1>2. trees' = [trees EXCEPT ![Len(trees)] = Cur]
  BY <1>1
<1> QED
  BY <1>1, <1>2, QuietTree

LEMMA QuietOne ==
  ASSUME Working, NoRead, trees' = trees, Top.op \notin Ahead, NEW op, Moved(op), Plain(Top.op), Plain(op),
         op # "blockPipe", op \in Ended => ret'.kind # "end" \/ Cur.peekCount = 0
  PROVE  Inv'
<1>1. Cur.peekCount = 0 \/ Cur.peekCount = 1
  BY AtMostOne
<1>2. Buffer(op, ret'.kind, Cur.peekCount, Cur.token)
  BY <1>1, EmptyBuffer, OneBuffered DEF Plain
<1> QED
  BY <1>2, Quiet
-----------------------------------------------------------------------------
\* With nothing pending, what a buffer keeps does not matter.
LEMMA NoPending ==
  ASSUME NEW used, NEW held, NEW tok, NEW r, Tokens(used, held, tok, 0, r), NEW other
  PROVE  Tokens(used, held, other, 0, r)
<1>1. 1..0 = {} /\ 2..0 = {}
  OBVIOUS
<1> QED
  BY <1>1 DEF Tokens

\* A token the lexer has just given, or whose buffer holds no other.
LEMMA FirstAt ==
  ASSUME Working, FillN = 1
  PROVE  /\ token = FillTok[1]
         /\ token.at \in DOMAIN input => token.at = FillR
         /\ Cur.peekCount = 0 => token = nextItem /\ token.at = read + 1
<1>1. /\ token = FillTok[FillN] /\ FillTok \in [1..3 -> Item] /\ FillR \in 0..Len(input)
      /\ Tokens(taken, HeldAt(Top), FillTok, FillN, FillR)
  BY Fill, FillTokens
<1>2. FillTok[1].at = FillR \/ FillTok[1].at = Len(input) + 1
  BY <1>1 DEF Tokens
<1>3. Inv /\ Len(input) \in Nat /\ DOMAIN input = 1..Len(input) /\ read \in 0..Len(input)
  BY CurFacts, InputFacts DEF Working
<1>4. token.at \in DOMAIN input => token.at = FillR
  <2>1. token.at = FillR \/ token.at = Len(input) + 1
    BY <1>1, <1>2
  <2> QED BY <1>3, <2>1
<1>5. Cur.peekCount = 0 => token = nextItem
  BY DEF token
<1> QED
  BY <1>1, <1>3, <1>4, <1>5, NextItem

LEMMA TokenGiven ==
  ASSUME Working, token.typ \notin {"eof", "error"}
  PROVE  /\ token.at \in DOMAIN input /\ token.typ = input[token.at].typ /\ token.name = input[token.at].name
         /\ IsSpace(token.at) <=> token.typ = "space"
<1>1. Given(token)
  BY FillTokens
<1> QED
  BY <1>1 DEF Given, IsSpace

\* nextNonSpace: a space goes.
LEMMA SpaceStep ==
  ASSUME Working, Hold({"space"}), FillN - 1 \in 0..1, NEW op, Moved(op), Buffer(op, ret'.kind, FillN - 1, FillTok),
         HeldAt(Last(stack')) = HeldAt(Top), Waits(Last(stack'), FillN - 1, FillTok, FillR)
  PROVE  Inv'
<1>1. token.typ = "space" /\ taken' = taken /\ read' = FillR /\ trees' = [trees EXCEPT ![Len(trees)] = next]
  BY ReadTree DEF Hold
<1>2. TreesInv(stack', trees') /\ Last(trees') = next
  BY <1>1, Fill, TreeChanged DEF Moved
<1>3. Last(trees').token = FillTok /\ Last(trees').peekCount = FillN - 1
  BY <1>2, Fill
<1>4. Tokens(taken, HeldAt(Top), FillTok, FillN, FillR) /\ token = FillTok[FillN] /\ FillN \in 1..3
  BY FillTokens, Fill
<1>5. IsSpace(FillTok[FillN].at)
  BY <1>1, <1>4, TokenGiven
<1>6. input \in Seq([typ : ItemType, name : Name])
  BY InputFacts DEF Working
<1>7. Tokens(taken, HeldAt(Top), FillTok, FillN - 1, FillR)
  BY <1>4, <1>5, <1>6, DropSpace
<1>8. TokensInv(Last(stack'), ret'.kind, taken', Last(trees').token, Last(trees').peekCount, read')
  BY <1>1, <1>3, <1>7 DEF TokensInv, Moved
<1> QED
  BY <1>2, <1>8, Onward DEF Working, Moved

\* A token is taken out of the buffer and held by the function.
LEMMA HoldStep ==
  ASSUME Working, NEW typs, Hold(typs), token.typ \notin {"space", "eof", "error"}, FillN = 1, Plain(Top.op),
         NEW op, Moved(op), HeldAt(Last(stack')) = token.at, Waits(Last(stack'), 0, FillTok, FillR)
  PROVE  Inv'
<1>1. taken' = taken /\ read' = FillR /\ trees' = [trees EXCEPT ![Len(trees)] = next]
  BY ReadTree DEF Hold
<1>2. TreesInv(stack', trees') /\ Last(trees') = next
  BY <1>1, Fill, TreeChanged DEF Moved
<1>3. Last(trees').token = FillTok /\ Last(trees').peekCount = 0
  BY <1>2, Fill
<1>4. Tokens(taken, 0, FillTok, FillN, FillR) /\ token = FillTok[FillN] /\ FillN \in 1..3
  BY FillTokens, Fill, PlainFrame
<1>5. token.at \in DOMAIN input /\ ~IsSpace(token.at)
  BY TokenGiven
<1>6. input \in Seq([typ : ItemType, name : Name])
  BY InputFacts DEF Working
<1>7. Tokens(taken, token.at, FillTok, FillN - 1, FillR)
  BY <1>4, <1>5, <1>6, HoldToken
<1>8. FillN - 1 = 0
  OBVIOUS
<1>9. Tokens(taken, token.at, FillTok, 0, FillR)
  BY <1>7, <1>8
<1>10. Buffer(Last(stack').op, ret'.kind, 0, FillTok)
  BY EmptyBuffer
<1>11. TokensInv(Last(stack'), ret'.kind, taken', Last(trees').token, Last(trees').peekCount, read')
  BY <1>1, <1>3, <1>9, <1>10 DEF TokensInv
<1> QED
  BY <1>2, <1>11, Onward DEF Working, Moved

\* The token held and the one after it are used.
LEMMA UseBoth ==
  ASSUME Working, HeldAt(Top) # 0, FillN = 1, token.typ \notin {"space", "eof", "error"}, NEW tok
  PROVE  Tokens(taken \o <<HeldAt(Top), token.at>>, 0, tok, 0, FillR)
<1> DEFINE h == HeldAt(Top)
           u == Append(taken, h)
<1>1. Tokens(taken, h, FillTok, FillN, FillR) /\ token = FillTok[FillN] /\ FillN \in 1..3
  BY FillTokens, Fill
<1>2. input \in Seq([typ : ItemType, name : Name])
  BY InputFacts DEF Working
<1>3. token.at \in DOMAIN input /\ ~IsSpace(token.at)
  BY TokenGiven
<1>4. taken \in Seq(Nat) /\ h \in Nat
  BY <1>1 DEF Tokens
<1>5. taken \o <<h, token.at>> = Append(u, token.at)
  BY <1>4
<1> HIDE DEF h
<1>6. Tokens(u, 0, FillTok, FillN, FillR)
  <2>1. FillN \in 0..3
    BY <1>1
  <2>2. h # 0
    BY DEF h
  <2> QED BY <1>1, <1>2, <2>1, <2>2, UseHeld
<1> HIDE DEF u
<1>7. Tokens(Append(u, token.at), 0, FillTok, FillN - 1, FillR)
  BY <1>1, <1>2, <1>3, <1>6, UseToken
<1>8. FillN - 1 = 0
  OBVIOUS
<1>9. Tokens(Append(u, token.at), 0, FillTok, 0, FillR)
  BY <1>7, <1>8
<1> QED
  BY <1>5, <1>9, NoPending DEF h
-----------------------------------------------------------------------------
\* Changes of a tree.
LEMMA VarsFacts ==
  ASSUME NEW v, IsSeq(v), NEW x, NEW m \in Nat
  PROVE  Len(v) \in Nat /\ IsSeq(Append(v, x)) /\ IsSeq(SubSeq(v, 1, m))
<1>1. v \in Seq({v[i] : i \in DOMAIN v})
  BY DEF IsSeq
<1>2. Len(v) \in Nat /\ DOMAIN v = 1..Len(v)
  BY <1>1
<1>3. IsSeq(Append(v, x))
  <2> DEFINE w == Append(v, x)
             S == {w[i] : i \in DOMAIN w}
             n == Len(v) + 1
  <2>1. w = [i \in 1..n |-> w[i]] /\ DOMAIN w = 1..n /\ n \in Nat
    <3> DEFINE R == {v[i] : i \in DOMAIN v}
               Q == R \cup {x}
    <3>1. v \in Seq(R) /\ R \subseteq Q
      BY <1>1
    <3> HIDE DEF R
    <3>2. v \in Seq(Q)
      BY <3>1, Elements
    <3>3. x \in Q
      OBVIOUS
    <3> HIDE DEF Q
    <3>4. w \in Seq(Q) /\ Len(w) = n
      BY <3>2, <3>3
    <3>5. n \in Nat
      BY <1>2
    <3> HIDE DEF w, n
    <3> QED BY <3>4, <3>5
  <2>2. w \in [1..n -> S]
    BY <2>1
  <2> HIDE DEF S, n
  <2>3. w \in Seq(S)
    BY <2>1, <2>2, AsSequence
  <2> QED BY <2>3 DEF IsSeq, S
<1>4. IsSeq(SubSeq(v, 1, m))
  <2> DEFINE w == SubSeq(v, 1, m)
             S == {w[i] : i \in DOMAIN w}
  <2>1. w = [i \in 1..m |-> w[i]] /\ DOMAIN w = 1..m
    OBVIOUS
  <2>2. w \in [1..m -> S]
    BY <2>1
  <2> HIDE DEF S
  <2>3. w \in Seq(S)
    BY <2>1, <2>2, AsSequence
  <2> QED BY <2>3 DEF IsSeq, S
<1> QED
  BY <1>2, <1>3, <1>4

LEMMA TreeVars ==
  ASSUME NEW t, IsTree(t), NEW v, IsSeq(v)
  PROVE  LET u == [t EXCEPT !.vars = v] IN IsTree(u) /\ u.token = t.token /\ u.peekCount = t.peekCount
<1> HIDE DEF Item, Name
<1> QED
  BY DEF IsTree, TreeRec

LEMMA TreeEmpty ==
  ASSUME NEW t, IsTree(t), NEW b \in BOOLEAN
  PROVE  LET u == [t EXCEPT !.empty = b] IN IsTree(u) /\ u.token = t.token /\ u.peekCount = t.peekCount
<1> HIDE DEF Item, Name
<1> QED
  BY DEF IsTree, TreeRec

LEMMA TreeBackup2 ==
  ASSUME NEW t, IsTree(t), NEW v \in Item, NEW u, u = backup2(t, v)
  PROVE  IsTree(u) /\ u.token[1] = t.token[1] /\ u.token[2] = v /\ u.peekCount = 2
<1> HIDE DEF Item, Name
<1>1. t \in TreeRec(t) /\ IsSeq(t.vars)
  BY DEF IsTree
<1>2. t.token \in [1..3 -> Item]
  BY <1>1 DEF TreeRec
<1> DEFINE tok == [t.token EXCEPT ![2] = v]
<1>3. u = [t EXCEPT !.token = tok, !.peekCount = 2]
  BY DEF backup2
<1>4. tok \in [1..3 -> Item] /\ tok[1] = t.token[1] /\ tok[2] = v /\ 2 \in 0..3
  BY <1>2
<1> HIDE DEF tok
<1>5. IsTree(u) /\ u.token = tok /\ u.peekCount = 2
  BY <1>1, <1>3, <1>4 DEF IsTree, TreeRec
<1> QED
  BY <1>4, <1>5

LEMMA TreeBackup3 ==
  ASSUME NEW t, IsTree(t), NEW x \in Item, NEW v \in Item, NEW u, u = backup3(t, x, v)
  PROVE  IsTree(u) /\ u.token[1] = t.token[1] /\ u.token[2] = v /\ u.token[3] = x /\ u.peekCount = 3
<1> HIDE DEF Item, Name
<1>1. t \in TreeRec(t) /\ IsSeq(t.vars)
  BY DEF IsTree
<1>2. t.token \in [1..3 -> Item]
  BY <1>1 DEF TreeRec
<1> DEFINE tok == [[t.token EXCEPT ![2] = v] EXCEPT ![3] = x]
<1>3. u = [t EXCEPT !.token[2] = v, !.token[3] = x, !.peekCount = 3]
  BY DEF backup3
<1>4. tok \in [1..3 -> Item] /\ tok[1] = t.token[1] /\ tok[2] = v /\ tok[3] = x /\ 3 \in 0..3
  BY <1>2
<1>5. u = [t EXCEPT !.token = tok, !.peekCount = 3]
  BY <1>1, <1>2, <1>3 DEF TreeRec
<1> HIDE DEF tok
<1>6. IsTree(u) /\ u.token = tok /\ u.peekCount = 3
  BY <1>1, <1>4, <1>5 DEF IsTree, TreeRec
<1> QED
  BY <1>4, <1>6

LEMMA NewTree ==
  ASSUME NEW name \in Name
  PROVE  IsTree(New(name)) /\ New(name).peekCount = 0
<1> DEFINE v == <<"$">>
           tok == <<NoItem, NoItem, NoItem>>
<1>1. New(name) = [name |-> name, vars |-> v, token |-> tok, peekCount |-> 0, empty |-> TRUE]
  BY DEF New
<1>2. tok \in [1..3 -> Item]
  <2>1. NoItem \in Item
    BY NoItemFact
  <2> HIDE DEF NoItem, Item
  <2> QED BY <2>1
<1>3. IsSeq(v)
  BY DEF IsSeq
<1> HIDE DEF v, tok, Item, Name
<1>4. New(name) \in TreeRec(New(name)) /\ New(name).vars = v /\ New(name).peekCount = 0
  BY <1>1, <1>2 DEF TreeRec
<1> QED
  BY <1>3, <1>4 DEF IsTree
-----------------------------------------------------------------------------
\* The actions, one by one.
LEMMA StandStill ==
  ASSUME Working, Same, UNCHANGED <<stack, ret>>
  PROVE  Moved(Top.op) /\ Last(stack') = Top
<1>1. StackInv(stack) /\ Last(stack) = Top /\ ret \in RetRec /\ stack' = stack /\ ret' = ret /\ input' = input
  BY CurFacts DEF Working, Inv, Same
<1> QED
  BY <1>1 DEF Moved

LEMMA NextNonSpaceStep ==
  ASSUME Working, nextNonSpace
  PROVE  Inv'
<1>1. Top.op \in SkipsSpace /\ token.typ = "space" /\ Hold({"space"}) /\ Same /\ UNCHANGED <<stack, ret>>
  BY DEF nextNonSpace
<1>2. Moved(Top.op) /\ Last(stack') = Top
  BY <1>1, StandStill
<1>3. FillN = 1 /\ FillN - 1 = 0
  <2>1. Top.op \notin {"chain", "argEnd"}
    BY <1>1 DEF SkipsSpace
  <2> QED BY <1>1, <2>1, FillTokens
<1>4. Waits(Top, 0, FillTok, FillR)
  <2>1. Waits(Top, Cur.peekCount, Cur.token, read) /\ Top.op # "declAfter"
    BY <1>1, CurFacts DEF TokensInv, SkipsSpace
  <2>2. CASE Top.op = "declNext"
    <3>1. /\ Top.v.typ = "variable" /\ Top.after.at = Top.v.at + 1 /\ Given(Top.v) /\ Given(Top.after)
          /\ \/ Cur.peekCount = 1 /\ Cur.token[1] = Top.after
             \/ Cur.peekCount = 0 /\ Top.after.typ = "space" /\ read = Top.after.at
      BY <2>1, <2>2 DEF Waits
    <3>2. token.at \in DOMAIN input /\ IsSpace(token.at)
      BY <1>1, TokenGiven
    <3>3. token.at = FillR /\ token = FillTok[1]
      BY <1>3, <3>2, FirstAt
    <3>4. CASE Cur.peekCount = 1
      <4>1. FillTok = Cur.token
        BY <3>4 DEF FillTok
      <4>2. Top.after = token
        BY <3>1, <3>3, <3>4, <4>1
      <4> QED BY <1>1, <2>2, <3>1, <3>3, <4>2 DEF Waits
    <3>5. CASE Cur.peekCount = 0 /\ Top.after.typ = "space" /\ read = Top.after.at
      <4>1. token.at = read + 1 /\ read \in 0..Len(input)
        BY <1>3, <3>5, FirstAt, CurFacts
      <4>2. token.at > 1 /\ ~IsSpace(token.at - 1)
        BY <3>2, InputFacts DEF Working
      <4>3. token.at - 1 = read
        BY <4>1
      <4>4. Top.after.at \in DOMAIN input /\ Top.after.typ = input[Top.after.at].typ
        BY <3>1, <3>5 DEF Given
      <4>5. IsSpace(read)
        BY <3>5, <4>4 DEF IsSpace
      <4> QED BY <4>2, <4>3, <4>5
    <3> QED BY <3>1, <3>4, <3>5
  <2>3. CASE Top.op # "declNext"
    BY <2>1, <2>3 DEF Waits
  <2> QED BY <2>2, <2>3
<1>5. Buffer(Top.op, ret'.kind, FillN - 1, FillTok)
  BY <1>3, EmptyBuffer
<1>6. Waits(Last(stack'), FillN - 1, FillTok, FillR) /\ HeldAt(Last(stack')) = HeldAt(Top) /\ FillN - 1 \in 0..1
  BY <1>2, <1>3, <1>4
<1> QED
  BY <1>1, <1>2, <1>5, <1>6, SpaceStep

\* The lexer's error and end are never used.
LEMMA ParseStep ==
  ASSUME Working, parse
  PROVE  Inv'
<1> USE DEF At
<1>1. Top.op = "parse" /\ Plain(Top.op) /\ FillN = 1
  <2>1. Top.op = "parse"
    BY DEF parse
  <2> QED BY <2>1, AtMostOne DEF Plain, Ahead
<1>2. CASE status' # "parsing" /\ UNCHANGED <<input, ret>>
  BY <1>2 DEF Working, Inv
<1>3. CASE Hold({"left"}) /\ Become([Top EXCEPT !.op = "parseDelim", !.v = token]) /\ Same
  <2> DEFINE f == [Top EXCEPT !.op = "parseDelim", !.v = token]
  <2>1. token.typ = "left" /\ token \in Item /\ Top \in FrameRec
    BY <1>3, ReadTree, Fill, CurFacts DEF Hold
  <2>2. f \in FrameRec /\ f.op = "parseDelim" /\ f.v = token
    <3>1. "parseDelim" \in Op
      BY DEF Op, Root
    <3> QED BY <2>1, <3>1 DEF FrameRec
  <2>3. Goes(Top.op, f.op)
    BY <1>1, <2>2, GoesOn
  <2>4. Become(f)
    BY <1>3
  <2> HIDE DEF f
  <2>5. Moved("parseDelim") /\ Last(stack') = f
    BY <1>1, <1>3, <2>2, <2>3, <2>4, BecomeTo
  <2>6. Given(token)
    BY FillTokens
  <2>7. HeldAt(f) = token.at /\ Waits(f, 0, FillTok, FillR)
    BY <2>1, <2>2, <2>6 DEF HeldAt, Waits
  <2> QED BY <1>1, <1>3, <2>1, <2>5, <2>7, HoldStep
<1>4. CASE Peek(Any \ {"eof", "left"}) /\ Call("parsed", Frame("textOrAction", "")) /\ Same
  <2>1. Goes("parse", "parsed") /\ Invokes("parsed", "textOrAction") /\ "" \in Context
    BY GoesOn, MayInvoke DEF Context
  <2>2. Call("parsed", Frame("textOrAction", "")) /\ Same
    BY <1>4
  <2>3. Moved("textOrAction")
    BY <1>1, <2>1, <2>2, CallsTo
  <2> QED BY <1>1, <1>4, <2>3, PeekOne DEF Plain, Ended
<1> QED
  BY <1>2, <1>3, <1>4 DEF parse, errorf

\* Tokens are given back to the buffer of the innermost tree, which is t afterwards.
LEMMA BackStep ==
  ASSUME Working, NEW typs, NEW t, Read(typs, t), taken' = taken, IsTree(t), NEW op, Moved(op), Plain(op),
         Tokens(taken, 0, t.token, t.peekCount, FillR), Buffer(op, ret'.kind, t.peekCount, t.token)
  PROVE  Inv'
<1>1. read' = FillR /\ trees' = [trees EXCEPT ![Len(trees)] = t]
  BY ReadTree
<1>2. TreesInv(stack', trees') /\ Last(trees') = t
  BY <1>1, TreeChanged DEF Moved
<1>3. HeldAt(Last(stack')) = 0 /\ Waits(Last(stack'), t.peekCount, t.token, FillR)
  BY PlainFrame DEF Moved
<1>4. TokensInv(Last(stack'), ret'.kind, taken', Last(trees').token, Last(trees').peekCount, read')
  BY <1>1, <1>2, <1>3 DEF TokensInv, Moved
<1> QED
  BY <1>2, <1>4, Onward DEF Working, Moved

\* A tree is begun above those in progress, whose buffers are empty.
LEMMA TreeBegun ==
  ASSUME Working, NEW t, IsTree(t), t.peekCount = 0, NEW new, IsTree(new), NEW s, TreesIn(s) = TreesIn(stack) + 1,
         NEW ts, ts = Append([trees EXCEPT ![Len(trees)] = t], new)
  PROVE  TreesInv(s, ts) /\ Last(ts) = new
<1> DEFINE us == [trees EXCEPT ![Len(trees)] = t]
           n == Len(us)
<1>1. TreesInv(stack, us) /\ Last(us) = t
  BY TreeChanged
<1>2. TreesIn(stack) \in Nat
  BY CurFacts, TopFacts
<1>3. /\ us \in Seq({us[i] : i \in DOMAIN us}) /\ n = TreesIn(stack) + 1 /\ n \in Nat /\ DOMAIN us = 1..n
      /\ \A i \in 1..n : IsTree(us[i])
      /\ \A i \in 1..n - 1 : us[i].peekCount = 0
      /\ us[n].peekCount = 0
  <2> HIDE DEF us
  <2>1. us \in Seq({us[i] : i \in DOMAIN us}) /\ n = TreesIn(stack) + 1
    BY <1>1 DEF TreesInv, IsSeq
  <2>2. n \in Nat /\ DOMAIN us = 1..n
    BY <2>1
  <2>3. us[n] = t
    BY <1>1 DEF Last
  <2> QED BY <1>1, <2>1, <2>2, <2>3 DEF TreesInv
<1>4. ts = Append(us, new) /\ IsSeq(us)
  BY <1>3 DEF IsSeq
<1> HIDE DEF us, n
<1>5. IsSeq(ts)
  BY <1>4, VarsFacts
<1>6. Len(ts) = n + 1 /\ DOMAIN ts = 1..n + 1 /\ ts[n + 1] = new /\ \A i \in 1..n : ts[i] = us[i]
  <2>1. Len(us) = n
    BY DEF n
  <2> QED BY <1>3, <1>4, <2>1
<1>7. \A i \in DOMAIN ts : IsTree(ts[i])
  <2> TAKE i \in DOMAIN ts
  <2>1. i \in 1..n \/ i = n + 1
    BY <1>3, <1>6
  <2> QED BY <1>3, <1>6, <2>1
<1>8. \A i \in 1..n : ts[i].peekCount = 0
  <2> TAKE i \in 1..n
  <2>1. i \in 1..n - 1 \/ i = n
    BY <1>3
  <2> QED BY <1>3, <1>6, <2>1
<1>9. Len(ts) = TreesIn(s) + 1 /\ Len(ts) - 1 = n
  BY <1>2, <1>3, <1>6
<1> QED
  BY <1>5, <1>6, <1>7, <1>8, <1>9 DEF TreesInv, Last

LEMMA HeldFacts ==
  ASSUME Working, ~Plain(Top.op)
  PROVE  /\ HeldAt(Top) = Top.v.at /\ Top.v.at # 0 /\ Given(Top.v) /\ Top.v \in Item /\ Top.after \in Item
         /\ FillN = 1 /\ next.peekCount = 0
<1>1. Top \in FrameRec /\ Waits(Top, Cur.peekCount, Cur.token, read)
  BY CurFacts DEF TokensInv
<1>2. HeldAt(Top) = Top.v.at
  BY DEF HeldAt, Plain
<1>3. Given(Top.v)
  BY <1>1 DEF Waits, Plain
<1>4. Top.v.at # 0
  <2>1. Len(input) \in Nat /\ DOMAIN input = 1..Len(input)
    BY InputFacts DEF Working
  <2> QED BY <1>3, <2>1 DEF Given
<1>5. Top.v \in Item /\ Top.after \in Item
  BY <1>1 DEF FrameRec
<1>6. FillN = 1
  BY AtMostOne DEF Plain, Ahead
<1> QED
  BY <1>2, <1>3, <1>4, <1>5, <1>6, Fill

\* {define}: the trees of definitions begin with nothing pending in the tree around them.
LEMMA ParseDelimStep ==
  ASSUME Working, parseDelim
  PROVE  Inv'
<1>1. Top.op = "parseDelim" /\ ~Plain(Top.op) /\ Same
  BY DEF parseDelim, At, Plain
<1>2. /\ HeldAt(Top) = Top.v.at /\ Top.v.at # 0 /\ Given(Top.v) /\ Top.v \in Item /\ FillN = 1 /\ next.peekCount = 0
      /\ Top.v.typ = "left" /\ Cur.peekCount = 0 /\ Top \in FrameRec /\ read \in 0..Len(input)
  <2>1. /\ Top \in FrameRec /\ Waits(Top, Cur.peekCount, Cur.token, read)
        /\ Buffer(Top.op, ret.kind, Cur.peekCount, Cur.token)
    BY CurFacts DEF TokensInv
  <2>2. Top.v.typ = "left" /\ Cur.peekCount = 0
    BY <1>1, <2>1 DEF Waits, Buffer
  <2> QED BY <1>1, <2>1, <2>2, HeldFacts, CurFacts
<1>3. CASE /\ token.typ = "define" /\ read' = read + 1 /\ taken' = taken \o <<Top.v.at, token.at>>
           /\ trees' = Append([trees EXCEPT ![Len(trees)] = next], New("definition"))
           /\ Call("parse", Frame("defineName", ""))
  <2> DEFINE g == [Top EXCEPT !.op = "parse"]
             f == Frame("defineName", "")
             new == New("definition")
  <2>1. g \in FrameRec /\ g.op = "parse" /\ f \in FrameRec /\ f.op = "defineName"
    BY <1>2, OpFrame, NewFrame DEF Op, Root, Tree, Context
  <2>2. stack' = Front(stack) \o <<g, f>> /\ ret' = ret /\ input' = input
    BY <1>1, <1>3 DEF Call, Same
  <2> HIDE DEF g, f
  <2>3. /\ Kin(Top.op, g.op) /\ Calls(g.op, f.op)
        /\ Top.op \in Tree <=> g.op \in Tree
        /\ f.op \in Tree
    BY <1>1, <2>1 DEF Kin, Calls, Family, Root, Tree, List, NodeOp, Pipe, Command
  <2>4. StackInv(stack') /\ Last(stack') = f /\ TreesIn(stack') = TreesIn(stack) + 1
    BY <2>1, <2>2, <2>3, Called
  <2>5. IsTree(new) /\ new.peekCount = 0
    <3>1. "definition" \in Name
      BY DEF Name
    <3> QED BY <3>1, NewTree
  <2> HIDE DEF new
  <2>6. TreesInv(stack', trees') /\ Last(trees') = new
    <3>1. trees' = Append([trees EXCEPT ![Len(trees)] = next], new)
      BY <1>3 DEF new
    <3>2. IsTree(next) /\ next.peekCount = 0
      BY <1>2, Fill
    <3> QED BY <2>4, <2>5, <3>1, <3>2, TreeBegun
  <2>7. read' = FillR
    <3>1. token.at \in DOMAIN input
      BY <1>3, TokenGiven
    <3> QED BY <1>2, <1>3, <3>1, FirstAt
  <2>8. Tokens(taken', 0, new.token, 0, read')
    BY <1>2, <1>3, <2>7, UseBoth
  <2>9. Plain(f.op) /\ Buffer(f.op, ret'.kind, 0, new.token)
    BY <2>1, EmptyBuffer DEF Plain
  <2>10. TokensInv(Last(stack'), ret'.kind, taken', Last(trees').token, Last(trees').peekCount, read')
    BY <2>4, <2>5, <2>6, <2>8, <2>9, PlainFrame DEF TokensInv
  <2>11. ret' \in RetRec
    BY <2>2 DEF Working, Inv
  <2> QED BY <2>2, <2>4, <2>6, <2>10, <2>11, Onward DEF Working
<1>4. CASE /\ Read(NonSpace \ {"define"}, backup2(next, Top.v)) /\ UNCHANGED taken
           /\ Call("parsed", Frame("textOrAction", ""))
  <2> DEFINE t == backup2(next, Top.v)
  <2>1. IsTree(t) /\ t.token[1] = FillTok[1] /\ t.token[2] = Top.v /\ t.peekCount = 2
    <3>1. IsTree(next) /\ next.token = FillTok
      BY Fill
    <3>2. IsTree(t) /\ t.token[1] = next.token[1] /\ t.token[2] = Top.v /\ t.peekCount = 2
      BY <1>2, <3>1, TreeBackup2
    <3> QED BY <3>1, <3>2
  <2>2. FillTok \in [1..3 -> Item] /\ Tokens(taken, Top.v.at, FillTok, 1, FillR)
    BY <1>2, Fill, FillTokens
  <2>3. input \in Seq([typ : ItemType, name : Name])
    BY InputFacts DEF Working
  <2>4. Tokens(taken, 0, t.token, 2, FillR)
    <3> HIDE DEF t
    <3> QED BY <1>2, <2>1, <2>2, <2>3, BackToken
  <2>6. Goes("parseDelim", "parsed") /\ Invokes("parsed", "textOrAction") /\ "" \in Context
    BY GoesOn, MayInvoke DEF Context
  <2>7. Moved("textOrAction")
    BY <1>1, <1>4, <2>6, CallsTo
  <2>8. Read(NonSpace \ {"define"}, t) /\ taken' = taken
    BY <1>4
  <2> HIDE DEF t
  <2>9. Buffer("textOrAction", ret'.kind, t.peekCount, t.token)
    BY <1>2, <2>1 DEF Buffer, Ended
  <2> QED BY <2>1, <2>4, <2>7, <2>8, <2>9, BackStep DEF Plain
<1> QED
  BY <1>3, <1>4 DEF parseDelim

\* The end of a tree: those around it wait with empty buffers.
LEMMA EndTreeStep ==
  ASSUME Working, EndTree
  PROVE  Inv'
<1>1. Top.op = "treeList" /\ ret.kind = "end" /\ NoRead /\ input' = input /\ trees' = Front(trees) /\ Return(Node)
  BY DEF EndTree, At
<1>2. /\ StackInv(stack) /\ Last(stack) = Top /\ Top.op \notin Root /\ Top.op \in Tree
      /\ IsSeq(trees) /\ Len(trees) = TreesIn(stack) + 1 /\ Len(trees) \in Nat /\ DOMAIN trees = 1..Len(trees)
  BY <1>1, CurFacts DEF Root, Tree
<1>3. stack' = Front(stack) /\ ret' = Node
  BY <1>1 DEF Return
<1>4. StackInv(stack') /\ Calls(Last(stack').op, "treeList") /\ TreesIn(stack') = TreesIn(stack) - 1
  BY <1>1, <1>2, <1>3, Popped
<1>5. TreesIn(stack') \in Nat /\ TreesIn(stack) \in Nat
  BY <1>2, <1>4, TopFacts
<1> DEFINE n == Len(trees) - 1
<1>6. n \in Nat /\ n > 0 /\ n = TreesIn(stack') + 1
  BY <1>2, <1>4, <1>5
<1>7. /\ trees' = SubSeq(trees, 1, n)
      /\ \A i \in 1..n : IsTree(trees[i]) /\ trees[i].peekCount = 0
  <2>1. /\ \A i \in DOMAIN trees : IsTree(trees[i])
        /\ \A i \in 1..Len(trees) - 1 : trees[i].peekCount = 0
    BY DEF Working, Inv, Good, TreesInv
  <2>2. \A i \in 1..n : i \in DOMAIN trees
    BY <1>2
  <2> QED BY <1>1, <2>1, <2>2 DEF Front
<1> HIDE DEF n
<1>8. IsSeq(trees') /\ Len(trees') = n /\ DOMAIN trees' = 1..n /\ \A i \in 1..n : trees'[i] = trees[i]
  <2>1. IsSeq(SubSeq(trees, 1, n))
    BY <1>2, <1>6, VarsFacts
  <2>2. /\ Len(SubSeq(trees, 1, n)) = n /\ DOMAIN SubSeq(trees, 1, n) = 1..n
        /\ \A i \in 1..n : SubSeq(trees, 1, n)[i] = trees[i]
    BY <1>6
  <2> QED BY <1>7, <2>1, <2>2
<1>9. TreesInv(stack', trees') /\ Last(trees').peekCount = 0
  <2>1. \A i \in 1..n - 1 : i \in 1..n
    BY <1>6
  <2>2. n \in 1..n
    BY <1>6
  <2> QED BY <1>6, <1>7, <1>8, <2>1, <2>2 DEF TreesInv, Last
<1>10. Tokens(taken', 0, Last(trees').token, 0, read')
  <2>1. Cur.peekCount = 0 /\ Plain(Top.op)
    <3>1. Buffer(Top.op, ret.kind, Cur.peekCount, Cur.token)
      BY CurFacts DEF TokensInv
    <3> QED BY <1>1, <3>1 DEF Buffer, Ended, Plain
  <2>2. Tokens(taken, 0, Cur.token, 0, read)
    BY <2>1, CurFacts, PlainFrame DEF TokensInv
  <2> QED BY <1>1, <2>2, NoPending DEF NoRead
<1>11. Plain(Last(stack').op)
  BY <1>4 DEF Calls, Plain, Tree, NodeOp, List, Pipe, Command
<1>12. TokensInv(Last(stack'), ret'.kind, taken', Last(trees').token, Last(trees').peekCount, read')
  BY <1>9, <1>10, <1>11, PlainFrame, EmptyBuffer DEF TokensInv
<1>13. ret' \in RetRec
  BY <1>3, NodeFact
<1> QED
  BY <1>1, <1>4, <1>9, <1>12, <1>13, Onward DEF Working

\* {block}: nothing is pending when its pipeline has ended.
LEMMA BlockControlStep ==
  ASSUME Working, blockControl
  PROVE  Inv'
<1>1. /\ Top.op = "blockPipe" /\ NoRead /\ Same /\ trees' = Append(trees, New(Top.name))
      /\ Call("treeList", Frame("list", "root"))
  BY DEF blockControl, At
<1>2. /\ Top \in FrameRec /\ IsTree(Cur) /\ Cur = trees[Len(trees)] /\ trees \in Seq({trees[i] : i \in DOMAIN trees})
      /\ Len(trees) \in Nat /\ Len(trees) > 0
      /\ Buffer(Top.op, ret.kind, Cur.peekCount, Cur.token)
      /\ Tokens(taken, HeldAt(Top), Cur.token, Cur.peekCount, read)
  BY CurFacts DEF TokensInv, IsSeq
<1>3. Cur.peekCount = 0 /\ Plain(Top.op)
  BY <1>1, <1>2 DEF Buffer, Plain
<1> DEFINE g == [Top EXCEPT !.op = "treeList"]
           f == Frame("list", "root")
           new == New(Top.name)
<1>4. g \in FrameRec /\ g.op = "treeList" /\ f \in FrameRec /\ f.op = "list"
  BY <1>2, OpFrame, NewFrame DEF Op, List, Tree, Context
<1>5. stack' = Front(stack) \o <<g, f>> /\ ret' = ret /\ input' = input
  BY <1>1 DEF Call, Same
<1> HIDE DEF g, f
<1>6. Kin(Top.op, g.op) /\ Calls(g.op, f.op) /\ Top.op \notin Tree /\ g.op \in Tree /\ f.op \notin Tree
  BY <1>1, <1>4 DEF Kin, Calls, Family, Root, Tree, List, NodeOp, Pipe, Command
<1>7. StackInv(stack') /\ Last(stack') = f /\ TreesIn(stack') = TreesIn(stack) + 1
  BY <1>4, <1>5, <1>6, Called
<1>8. IsTree(new) /\ new.peekCount = 0
  <2>1. Top.name \in Name
    BY <1>2 DEF FrameRec
  <2> QED BY <2>1, NewTree
<1>9. trees' = Append([trees EXCEPT ![Len(trees)] = Cur], new)
  <2>1. trees = [trees EXCEPT ![Len(trees)] = Cur]
    BY <1>2
  <2> QED BY <1>1, <2>1
<1> HIDE DEF new
<1>10. TreesInv(stack', trees') /\ Last(trees') = new
  BY <1>2, <1>3, <1>7, <1>8, <1>9, TreeBegun
<1>11. Tokens(taken', 0, new.token, 0, read')
  <2>1. Tokens(taken, 0, Cur.token, 0, read)
    BY <1>2, <1>3, PlainFrame
  <2> QED BY <1>1, <2>1, NoPending DEF NoRead
<1>12. Plain(f.op) /\ Buffer(f.op, ret'.kind, 0, new.token)
  BY <1>4, EmptyBuffer DEF Plain
<1>13. TokensInv(Last(stack'), ret'.kind, taken', Last(trees').token, Last(trees').peekCount, read')
  BY <1>7, <1>8, <1>10, <1>11, <1>12, PlainFrame DEF TokensInv
<1>14. ret' \in RetRec
  BY <1>5 DEF Working, Inv
<1> QED
  BY <1>5, <1>7, <1>10, <1>13, <1>14, Onward DEF Working

LEMMA DeclareStep ==
  ASSUME Working, ~Plain(Top.op), NEW typs, Declare(typs), token.typ \notin {"space", "eof", "error"},
         NEW op, Moved(op), Plain(op)
  PROVE  Inv'
<1> DEFINE v == Append(next.vars, Top.v.name)
           t == [next EXCEPT !.vars = v]
<1>1. Read(typs, t) /\ taken' = taken \o <<HeldAt(Top), token.at>>
  BY HeldFacts DEF Declare
<1>2. IsTree(next) /\ IsSeq(next.vars) /\ next.peekCount = 0 /\ FillN = 1 /\ HeldAt(Top) # 0
  BY Fill, HeldFacts DEF IsTree
<1>3. IsSeq(v)
  BY <1>2, VarsFacts
<1> HIDE DEF v
<1>4. IsTree(t) /\ t.peekCount = 0
  BY <1>2, <1>3, TreeVars
<1> HIDE DEF t
<1>5. read' = FillR /\ trees' = [trees EXCEPT ![Len(trees)] = t]
  BY <1>1, ReadTree
<1>6. TreesInv(stack', trees') /\ Last(trees') = t
  BY <1>4, <1>5, TreeChanged DEF Moved
<1>7. Tokens(taken', 0, t.token, 0, read')
  BY <1>1, <1>2, <1>5, UseBoth
<1>8. Buffer(op, ret'.kind, 0, t.token) /\ HeldAt(Last(stack')) = 0 /\ Waits(Last(stack'), 0, t.token, read')
  BY EmptyBuffer, PlainFrame DEF Moved
<1>9. TokensInv(Last(stack'), ret'.kind, taken', Last(trees').token, Last(trees').peekCount, read')
  BY <1>4, <1>6, <1>7, <1>8 DEF TokensInv, Moved
<1> QED
  BY <1>6, <1>9, Onward DEF Working, Moved

\* Whether a variable is declared: the token after it is looked at, and the one after a space.
LEMMA NextAfter ==
  ASSUME Working, Top.op = "declNext", token.typ # "space"
  PROVE  /\ Top.v.typ = "variable" /\ Top.after.at = Top.v.at + 1 /\ Given(Top.v) /\ Given(Top.after)
         /\ token = FillTok[1] /\ FillN = 1
         /\ Top.after.typ = "space" => token.at = Top.after.at + 1
         /\ Top.after.typ # "space" => token = Top.after
<1>1. FillN = 1 /\ token = FillTok[1] /\ (Cur.peekCount = 0 => token.at = read + 1)
  BY HeldFacts, FirstAt DEF Plain
<1>2. /\ Top.v.typ = "variable" /\ Top.after.at = Top.v.at + 1 /\ Given(Top.v) /\ Given(Top.after)
      /\ \/ Cur.peekCount = 1 /\ Cur.token[1] = Top.after
         \/ Cur.peekCount = 0 /\ Top.after.typ = "space" /\ read = Top.after.at
  BY CurFacts DEF TokensInv, Waits
<1>3. CASE Cur.peekCount = 1 /\ Cur.token[1] = Top.after
  <2>1. FillTok = Cur.token
    BY <1>3 DEF FillTok
  <2> QED BY <1>1, <1>2, <1>3, <2>1
<1>4. CASE Cur.peekCount = 0 /\ Top.after.typ = "space" /\ read = Top.after.at
  BY <1>1, <1>2, <1>4
<1> QED
  BY <1>2, <1>3, <1>4

LEMMA GiveBackStep ==
  ASSUME Working, Top.op = "declNext", Same, UNCHANGED taken, Becomes("pipe"),
         Read(NonSpace \ {"assign", "declare", "comma"},
              IF Top.after.typ = "space" THEN backup3(next, Top.v, Top.after) ELSE backup2(next, Top.v))
  PROVE  Inv'
<1> DEFINE typs == NonSpace \ {"assign", "declare", "comma"}
           given == IF Top.after.typ = "space" THEN backup3(next, Top.v, Top.after) ELSE backup2(next, Top.v)
<1>1. Read(typs, given) /\ taken' = taken /\ token.typ # "space"
  BY ReadTree DEF NonSpace
<1>2. /\ Top.v.typ = "variable" /\ Top.after.at = Top.v.at + 1 /\ Given(Top.v) /\ Given(Top.after)
      /\ token = FillTok[1] /\ FillN = 1
      /\ Top.after.typ = "space" => token.at = Top.after.at + 1
      /\ Top.after.typ # "space" => token = Top.after
  BY <1>1, NextAfter
<1>3. HeldAt(Top) = Top.v.at /\ Top.v.at # 0 /\ Top.v \in Item /\ Top.after \in Item
  BY HeldFacts DEF Plain
<1>4. IsTree(next) /\ next.token = FillTok /\ FillTok \in [1..3 -> Item] /\ input \in Seq([typ : ItemType, name : Name])
  BY Fill, InputFacts DEF Working
<1>5. Tokens(taken, Top.v.at, FillTok, 1, FillR)
  BY <1>2, <1>3, FillTokens
<1>6. Moved("pipe")
  <2>1. Goes("declNext", "pipe")
    BY GoesOn DEF Pipe
  <2> QED BY <2>1, BecomesTo
<1>7. CASE Top.after.typ = "space"
  <2>1. given = backup3(next, Top.v, Top.after)
    BY <1>7
  <2> HIDE DEF given
  <2>2. /\ IsTree(given) /\ given.token[1] = FillTok[1] /\ given.token[2] = Top.after
        /\ given.token[3] = Top.v /\ given.peekCount = 3
    <3>0. IsTree(next) /\ Top.v \in Item /\ Top.after \in Item
      BY <1>3, <1>4
    <3>1. /\ IsTree(given) /\ given.token[1] = next.token[1] /\ given.token[2] = Top.after
          /\ given.token[3] = Top.v /\ given.peekCount = 3
      BY ONLY <2>1, <3>0, TreeBackup3
    <3> QED BY <1>4, <3>1
  <2>3. Tokens(taken, 0, given.token, given.peekCount, FillR)
    BY <1>2, <1>3, <1>4, <1>5, <1>7, <2>2, BackSpaced
  <2>4. Buffer("pipe", ret'.kind, given.peekCount, given.token)
    BY <1>2, <1>7, <2>2 DEF Buffer, Ended
  <2> HIDE DEF typs
  <2> QED BY <1>1, <1>6, <2>2, <2>3, <2>4, BackStep DEF Plain
<1>8. CASE Top.after.typ # "space"
  <2>1. given = backup2(next, Top.v)
    BY <1>8
  <2> HIDE DEF given
  <2>2. IsTree(given) /\ given.token[1] = FillTok[1] /\ given.token[2] = Top.v /\ given.peekCount = 2
    <3>0. IsTree(next) /\ Top.v \in Item /\ Top.after \in Item
      BY <1>3, <1>4
    <3>1. IsTree(given) /\ given.token[1] = next.token[1] /\ given.token[2] = Top.v /\ given.peekCount = 2
      BY ONLY <2>1, <3>0, TreeBackup2
    <3> QED BY <1>4, <3>1
  <2>3. Tokens(taken, 0, given.token, given.peekCount, FillR)
    BY <1>2, <1>3, <1>4, <1>5, <1>8, <2>2, BackToken
  <2>4. Buffer("pipe", ret'.kind, given.peekCount, given.token)
    BY <1>2, <2>2 DEF Buffer, Ended
  <2> HIDE DEF typs
  <2> QED BY <1>1, <1>6, <2>2, <2>3, <2>4, BackStep DEF Plain
<1> QED
  BY <1>7, <1>8

LEMMA DeclarationsStep ==
  ASSUME Working, declarations
  PROVE  Inv'
<1> USE DEF At
<1>1. CASE At("decl") /\ Hold({"variable"}) /\ Become([Top EXCEPT !.op = "declAfter", !.v = token]) /\ Same
  <2> DEFINE f == [Top EXCEPT !.op = "declAfter", !.v = token]
  <2>1. token.typ = "variable" /\ token \in Item /\ Top \in FrameRec /\ Plain(Top.op)
    BY <1>1, ReadTree, Fill, CurFacts DEF Hold, Plain
  <2>2. f \in FrameRec /\ f.op = "declAfter" /\ f.v = token
    <3>1. "declAfter" \in Op
      BY DEF Op, Pipe
    <3> QED BY <2>1, <3>1 DEF FrameRec
  <2>3. Become(f) /\ Goes(Top.op, f.op)
    BY <1>1, <2>2, GoesOn DEF Pipe
  <2> HIDE DEF f
  <2>4. Moved("declAfter") /\ Last(stack') = f
    BY <1>1, <2>2, <2>3, BecomeTo
  <2>5. Given(token) /\ FillN = 1 /\ token.at = FillR
    <3>1. FillN = 1 /\ token.at \in DOMAIN input
      BY <1>1, <2>1, AtMostOne, TokenGiven DEF Ahead
    <3> QED BY <3>1, FirstAt, FillTokens
  <2>6. HeldAt(f) = token.at /\ Waits(f, 0, FillTok, FillR)
    BY <2>1, <2>2, <2>5 DEF HeldAt, Waits
  <2> QED BY <1>1, <2>1, <2>4, <2>5, <2>6, HoldStep
<1>2. CASE At("decl") /\ Peek(NonSpace \ {"variable"}) /\ Becomes("pipe") /\ Same
  <2>1. FillN = 1 /\ Goes("decl", "pipe")
    BY <1>2, AtMostOne, GoesOn DEF Ahead, Pipe
  <2>2. Moved("pipe")
    BY <1>2, <2>1, BecomesTo
  <2> QED BY <1>2, <2>1, <2>2, PeekOne DEF Plain, Ended
<1>3. CASE At("declAfter") /\ Peek(Any) /\ Become([Top EXCEPT !.op = "declNext", !.after = token]) /\ Same
  <2> DEFINE f == [Top EXCEPT !.op = "declNext", !.after = token]
  <2>1. /\ token \in Item /\ Top \in FrameRec /\ ~Plain(Top.op)
        /\ Buffer(Top.op, ret.kind, Cur.peekCount, Cur.token) /\ Waits(Top, Cur.peekCount, Cur.token, read)
    BY <1>3, Fill, CurFacts DEF Plain, TokensInv
  <2>2. f \in FrameRec /\ f.op = "declNext" /\ f.v = Top.v /\ f.after = token
    <3>1. "declNext" \in Op
      BY DEF Op, Pipe
    <3> QED BY <2>1, <3>1 DEF FrameRec
  <2>3. Become(f) /\ Goes(Top.op, f.op)
    BY <1>3, <2>2, GoesOn DEF Pipe
  <2> HIDE DEF f
  <2>4. Moved("declNext") /\ Last(stack') = f
    BY <1>3, <2>2, <2>3, BecomeTo
  <2>5. Cur.peekCount = 0 /\ Top.v.typ = "variable" /\ Top.v.at = read /\ Given(Top.v)
    BY <1>3, <2>1 DEF Buffer, Waits
  <2>6. FillN = 1 /\ HeldAt(Top) = Top.v.at /\ token = FillTok[1] /\ token.at = Top.v.at + 1 /\ Given(token)
    BY <2>1, <2>5, HeldFacts, FirstAt, FillTokens
  <2>7. /\ read' = FillR /\ taken' = taken /\ TreesInv(stack', trees')
        /\ Last(trees').token = FillTok /\ Last(trees').peekCount = 1
    <3>1. read' = FillR /\ taken' = taken /\ trees' = [trees EXCEPT ![Len(trees)] = backup(next)]
      BY <1>3, ReadTree DEF Peek
    <3>2. TreesInv(stack', trees') /\ Last(trees') = backup(next)
      BY <2>4, <3>1, BackupTree, TreeChanged DEF Moved
    <3> QED BY <2>6, <3>1, <3>2, BackupTree
  <2>8. Tokens(taken, HeldAt(f), FillTok, 1, FillR)
    <3>1. HeldAt(f) = Top.v.at
      BY <2>2 DEF HeldAt
    <3> QED BY <2>6, <3>1, FillTokens
  <2>9. Buffer(f.op, ret'.kind, 1, FillTok) /\ Waits(f, 1, FillTok, FillR)
    BY <2>2, <2>5, <2>6 DEF Buffer, Ended, Waits
  <2>10. TokensInv(Last(stack'), ret'.kind, taken', Last(trees').token, Last(trees').peekCount, read')
    BY <2>4, <2>7, <2>8, <2>9 DEF TokensInv
  <2> QED BY <2>4, <2>7, <2>10, Onward DEF Working, Moved
<1>4. CASE At("declNext") /\ Declare({"assign", "declare"}) /\ Become([Top EXCEPT !.op = "pipe", !.decls = @ + 1]) /\ Same
  <2> DEFINE f == [Top EXCEPT !.op = "pipe", !.decls = Top.decls + 1]
  <2>1. f \in FrameRec /\ f.op = "pipe"
    <3>1. Top \in FrameRec /\ Top.decls + 1 \in Nat /\ "pipe" \in Op
      BY CurFacts DEF FrameRec, Op, Pipe
    <3> QED BY <3>1 DEF FrameRec
  <2>2. Become(f) /\ Goes(Top.op, f.op)
    BY <1>4, <2>1, GoesOn DEF Pipe
  <2> HIDE DEF f
  <2>3. Moved("pipe")
    BY <1>4, <2>1, <2>2, BecomeTo
  <2>4. token.typ \notin {"space", "eof", "error"} /\ ~Plain(Top.op)
    BY <1>4 DEF Declare, Read, Plain
  <2> QED BY <1>4, <2>3, <2>4, DeclareStep DEF Plain
<1>5. CASE At("declNext") /\ Declare({"comma"}) /\ Become([Top EXCEPT !.op = "declSecond", !.decls = 1]) /\ Same
  <2> DEFINE f == [Top EXCEPT !.op = "declSecond", !.decls = 1]
  <2>1. f \in FrameRec /\ f.op = "declSecond"
    <3>1. Top \in FrameRec /\ 1 \in Nat /\ "declSecond" \in Op
      BY CurFacts DEF Op, Pipe
    <3> QED BY <3>1 DEF FrameRec
  <2>2. Become(f) /\ Goes(Top.op, f.op)
    BY <1>5, <2>1, GoesOn DEF Pipe
  <2> HIDE DEF f
  <2>3. Moved("declSecond")
    BY <1>5, <2>1, <2>2, BecomeTo
  <2>4. token.typ \notin {"space", "eof", "error"} /\ ~Plain(Top.op)
    BY <1>5 DEF Declare, Read, Plain
  <2> QED BY <1>5, <2>3, <2>4, DeclareStep DEF Plain
<1>6. CASE At("declSecond") /\ Peek({"variable", "right", "rparen"}) /\ Becomes("decl") /\ Same
  <2>1. FillN = 1 /\ Goes("declSecond", "decl")
    BY <1>6, AtMostOne, GoesOn DEF Ahead, Pipe
  <2>2. Moved("decl")
    BY <1>6, <2>1, BecomesTo
  <2> QED BY <1>6, <2>1, <2>2, PeekOne DEF Plain, Ended
<1> QED
  BY <1>1, <1>2, <1>3, <1>4, <1>5, <1>6, GiveBackStep DEF declarations

LEMMA ParseDefinitionStep ==
  ASSUME Working, parseDefinition
  PROVE  Inv'
<1> USE DEF At
<1>1. CASE At("defineName") /\ Use({"string"}) /\ Become([Top EXCEPT !.op = "defineDelim", !.name = token.name]) /\ Same
  <2> DEFINE f == [Top EXCEPT !.op = "defineDelim", !.name = token.name]
  <2>1. f \in FrameRec /\ f.op = "defineDelim"
    <3>1. "defineDelim" \in Op /\ token.name \in Name /\ Top \in FrameRec
      BY Fill, CurFacts DEF Op, Tree, Item
    <3> QED BY <3>1 DEF FrameRec
  <2>2. Become(f) /\ Goes(Top.op, f.op)
    BY <1>1, <2>1, GoesOn
  <2> HIDE DEF f
  <2>3. Moved("defineDelim")
    BY <1>1, <2>1, <2>2, BecomeTo
  <2>4. FillN = 1 /\ token.typ = "string"
    BY <1>1, AtMostOne, ReadTree DEF Ahead, Use
  <2> QED BY <1>1, <2>3, <2>4, UseOne DEF Plain
<1>2. CASE At("defineDelim") /\ Use({"right"}) /\ Call("treeList", Frame("list", "root")) /\ Same
  <2>1. Goes("defineDelim", "treeList") /\ Invokes("treeList", "list") /\ "root" \in Context
    BY GoesOn, MayInvoke DEF Context
  <2>2. Moved("list")
    BY <1>2, <2>1, CallsTo
  <2>3. FillN = 1 /\ token.typ = "right"
    BY <1>2, AtMostOne, ReadTree DEF Ahead, Use
  <2> QED BY <1>2, <2>2, <2>3, UseOne DEF Plain
<1> QED
  BY <1>1, <1>2 DEF parseDefinition

LEMMA AppendStep ==
  ASSUME Working, NEW from, Top.op = from, NEW op, AppendNode(op), Goes(from, op),
         from \notin Ahead, Plain(from), Plain(op), op # "blockPipe", op \notin Ended
  PROVE  Inv'
<1>1. /\ Becomes(op) /\ NoRead /\ Same
      /\ trees' = [trees EXCEPT ![Len(trees)].empty = @ /\ (Top.ctx # "root" \/ ret.kind = "blank")]
  BY DEF AppendNode
<1>2. /\ IsTree(Cur) /\ Cur = trees[Len(trees)] /\ trees \in Seq({trees[i] : i \in DOMAIN trees})
      /\ Len(trees) \in Nat /\ Len(trees) > 0
  BY CurFacts DEF IsSeq
<1> DEFINE b == Cur.empty /\ (Top.ctx # "root" \/ ret.kind = "blank")
           new == [Cur EXCEPT !.empty = b]
<1>3. b \in BOOLEAN
  OBVIOUS
<1>4. trees' = [trees EXCEPT ![Len(trees)] = new]
  BY <1>1, <1>2
<1>5. IsTree(new) /\ new.token = Cur.token /\ new.peekCount = Cur.peekCount
  <2> HIDE DEF b
  <2> QED BY <1>2, <1>3, TreeEmpty
<1>6. Moved(op)
  BY <1>1, BecomesTo
<1>7. Buffer(op, ret'.kind, Cur.peekCount, Cur.token)
  <2>1. Cur.peekCount = 0 \/ Cur.peekCount = 1
    BY AtMostOne
  <2> QED BY <2>1, EmptyBuffer, OneBuffered DEF Plain
<1> HIDE DEF new
<1> QED
  BY <1>1, <1>4, <1>5, <1>6, <1>7, QuietTree

LEMMA ItemListStep ==
  ASSUME Working, itemList
  PROVE  Inv'
<1> USE DEF At
<1>1. CASE At("list") /\ Peek(NonSpace \ {"eof"}) /\ Call("listed", Frame("textOrAction", "")) /\ Same
  <2>1. Goes("list", "listed") /\ Invokes("listed", "textOrAction") /\ "" \in Context /\ FillN = 1
    BY <1>1, GoesOn, MayInvoke, AtMostOne DEF Context, Ahead
  <2>2. Moved("textOrAction")
    BY <1>1, <2>1, CallsTo
  <2> QED BY <1>1, <2>1, <2>2, PeekOne DEF Plain, Ended
<1>2. CASE Resume("listed") /\ ret.kind \in {"end", "else"} /\ Return(ret)
  <2>1. Top.op = "listed" /\ NoRead /\ trees' = trees /\ Same /\ ret \in RetRec
    BY <1>2 DEF Resume, KeepTrees, Working, Inv
  <2>2. /\ Moved(Last(stack').op) /\ ret' = ret /\ Plain(Last(stack').op)
        /\ Last(stack').op \in {"treeList", "controlList", "controlElse"}
    BY <1>2, <2>1, ReturnFrom DEF List
  <2>3. ret.kind # "end" \/ Cur.peekCount = 0
    <3>1. Buffer(Top.op, ret.kind, Cur.peekCount, Cur.token)
      BY CurFacts DEF TokensInv
    <3> QED BY <2>1, <3>1 DEF Buffer, Ended
  <2> QED BY <2>1, <2>2, <2>3, QuietOne DEF Plain, Ahead
<1>3. CASE At("listed") /\ AppendNode("list")
  BY <1>3, GoesOn, AppendStep DEF Ahead, Plain, Ended
<1> QED
  BY <1>1, <1>2, <1>3 DEF itemList

LEMMA ParsedStep ==
  ASSUME Working, parsed
  PROVE  Inv'
<1>1. Top.op = "parsed" /\ AppendNode("parse")
  BY DEF parsed, At
<1> QED
  BY <1>1, GoesOn, AppendStep DEF Ahead, Plain, Ended

LEMMA TextOrActionStep ==
  ASSUME Working, textOrAction
  PROVE  Inv'
<1>1. Top.op = "textOrAction" /\ Same /\ Plain(Top.op)
  BY DEF textOrAction, At, Plain
<1>2. ASSUME NEW typs, Use(typs), NEW r \in RetRec, Return(r), token.typ \in {"text", "blank"}
      PROVE  Inv'
  <2>1. Moved(Last(stack').op) /\ Plain(Last(stack').op)
    BY <1>1, <1>2, ReturnFrom DEF NodeOp
  <2>2. FillN = 1
    BY <1>2, OneFilled
  <2> QED BY <1>1, <1>2, <2>1, <2>2, UseOne
<1>3. CASE Use({"text"}) /\ Return(Node)
  BY <1>2, <1>3, NodeFact, ReadTree DEF Use
<1>4. CASE Use({"blank"}) /\ Return([Node EXCEPT !.kind = "blank"])
  <2>1. [Node EXCEPT !.kind = "blank"] \in RetRec
    BY DEF Node, RetRec
  <2> QED BY <1>2, <1>4, <2>1, ReadTree DEF Use
<1>5. CASE Use({"left"}) /\ Becomes("action")
  <2>1. Goes("textOrAction", "action")
    BY GoesOn DEF NodeOp
  <2>2. Moved("action")
    BY <1>1, <1>5, <2>1, BecomesTo
  <2>3. token.typ = "left"
    BY <1>5, ReadTree DEF Use
  <2>4. FillN - 1 = 0 \/ FillN - 1 = 1
    BY <2>3, FillTokens
  <2>5. Buffer("action", ret'.kind, FillN - 1, FillTok)
    BY <2>4, EmptyBuffer, OneBuffered DEF Ended
  <2> QED BY <1>1, <1>5, <2>2, <2>3, <2>5, UseStep DEF Plain, Moved
<1> QED
  BY <1>3, <1>4, <1>5 DEF textOrAction

LEMMA ControlFrame ==
  ASSUME Working, NEW ctx \in Context
  PROVE  LET f == [Frame("control", ctx) EXCEPT !.mark = Len(Cur.vars)] IN f \in FrameRec /\ f.op = "control"
<1>1. Len(Cur.vars) \in Nat
  BY CurFacts, VarsFacts DEF IsTree
<1>2. Frame("control", ctx) \in FrameRec /\ Frame("control", ctx).op = "control"
  BY NewFrame DEF Op, NodeOp
<1> QED
  BY <1>1, <1>2 DEF FrameRec

LEMMA ActionStep ==
  ASSUME Working, action
  PROVE  Inv'
<1>1. Top.op = "action" /\ Same /\ Plain(Top.op) /\ FillN = 1
  <2>1. Top.op = "action" /\ Same
    BY DEF action, At
  <2> QED BY <2>1, AtMostOne DEF Plain, Ahead
<1>2. CASE Use({"end", "else"}) /\ Becomes(token.typ)
  <2>1. token.typ \in {"end", "else"}
    BY <1>2, ReadTree DEF Use
  <2>2. Goes("action", token.typ)
    BY <2>1, GoesOn DEF NodeOp
  <2>3. Moved(token.typ)
    BY <1>1, <1>2, <2>2, BecomesTo
  <2> QED BY <1>1, <1>2, <2>1, <2>3, UseOne DEF Plain
<1>3. CASE Use({"template", "block"}) /\ Become(Frame("templateName", token.typ))
  <2>1. token.typ \in {"template", "block"}
    BY <1>3, ReadTree DEF Use
  <2> DEFINE f == Frame("templateName", token.typ)
  <2>2. f \in FrameRec /\ f.op = "templateName"
    BY <2>1, NewFrame DEF Op, NodeOp, Context
  <2>3. Become(f) /\ Goes(Top.op, f.op)
    BY <1>1, <1>3, <2>2, GoesOn DEF NodeOp
  <2> HIDE DEF f
  <2>4. Moved("templateName")
    BY <1>1, <2>2, <2>3, BecomeTo
  <2> QED BY <1>1, <1>3, <2>1, <2>4, UseOne DEF Plain
<1>4. CASE Use(Control) /\ Become([Frame("control", token.typ) EXCEPT !.mark = Len(Cur.vars)])
  <2>1. token.typ \in Control
    BY <1>4, ReadTree DEF Use
  <2> DEFINE f == [Frame("control", token.typ) EXCEPT !.mark = Len(Cur.vars)]
  <2>2. f \in FrameRec /\ f.op = "control"
    <3>1. token.typ \in Context
      BY <2>1 DEF Context
    <3> QED BY <3>1, ControlFrame
  <2>3. Become(f) /\ Goes(Top.op, f.op)
    BY <1>1, <1>4, <2>2, GoesOn DEF NodeOp
  <2> HIDE DEF f
  <2>4. Moved("control")
    BY <1>1, <2>2, <2>3, BecomeTo
  <2>5. token.typ \notin {"space", "eof", "error"}
    BY <2>1 DEF Control
  <2> QED BY <1>1, <1>4, <2>4, <2>5, UseOne DEF Plain
<1>5. CASE Peek(NonSpace \ Keyword) /\ Call("done", Frame("decl", "command"))
  <2>1. Goes("action", "done") /\ Invokes("done", "decl") /\ "command" \in Context
    BY GoesOn, MayInvoke DEF Context, NodeOp
  <2>2. Moved("decl")
    BY <1>1, <1>5, <2>1, CallsTo
  <2> QED BY <1>1, <1>5, <2>2, PeekOne DEF Plain, Ended
<1> QED
  BY <1>2, <1>3, <1>4, <1>5 DEF action

LEMMA DoneStep ==
  ASSUME Working, done
  PROVE  Inv'
<1>1. Top.op = "done" /\ NoRead /\ trees' = trees /\ Same /\ Return(Node)
  BY DEF done, Resume, At, KeepTrees
<1>2. /\ Moved(Last(stack').op) /\ ret' = Node /\ Plain(Last(stack').op)
      /\ Last(stack').op \in {"parsed", "listed", "controlEnd"}
  BY <1>1, NodeFact, ReturnFrom DEF NodeOp
<1> QED
  BY <1>1, <1>2, NodeFact, QuietOne DEF Plain, Ahead

LEMMA EndElseStep ==
  ASSUME Working, endControl \/ elseControl
  PROVE  Inv'
<1> USE DEF At
<1>1. CASE endControl
  <2>1. Top.op = "end" /\ Use({"right"}) /\ Return([Node EXCEPT !.kind = "end"]) /\ Same
    BY <1>1 DEF endControl
  <2>2. [Node EXCEPT !.kind = "end"] \in RetRec
    BY DEF Node, RetRec
  <2>3. Moved(Last(stack').op) /\ Plain(Last(stack').op)
    BY <2>1, <2>2, ReturnFrom DEF NodeOp
  <2>4. FillN = 1 /\ token.typ = "right"
    BY <2>1, AtMostOne, ReadTree DEF Ahead, Use
  <2> QED BY <2>1, <2>3, <2>4, UseOne DEF Plain
<1>2. CASE elseControl
  <2>1. /\ Top.op = "else" /\ Same /\ Return([Node EXCEPT !.kind = "else"])
        /\ Use({"right"}) \/ Peek({"if", "with"})
    BY <1>2 DEF elseControl
  <2>2. [Node EXCEPT !.kind = "else"] \in RetRec /\ [Node EXCEPT !.kind = "else"].kind = "else"
    BY DEF Node, RetRec
  <2>3. /\ Moved(Last(stack').op) /\ Plain(Last(stack').op) /\ ret' = [Node EXCEPT !.kind = "else"]
        /\ Last(stack').op \in {"parsed", "listed", "controlEnd"}
    BY <2>1, <2>2, ReturnFrom DEF NodeOp
  <2>4. FillN = 1 /\ ret'.kind # "end"
    BY <2>1, <2>2, <2>3, AtMostOne DEF Ahead
  <2>5. CASE Use({"right"})
    <3>1. token.typ = "right"
      BY <2>5, ReadTree DEF Use
    <3> QED BY <2>1, <2>3, <2>4, <2>5, <3>1, UseOne DEF Plain
  <2>6. CASE Peek({"if", "with"})
    BY <2>1, <2>3, <2>4, <2>6, PeekOne DEF Plain
  <2> QED BY <2>1, <2>5, <2>6
<1> QED
  BY <1>1, <1>2

LEMMA ParseControlStep ==
  ASSUME Working, parseControl
  PROVE  Inv'
<1> USE DEF At
<1>1. CASE Resume("control") /\ Call("controlPipe", Frame("decl", Top.ctx))
  <2>1. Top.op = "control" /\ NoRead /\ trees' = trees /\ Same
    BY <1>1 DEF Resume, KeepTrees
  <2>2. Goes("control", "controlPipe") /\ Invokes("controlPipe", "decl") /\ Top.ctx \in Context
    BY GoesOn, MayInvoke, CurFacts DEF FrameRec
  <2>3. Moved("decl")
    BY <1>1, <2>1, <2>2, CallsTo
  <2> QED BY <2>1, <2>3, QuietOne DEF Plain, Ahead, Ended
<1>2. CASE Resume("controlPipe") /\ Call("controlList", Frame("list", ""))
  <2>1. Top.op = "controlPipe" /\ NoRead /\ trees' = trees /\ Same
    BY <1>2 DEF Resume, KeepTrees
  <2>2. Goes("controlPipe", "controlList") /\ Invokes("controlList", "list") /\ "" \in Context
    BY GoesOn, MayInvoke DEF Context
  <2>3. Moved("list")
    BY <1>2, <2>1, <2>2, CallsTo
  <2> QED BY <2>1, <2>3, QuietOne DEF Plain, Ahead, Ended
<1>3. CASE /\ At("controlList") /\ Chained /\ Use(Any) /\ Same
           /\ Call("controlEnd", [Frame("control", Top.ctx) EXCEPT !.mark = Len(Cur.vars)])
  <2> DEFINE f == [Frame("control", Top.ctx) EXCEPT !.mark = Len(Cur.vars)]
  <2>1. f \in FrameRec /\ f.op = "control"
    <3>1. Top.ctx \in Context
      BY CurFacts DEF FrameRec
    <3> QED BY <3>1, ControlFrame
  <2>2. Goes("controlList", "controlEnd") /\ Invokes("controlEnd", "control") /\ Call("controlEnd", f)
    BY <1>3, GoesOn, MayInvoke
  <2> HIDE DEF f
  <2>3. Moved("control")
    BY <1>3, <2>1, <2>2, CallsFrame
  <2>4. FillN = 1 /\ token.typ \notin {"space", "eof", "error"}
    BY <1>3, AtMostOne DEF Ahead, Chained
  <2> QED BY <1>3, <2>3, <2>4, UseOne DEF Plain
<1>4. CASE At("controlList") /\ Peek(Any) /\ Call("controlElse", Frame("list", "")) /\ Same
  <2>1. Goes("controlList", "controlElse") /\ Invokes("controlElse", "list") /\ "" \in Context /\ FillN = 1
    BY <1>4, GoesOn, MayInvoke, AtMostOne DEF Context, Ahead
  <2>2. Moved("list")
    BY <1>4, <2>1, CallsTo
  <2> QED BY <1>4, <2>1, <2>2, PeekOne DEF Plain, Ended
<1> QED
  BY <1>1, <1>2, <1>3, <1>4 DEF parseControl

\* A control forgets the variables declared in it.
LEMMA EndControlStep ==
  ASSUME Working, EndControl
  PROVE  Inv'
<1>1. Top.op \in {"controlEnd", "controlList", "controlElse"} /\ popVars /\ Return(Node) /\ NoRead /\ Same
  BY DEF EndControl, At
<1>2. /\ Moved(Last(stack').op) /\ ret' = Node /\ Plain(Last(stack').op)
      /\ Last(stack').op \in {"parsed", "listed", "controlEnd"}
  <2>1. Top.op \in NodeOp \ {"treeList"}
    BY <1>1 DEF NodeOp
  <2> QED BY <1>1, <2>1, NodeFact, ReturnFrom
<1>3. /\ IsTree(Cur) /\ Cur = trees[Len(trees)] /\ trees \in Seq({trees[i] : i \in DOMAIN trees})
      /\ Len(trees) \in Nat /\ Len(trees) > 0 /\ Top.mark \in Nat
  BY CurFacts DEF IsSeq, FrameRec
<1> DEFINE vs == SubSeq(Cur.vars, 1, Top.mark)
           new == [Cur EXCEPT !.vars = vs]
<1>4. trees' = [trees EXCEPT ![Len(trees)] = new]
  BY <1>1, <1>3 DEF popVars
<1>5. IsTree(new) /\ new.token = Cur.token /\ new.peekCount = Cur.peekCount
  <2>1. IsSeq(vs)
    BY <1>3, VarsFacts DEF IsTree
  <2> HIDE DEF vs
  <2> QED BY <1>3, <2>1, TreeVars
<1> HIDE DEF new
<1>6. Buffer(Last(stack').op, ret'.kind, Cur.peekCount, Cur.token)
  <2>1. Cur.peekCount = 0 \/ Cur.peekCount = 1
    BY <1>1, AtMostOne DEF Ahead
  <2>2. ret'.kind # "end"
    BY <1>2, NodeFact
  <2> QED BY <1>2, <2>1, <2>2, EmptyBuffer, OneBuffered
<1>7. Plain(Top.op)
  BY <1>1 DEF Plain
<1> QED
  BY <1>1, <1>2, <1>4, <1>5, <1>6, <1>7, QuietTree

LEMMA TemplateControlStep ==
  ASSUME Working, templateControl
  PROVE  Inv'
<1> USE DEF At
<1>1. CASE At("templateName") /\ Use({"string"}) /\ Same /\ Becomes("templateArg")
  <2>1. Goes("templateName", "templateArg") /\ FillN = 1 /\ token.typ = "string"
    BY <1>1, GoesOn, AtMostOne, ReadTree DEF NodeOp, Ahead, Use
  <2>2. Moved("templateArg")
    BY <1>1, <2>1, BecomesTo
  <2> QED BY <1>1, <2>1, <2>2, UseOne DEF Plain
<1>2. CASE /\ At("templateName") /\ Use({"string"}) /\ Same /\ UNCHANGED ret
           /\ stack' = Front(stack) \o <<[Top EXCEPT !.op = "blockPipe", !.name = token.name], Frame("decl", "block")>>
  <2> DEFINE g == [Top EXCEPT !.op = "blockPipe", !.name = token.name]
             f == Frame("decl", "block")
  <2>1. g \in FrameRec /\ g.op = "blockPipe"
    <3>1. "blockPipe" \in Op /\ token.name \in Name /\ Top \in FrameRec
      BY Fill, CurFacts DEF Op, NodeOp, Item
    <3> QED BY <3>1 DEF FrameRec
  <2>2. f \in FrameRec /\ f.op = "decl"
    BY NewFrame DEF Op, Pipe, Context
  <2>3. Goes(Top.op, g.op) /\ Invokes(g.op, f.op)
    BY <1>2, <2>1, <2>2, GoesOn, MayInvoke DEF NodeOp
  <2>4. stack' = Front(stack) \o <<g, f>> /\ ret' = ret
    BY <1>2
  <2> HIDE DEF g, f
  <2>5. Moved("decl")
    BY <1>2, <2>1, <2>2, <2>3, <2>4, CallTo
  <2>6. FillN = 1 /\ token.typ = "string"
    BY <1>2, AtMostOne, ReadTree DEF Ahead, Use
  <2> QED BY <1>2, <2>5, <2>6, UseOne DEF Plain
<1>3. CASE At("templateArg") /\ Use({"right"}) /\ Return(Node) /\ Same
  <2>1. Moved(Last(stack').op) /\ Plain(Last(stack').op)
    BY <1>3, NodeFact, ReturnFrom DEF NodeOp
  <2>2. FillN = 1 /\ token.typ = "right"
    BY <1>3, AtMostOne, ReadTree DEF Ahead, Use
  <2> QED BY <1>3, <2>1, <2>2, UseOne DEF Plain
<1>4. CASE At("templateArg") /\ Peek(NonSpace \ {"right"}) /\ Call("done", Frame("decl", "template")) /\ Same
  <2>1. Goes("templateArg", "done") /\ Invokes("done", "decl") /\ "template" \in Context /\ FillN = 1
    BY <1>4, GoesOn, MayInvoke, AtMostOne DEF NodeOp, Context, Ahead
  <2>2. Moved("decl")
    BY <1>4, <2>1, CallsTo
  <2> QED BY <1>4, <2>1, <2>2, PeekOne DEF Plain, Ended
<1> QED
  BY <1>1, <1>2, <1>3, <1>4 DEF templateControl

LEMMA PipelineStep ==
  ASSUME Working, pipeline
  PROVE  Inv'
<1> USE DEF At
<1>1. CASE At("pipe") /\ Peek(Term) /\ Call("piped", Frame("operand", "")) /\ Same
  <2>1. Goes("pipe", "piped") /\ Invokes("piped", "operand") /\ "" \in Context
    BY GoesOn, MayInvoke DEF Pipe, Context
  <2>2. Moved("operand")
    BY <1>1, <2>1, CallsTo
  <2>3. FillN = 1 \/ (token.typ = "variable" /\ FillN <= 3 /\ (FillN = 3 => FillTok[2].typ = "space"))
    BY <1>1, FillTokens
  <2>4. Buffer("operand", ret'.kind, FillN, FillTok)
    BY <2>3, Fill DEF Buffer, Ended
  <2> QED BY <1>1, <2>2, <2>4, PeekStep DEF Plain, Moved
<1>2. CASE /\ Resume("piped")
           /\ Become([Top EXCEPT !.op = "pipe", !.n = @ + 1, !.exec = @ /\ (Top.n = 0 \/ ret.exec)])
  <2>1. Top.op = "piped" /\ NoRead /\ trees' = trees /\ Same /\ Top \in FrameRec
    BY <1>2, CurFacts DEF Resume, KeepTrees
  <2> DEFINE e == Top.exec /\ (Top.n = 0 \/ ret.exec)
             f == [Top EXCEPT !.op = "pipe", !.n = Top.n + 1, !.exec = e]
  <2>2. f \in FrameRec /\ f.op = "pipe"
    <3>1. "pipe" \in Op /\ Top.n + 1 \in Nat /\ e \in BOOLEAN
      BY <2>1 DEF Op, Pipe, FrameRec
    <3> HIDE DEF e
    <3> QED BY <2>1, <3>1 DEF FrameRec
  <2>3. Become(f) /\ Goes(Top.op, f.op)
    <3>1. Become(f)
      BY <1>2
    <3> HIDE DEF f
    <3> QED BY <2>1, <2>2, <3>1, GoesOn DEF Pipe
  <2> HIDE DEF f
  <2>4. Moved("pipe")
    BY <2>1, <2>2, <2>3, BecomeTo
  <2> QED BY <2>1, <2>4, QuietOne DEF Plain, Ahead, Ended
<1>3. CASE At("pipe") /\ Use(Ending) /\ Return(Node) /\ Same
  <2>1. Moved(Last(stack').op) /\ Plain(Last(stack').op)
    BY <1>3, NodeFact, ReturnFrom DEF Pipe
  <2>2. token.typ \in {"right", "rparen"}
    BY <1>3, ReadTree DEF Use, Ending
  <2>3. FillN = 1
    BY <2>2, OneFilled
  <2> QED BY <1>3, <2>1, <2>2, <2>3, UseOne DEF Plain
<1> QED
  BY <1>1, <1>2, <1>3 DEF pipeline

LEMMA OperandStep ==
  ASSUME Working, operand
  PROVE  Inv'
<1> USE DEF At
<1>0. Top \in FrameRec /\ \A op \in Command : Goes("operand", op) /\ Goes("chain", op)
  BY CurFacts, GoesOn DEF Command
<1>1. CASE At("operand") /\ Defined /\ Use(Term) /\ Become([Top EXCEPT !.op = "chain", !.literal = FALSE]) /\ Same
  <2> DEFINE f == [Top EXCEPT !.op = "chain", !.literal = FALSE]
  <2>1. f \in FrameRec /\ f.op = "chain"
    <3>1. "chain" \in Op
      BY DEF Op, Command
    <3> QED BY <1>0, <3>1 DEF FrameRec
  <2>2. Become(f) /\ Goes(Top.op, f.op)
    BY <1>0, <1>1, <2>1 DEF Command
  <2> HIDE DEF f
  <2>3. Moved("chain")
    BY <1>1, <2>1, <2>2, BecomeTo
  <2>4. token.typ \in {"identifier", "field", "variable"}
    BY <1>1 DEF Defined
  <2>5. FillN = 1 \/ FillN = 2 \/ (FillN = 3 /\ FillTok[2].typ = "space")
    BY <1>1, <2>4, FillTokens, Fill
  <2>6. Buffer("chain", ret'.kind, FillN - 1, FillTok)
    BY <2>5, EmptyBuffer DEF Buffer, Ended
  <2> QED BY <1>1, <2>3, <2>4, <2>6, UseStep DEF Plain, Moved
<1>2. CASE /\ At("operand") /\ Use({"literal", "string"}) /\ Same
           /\ Become([Top EXCEPT !.op = "chain", !.literal = TRUE, !.exec = @ /\ Top.n > 0])
  <2> DEFINE e == Top.exec /\ Top.n > 0
             f == [Top EXCEPT !.op = "chain", !.literal = TRUE, !.exec = e]
  <2>1. f \in FrameRec /\ f.op = "chain"
    <3>1. "chain" \in Op /\ e \in BOOLEAN
      BY DEF Op, Command
    <3> HIDE DEF e
    <3> QED BY <1>0, <3>1 DEF FrameRec
  <2>2. Become(f)
    BY <1>2
  <2> HIDE DEF f
  <2>3. Goes(Top.op, f.op)
    BY <1>0, <1>2, <2>1 DEF Command
  <2>4. Moved("chain")
    BY <1>2, <2>1, <2>2, <2>3, BecomeTo
  <2>5. token.typ \in {"literal", "string"}
    BY <1>2, ReadTree DEF Use
  <2>6. FillN = 1
    BY <2>5, OneFilled
  <2> QED BY <1>2, <2>4, <2>5, <2>6, UseOne DEF Plain
<1>3. CASE /\ At("operand") /\ Use({"lparen"}) /\ Same /\ UNCHANGED ret
           /\ stack' = Front(stack) \o <<[Top EXCEPT !.op = "chain", !.literal = FALSE], Frame("decl", "paren")>>
  <2> DEFINE g == [Top EXCEPT !.op = "chain", !.literal = FALSE]
             f == Frame("decl", "paren")
  <2>1. g \in FrameRec /\ g.op = "chain"
    <3>1. "chain" \in Op
      BY DEF Op, Command
    <3> QED BY <1>0, <3>1 DEF FrameRec
  <2>2. f \in FrameRec /\ f.op = "decl"
    BY NewFrame DEF Op, Pipe, Context
  <2>3. Goes(Top.op, g.op) /\ Invokes(g.op, f.op)
    BY <1>0, <1>3, <2>1, <2>2, MayInvoke DEF Command
  <2>4. stack' = Front(stack) \o <<g, f>> /\ ret' = ret
    BY <1>3
  <2> HIDE DEF g, f
  <2>5. Moved("decl")
    BY <1>3, <2>1, <2>2, <2>3, <2>4, CallTo
  <2>6. token.typ = "lparen"
    BY <1>3, ReadTree DEF Use
  <2>7. FillN = 1
    BY <2>6, OneFilled
  <2> QED BY <1>3, <2>5, <2>6, <2>7, UseOne DEF Plain
<1>4. CASE At("operand") /\ Peek(NonSpace \ Term) /\ Becomes("argEnd") /\ Same
  <2>1. Moved("argEnd")
    BY <1>0, <1>4, BecomesTo DEF Command
  <2>2. token.typ # "variable"
    BY <1>4, ReadTree DEF Peek, Term
  <2>3. FillN = 1
    BY <1>4, <2>2, FillTokens
  <2> QED BY <1>4, <2>1, <2>3, PeekOne DEF Plain, Ended
<1>5. CASE At("chain") /\ Use({"field"}) /\ Becomes("chain") /\ Same
  <2>1. Moved("chain")
    BY <1>0, <1>5, BecomesTo DEF Command
  <2>2. token.typ = "field"
    BY <1>5, ReadTree DEF Use
  <2>3. FillN = 1
    BY <2>2, OneFilled
  <2> QED BY <1>5, <2>1, <2>2, <2>3, UseOne DEF Plain
<1>6. CASE At("chain") /\ Peek(Any \ {"field"}) /\ Become([Top EXCEPT !.op = "argEnd", !.n = @ + 1]) /\ Same
  <2> DEFINE f == [Top EXCEPT !.op = "argEnd", !.n = Top.n + 1]
  <2>1. f \in FrameRec /\ f.op = "argEnd"
    <3>1. "argEnd" \in Op /\ Top.n + 1 \in Nat
      BY <1>0 DEF Op, Command, FrameRec
    <3> QED BY <1>0, <3>1 DEF FrameRec
  <2>2. Become(f) /\ Goes(Top.op, f.op)
    BY <1>0, <1>6, <2>1 DEF Command
  <2> HIDE DEF f
  <2>3. Moved("argEnd")
    BY <1>6, <2>1, <2>2, BecomeTo
  <2>4. FillN = 1 \/ (FillN = 2 /\ FillTok[2].typ = "space")
    BY <1>6, FillTokens, Fill
  <2>5. Buffer("argEnd", ret'.kind, FillN, FillTok)
    BY <2>4 DEF Buffer, Ended
  <2> QED BY <1>6, <2>3, <2>5, PeekStep DEF Plain, Moved
<1> QED
  BY <1>1, <1>2, <1>3, <1>4, <1>5, <1>6 DEF operand

LEMMA CommandStep ==
  ASSUME Working, command
  PROVE  Inv'
<1>1. Top.op = "argEnd" /\ Same /\ Plain(Top.op)
  BY DEF command, At, Plain
<1>2. CASE Hold({"space"}) /\ Becomes("operand")
  <2>1. Goes("argEnd", "operand")
    BY GoesOn DEF Command
  <2>2. Moved("operand")
    BY <1>1, <1>2, <2>1, BecomesTo
  <2>3. FillN - 1 = 0 \/ FillN - 1 = 1
    BY <1>1, FillTokens
  <2>4. Buffer("operand", ret'.kind, FillN - 1, FillTok)
    BY <2>3, EmptyBuffer, OneBuffered DEF Ended
  <2>5. HeldAt(Last(stack')) = HeldAt(Top) /\ Waits(Last(stack'), FillN - 1, FillTok, FillR)
    BY <1>1, <2>2, PlainFrame DEF Plain, Moved
  <2> QED BY <1>2, <2>2, <2>3, <2>4, <2>5, SpaceStep
<1>3. CASE (Peek({"right", "rparen"}) \/ Use({"pipe"})) /\ Return([Node EXCEPT !.exec = Top.exec])
  <2>1. [Node EXCEPT !.exec = Top.exec] \in RetRec
    <3>1. Top.exec \in BOOLEAN
      BY CurFacts DEF FrameRec
    <3> QED BY <3>1 DEF Node, RetRec
  <2>2. Moved(Last(stack').op) /\ Plain(Last(stack').op) /\ Last(stack').op = "piped"
    BY <1>1, <1>3, <2>1, ReturnFrom DEF Command
  <2>3. token.typ \in {"right", "rparen", "pipe"}
    BY <1>3, ReadTree DEF Peek, Use
  <2>4. FillN = 1
    BY <2>3, OneFilled
  <2>5. CASE Peek({"right", "rparen"})
    BY <1>1, <2>2, <2>4, <2>5, PeekOne DEF Ended
  <2>6. CASE Use({"pipe"})
    BY <1>1, <2>2, <2>3, <2>4, <2>6, UseOne
  <2> QED BY <1>3, <2>5, <2>6
<1> QED
  BY <1>2, <1>3 DEF command
-----------------------------------------------------------------------------
LEMMA InvNext ==
  ASSUME Inv, [Next]_vars
  PROVE  Inv'
<1>1. CASE UNCHANGED vars
  <2>1. /\ input' = input /\ read' = read /\ trees' = trees /\ stack' = stack /\ ret' = ret /\ taken' = taken
        /\ status' = status
    BY <1>1 DEF vars
  <2>2. CASE status = "parsing"
    <3>1. Working /\ Good(stack, trees, ret, taken, read) /\ ret \in RetRec
      BY <2>2 DEF Working, Inv
    <3>2. /\ StackInv(stack') /\ TreesInv(stack', trees') /\ ret' \in RetRec
          /\ TokensInv(Last(stack'), ret'.kind, taken', Last(trees').token, Last(trees').peekCount, read')
      BY <2>1, <3>1 DEF Good
    <3> QED BY <2>1, <3>2, Onward
  <2>3. CASE status # "parsing"
    BY <2>1, <2>3 DEF Inv
  <2> QED BY <2>2, <2>3
<1>2. CASE Fail
  BY <1>2 DEF Fail, errorf, Inv
<1>3. CASE Parse
  <2>1. Working
    BY <1>3 DEF Working, Parse, nextNonSpace, parse, parseDelim, parseDefinition, parsed, EndTree, itemList,
                textOrAction, action, done, endControl, elseControl, parseControl, EndControl, templateControl,
                blockControl, declarations, pipeline, operand, command, At, Resume
  <2> QED BY <1>3, <2>1, NextNonSpaceStep, ParseStep, ParseDelimStep, ParseDefinitionStep, ParsedStep, EndTreeStep,
             ItemListStep, TextOrActionStep, ActionStep, DoneStep, EndElseStep, ParseControlStep, EndControlStep,
             TemplateControlStep, BlockControlStep, DeclarationsStep, PipelineStep, OperandStep, CommandStep DEF Parse
<1> QED
  BY <1>1, <1>2, <1>3 DEF Next, Finished

LEMMA InvInit ==
  ASSUME Init
  PROVE  Inv
<1> DEFINE f == Frame("parse", "root")
           new == New(Main)
<1>1. /\ input \in Input /\ read = 0 /\ taken = <<>> /\ status = "parsing"
      /\ trees = <<new>> /\ stack = <<f>> /\ ret = Node
  BY DEF Init
<1>2. f \in FrameRec /\ f.op = "parse" /\ IsTree(new) /\ new.peekCount = 0
  <2>1. Main \in Name
    BY MainAssumption DEF Name
  <2> QED BY <2>1, NewFrame, NewTree DEF Op, Root, Context
<1> HIDE DEF f, new
<1>3. Len(input) \in Nat
  <2> DEFINE S == [typ : ItemType \ {"eof", "error"}, name : STRING]
  <2>1. input \in Seq(S)
    BY <1>1, InputAssumption
  <2> HIDE DEF S
  <2> QED BY <2>1
<1>4. StackInv(stack) /\ Last(stack) = f /\ TreesIn(stack) = 0
  <2>1. stack \in Seq(FrameRec) /\ stack # <<>> /\ Len(stack) = 1 /\ DOMAIN stack = 1..1 /\ stack[1] = f
    BY <1>1, <1>2
  <2>2. f.op \in Root /\ f.op \notin Tree
    BY <1>2 DEF Root, Tree
  <2>3. 2..1 = {} /\ \A i \in 1..1 : i = 1
    OBVIOUS
  <2>4. {i \in 1..1 : stack[i].op \in Tree} = {}
    BY <2>1, <2>2, <2>3
  <2> QED BY <2>1, <2>2, <2>3, <2>4, FS_EmptySet DEF StackInv, TreesIn, Last
<1>5. TreesInv(stack, trees) /\ Last(trees) = new
  <2>1. trees \in Seq({trees[i] : i \in DOMAIN trees}) /\ Len(trees) = 1 /\ DOMAIN trees = 1..1 /\ trees[1] = new
    BY <1>1
  <2> QED BY <1>2, <1>4, <2>1 DEF TreesInv, IsSeq, Last
<1>6. Tokens(taken, 0, new.token, 0, read)
  <2>1. taken \in Seq(Nat) /\ DOMAIN taken = {} /\ 1..0 = {} /\ 2..0 = {}
    BY <1>1
  <2> QED BY <1>1, <1>3, <2>1 DEF Tokens
<1>7. TokensInv(Last(stack), ret.kind, taken, Last(trees).token, Last(trees).peekCount, read)
  BY <1>2, <1>4, <1>5, <1>6, PlainFrame, EmptyBuffer DEF TokensInv, Plain
<1> QED
  BY <1>1, <1>4, <1>5, <1>7, NodeFact DEF Inv, Good
-----------------------------------------------------------------------------
\* What the buffer keeps is later the lower it is kept, and has been read.
LEMMA Descending ==
  ASSUME NEW used, NEW held, NEW tok, NEW n \in 0..3, NEW r, input \in Seq([typ : ItemType, name : Name]),
         Tokens(used, held, tok, n, r)
  PROVE  /\ \A k \in 1..n : tok[k].at \in Nat
         /\ \A k, m \in 1..n : k < m => tok[m].at < tok[k].at
         /\ \A k \in 1..n : tok[k].at \in DOMAIN input => tok[k].at <= r
<1>1. Len(input) \in Nat /\ DOMAIN input = 1..Len(input) /\ r \in 0..Len(input)
  BY DEF Tokens
<1>2. \A k \in 1..n : tok[k].at \in Nat
  <2>1. \A k \in 1..n : Given(tok[k])
    BY DEF Tokens
  <2> QED BY <1>1, <2>1 DEF Given
<1>3. \A k \in 2..n : tok[k].at < tok[k - 1].at
  BY DEF Tokens
<1>4. n >= 2 => tok[2].at < tok[1].at
  <2>1. n >= 2 => 2 \in 2..n /\ 2 - 1 = 1
    OBVIOUS
  <2> QED BY <1>3, <2>1
<1>5. n >= 3 => tok[3].at < tok[2].at
  <2>1. n >= 3 => 3 \in 2..n /\ 3 - 1 = 2
    OBVIOUS
  <2> QED BY <1>3, <2>1
<1>6. \A k, m \in 1..n : k < m => tok[m].at < tok[k].at
  <2> TAKE k, m \in 1..n
  <2> HAVE k < m
  <2>1. (k = 1 /\ m = 2 /\ n >= 2) \/ (k = 2 /\ m = 3 /\ n >= 3) \/ (k = 1 /\ m = 3 /\ n >= 3)
    OBVIOUS
  <2>2. n >= 3 => n >= 2 /\ tok[1].at \in Nat /\ tok[2].at \in Nat /\ tok[3].at \in Nat
    <3>1. n >= 3 => 1 \in 1..n /\ 2 \in 1..n /\ 3 \in 1..n
      OBVIOUS
    <3> QED BY <1>2, <3>1
  <2> QED BY <1>4, <1>5, <2>1, <2>2
<1>7. \A k \in 1..n : tok[k].at \in DOMAIN input => tok[k].at <= r
  <2> TAKE k \in 1..n
  <2> HAVE tok[k].at \in DOMAIN input
  <2>1. tok[1].at = r \/ (tok[1].at = Len(input) + 1 /\ r = Len(input))
    BY DEF Tokens
  <2>2. 1 \in 1..n /\ (k = 1 \/ 1 < k)
    OBVIOUS
  <2>3. tok[k].at <= tok[1].at /\ tok[k].at \in Nat /\ tok[1].at \in Nat
    BY <1>2, <1>6, <2>2
  <2>4. tok[k].at <= Len(input)
    BY <1>1
  <2> QED BY <1>1, <2>1, <2>3, <2>4
<1> QED
  BY <1>2, <1>6, <1>7

LEMMA Joined ==
  ASSUME NEW a \in Seq(Nat), NEW b \in Seq(Nat), NEW l, l = Len(a), NEW n, n = Len(b)
  PROVE  /\ l \in Nat /\ n \in Nat /\ DOMAIN a = 1..l /\ DOMAIN (a \o b) = 1..l + n
         /\ \A i \in 1..l : (a \o b)[i] = a[i] /\ a[i] \in Nat
         /\ \A i \in l + 1..l + n : (a \o b)[i] = b[i - l]
<1>1. l \in Nat /\ n \in Nat /\ DOMAIN a = 1..l /\ DOMAIN b = 1..n
  OBVIOUS
<1>2. \A i \in 1..l : a[i] \in Nat
  OBVIOUS
<1>3. Len(a \o b) = l + n /\ DOMAIN (a \o b) = 1..l + n
  OBVIOUS
<1>4. \A i \in 1..l : (a \o b)[i] = a[i]
  OBVIOUS
<1>5. \A i \in l + 1..l + n : (a \o b)[i] = b[i - l]
  OBVIOUS
<1> QED
  BY <1>1, <1>2, <1>3, <1>4, <1>5

LEMMA OrderFromInv ==
  ASSUME Working
  PROVE  TokensInOrder
<1> DEFINE n == Cur.peekCount
           tok == Cur.token
           pend == [i \in DOMAIN Pending(Cur) |-> Pending(Cur)[i].at]
           u == taken \o Held
<1>1. /\ n \in 0..3 /\ tok \in [1..3 -> Item] /\ read \in 0..Len(input)
      /\ Tokens(taken, HeldAt(Top), tok, n, read)
      /\ input \in Seq([typ : ItemType, name : Name]) /\ Len(input) \in Nat /\ DOMAIN input = 1..Len(input)
  BY CurFacts, InputFacts DEF Working, TokensInv
<1>2. DOMAIN Pending(Cur) = 1..n /\ \A i \in 1..n : Pending(Cur)[i] = tok[n + 1 - i]
  BY <1>1 DEF Pending
<1>3. pend \in Seq(Nat) /\ Len(pend) = n /\ \A i \in 1..n : pend[i] = tok[n + 1 - i].at
  <2>1. DOMAIN pend = 1..n /\ \A i \in 1..n : pend[i] = tok[n + 1 - i].at
    BY <1>2
  <2>2. \A i \in 1..n : n + 1 - i \in 1..3
    BY <1>1
  <2>3. \A k \in 1..3 : tok[k].at \in Nat
    BY <1>1 DEF Item
  <2>4. pend = [i \in 1..n |-> pend[i]]
    BY <1>2
  <2> HIDE DEF pend
  <2>5. pend \in [1..n -> Nat]
    BY <2>1, <2>2, <2>3, <2>4
  <2>6. n \in Nat
    BY <1>1
  <2> HIDE DEF n, tok
  <2>7. pend \in Seq(Nat) /\ Len(pend) = n
    BY ONLY <2>5, <2>6, AsSequence
  <2> QED BY <2>1, <2>7
<1>4. Tokens(u, 0, tok, n, read) /\ u \in Seq(Nat)
  <2>1. CASE Plain(Top.op)
    <3>1. Held = <<>> /\ HeldAt(Top) = 0
      BY <2>1 DEF Held, Plain, HeldAt
    <3>2. taken \in Seq(Nat)
      BY <1>1 DEF Tokens
    <3>3. u = taken
      BY <3>1, <3>2
    <3> HIDE DEF u
    <3> QED BY <1>1, <3>1, <3>2, <3>3
  <2>2. CASE ~Plain(Top.op)
    <3>1. Held = <<HeldAt(Top)>> /\ HeldAt(Top) # 0
      BY <2>2, HeldFacts DEF Held, Plain
    <3>2. taken \in Seq(Nat) /\ HeldAt(Top) \in Nat
      BY <1>1 DEF Tokens
    <3>3. u = Append(taken, HeldAt(Top))
      BY <3>1, <3>2
    <3>4. u \in Seq(Nat)
      BY <3>2, <3>3
    <3> HIDE DEF u
    <3>5. Tokens(u, 0, tok, n, read)
      BY <1>1, <3>1, <3>3, UseHeld
    <3> QED BY <3>4, <3>5
  <2> QED BY <2>1, <2>2
<1> DEFINE l == Len(u)
<1>5. Places = u \o pend
  BY DEF Places
<1>6. TokensInOrder <=>
        /\ \A i, j \in DOMAIN Places : i < j => Places[i] < Places[j]
        /\ \A p \in 1..Len(input) : ~IsSpace(p) => (p <= read <=> \E i \in DOMAIN Places : Places[i] = p)
        /\ \A i \in 1..l : Places[i] \in DOMAIN input /\ ~IsSpace(Places[i])
        /\ \A i \in 1..n - 1 :
             Pending(Cur)[i + 1].at = Pending(Cur)[i].at + 1 \/ Pending(Cur)[i].typ = "left"
  BY DEF TokensInOrder, Working
<1> HIDE DEF n, tok, pend, u
<1>7. /\ l \in Nat /\ DOMAIN u = 1..l /\ DOMAIN Places = 1..l + n /\ n \in Nat
      /\ \A i \in 1..l : Places[i] = u[i] /\ u[i] \in Nat
      /\ \A i \in l + 1..l + n : Places[i] = pend[i - l]
  <2>1. pend \in Seq(Nat) /\ Len(pend) = n /\ u \in Seq(Nat) /\ l = Len(u) /\ Places = u \o pend
    BY <1>3, <1>4, <1>5
  <2> HIDE DEF l
  <2> QED BY ONLY <2>1, Joined
<1> HIDE DEF l
<1>8. /\ \A i \in 1..l : u[i] \in 1..read /\ ~IsSpace(u[i])
      /\ \A i, j \in 1..l : i < j => u[i] < u[j]
      /\ \A k \in 1..n : \A i \in 1..l : u[i] < tok[k].at
      /\ \A k \in 2..n : tok[k - 1].at = tok[k].at + 1 \/ tok[k].typ = "left"
      /\ \A p \in 1..read : ~IsSpace(p) => (\E i \in 1..l : u[i] = p) \/ \E k \in 1..n : tok[k].at = p
  <2>1. Tokens(u, 0, tok, n, read)
    BY <1>4
  <2>2. Len(u) = l /\ DOMAIN u = 1..l
    BY <1>7 DEF l
  <2>3. \A i \in 1..l : u[i] \in 1..read /\ ~IsSpace(u[i])
    BY <2>1, <2>2 DEF Tokens
  <2>4. \A i, j \in 1..l : i < j => u[i] < u[j]
    BY <2>1, <2>2 DEF Tokens
  <2>5. \A k \in 1..n : \A i \in 1..l : u[i] < tok[k].at
    BY <2>1, <2>2 DEF Tokens
  <2>6. \A k \in 2..n : tok[k - 1].at = tok[k].at + 1 \/ tok[k].typ = "left"
    BY <2>1, <2>2 DEF Tokens
  <2>7. \A p \in 1..read : ~IsSpace(p) => (\E i \in 1..l : u[i] = p) \/ \E k \in 1..n : tok[k].at = p
    BY <2>1, <2>2 DEF Tokens
  <2> QED BY <2>3, <2>4, <2>5, <2>6, <2>7
<1>9. /\ \A k \in 1..n : tok[k].at \in Nat
      /\ \A k, m \in 1..n : k < m => tok[m].at < tok[k].at
      /\ \A k \in 1..n : tok[k].at \in DOMAIN input => tok[k].at <= read
  BY <1>1, <1>4, Descending
<1>10. \A i \in l + 1..l + n : LET k == n + 1 - (i - l) IN k \in 1..n /\ Places[i] = tok[k].at
  BY <1>3, <1>7
<1>11. \A i, j \in DOMAIN Places : i < j => Places[i] < Places[j]
  <2> TAKE i, j \in DOMAIN Places
  <2> HAVE i < j
  <2> DEFINE ki == n + 1 - (i - l)
             kj == n + 1 - (j - l)
  <2>1. CASE j \in 1..l
    <3>1. i \in 1..l
      BY <1>7, <2>1
    <3> QED BY <1>7, <1>8, <2>1, <3>1
  <2>2. CASE i \in 1..l /\ j \in l + 1..l + n
    <3>1. kj \in 1..n /\ Places[j] = tok[kj].at
      BY <1>10, <2>2
    <3> HIDE DEF kj
    <3> QED BY <1>7, <1>8, <2>2, <3>1
  <2>3. CASE i \in l + 1..l + n /\ j \in l + 1..l + n
    <3>1. ki \in 1..n /\ Places[i] = tok[ki].at /\ kj \in 1..n /\ Places[j] = tok[kj].at
      BY <1>10, <2>3
    <3>2. kj < ki
      BY <1>7, <2>3
    <3> HIDE DEF ki, kj
    <3> QED BY <1>9, <3>1, <3>2
  <2>4. \/ j \in 1..l
        \/ i \in 1..l /\ j \in l + 1..l + n
        \/ i \in l + 1..l + n /\ j \in l + 1..l + n
    BY <1>7
  <2> QED BY <2>1, <2>2, <2>3, <2>4
<1>12. \A p \in 1..Len(input) : ~IsSpace(p) => (p <= read <=> \E i \in DOMAIN Places : Places[i] = p)
  <2> TAKE p \in 1..Len(input)
  <2> HAVE ~IsSpace(p)
  <2>1. ASSUME p <= read PROVE \E i \in DOMAIN Places : Places[i] = p
    <3>1. p \in 1..read
      BY <1>1, <2>1
    <3>2. CASE \E i \in 1..l : u[i] = p
      <4>1. PICK i \in 1..l : u[i] = p
        BY <3>2
      <4>2. i \in DOMAIN Places /\ Places[i] = p
        BY <1>7, <4>1
      <4> QED BY <4>2
    <3>3. CASE \E k \in 1..n : tok[k].at = p
      <4>1. PICK k \in 1..n : tok[k].at = p
        BY <3>3
      <4> DEFINE i == l + (n + 1 - k)
      <4>2. i \in l + 1..l + n /\ n + 1 - (i - l) = k
        BY <1>7
      <4> HIDE DEF i
      <4>3. Places[i] = tok[k].at
        BY <1>10, <4>2
      <4>4. i \in DOMAIN Places
        BY <1>7, <4>2
      <4> QED BY <4>1, <4>3, <4>4
    <3> QED BY <1>8, <3>1, <3>2, <3>3
  <2>2. ASSUME NEW i \in DOMAIN Places, Places[i] = p PROVE p <= read
    <3>1. CASE i \in 1..l
      <4>1. p \in 1..read
        BY <1>7, <1>8, <2>2, <3>1
      <4> QED BY <1>1, <4>1
    <3>2. CASE i \in l + 1..l + n
      <4>1. PICK k \in 1..n : Places[i] = tok[k].at
        BY <1>10, <3>2
      <4>2. tok[k].at \in DOMAIN input
        BY <1>1, <2>2, <4>1
      <4> QED BY <1>9, <2>2, <4>1, <4>2
    <3> QED BY <1>7, <3>1, <3>2
  <2> QED BY <2>1, <2>2
<1>13. \A i \in 1..l : Places[i] \in DOMAIN input /\ ~IsSpace(Places[i])
  <2> TAKE i \in 1..l
  <2>1. Places[i] \in 1..read /\ ~IsSpace(Places[i])
    BY <1>7, <1>8
  <2> QED BY <1>1, <2>1
<1>14. \A i \in 1..n - 1 : Pending(Cur)[i + 1].at = Pending(Cur)[i].at + 1 \/ Pending(Cur)[i].typ = "left"
  <2> TAKE i \in 1..n - 1
  <2> DEFINE k == n + 1 - i
  <2>1. k \in 2..n /\ i \in 1..n /\ i + 1 \in 1..n /\ n + 1 - (i + 1) = k - 1
    BY <1>7
  <2>2. Pending(Cur)[i] = tok[k] /\ Pending(Cur)[i + 1] = tok[k - 1]
    BY <1>2, <2>1
  <2> HIDE DEF k
  <2> QED BY <1>8, <2>1, <2>2
<1> QED
  BY <1>6, <1>11, <1>12, <1>13, <1>14

\* Every token is parsed once and in its place (Parser!TokensInOrder), through every look-ahead
\* of parse.go and from one tree's buffer to the next, in texts of any length and any nesting.
THEOREM TokensParsedInOrder == Spec => []TokensInOrder
<1>1. Init => Inv
  BY InvInit
<1>2. Inv /\ [Next]_vars => Inv'
  BY InvNext
<1>3. Inv => TokensInOrder
  <2>1. CASE status = "parsing"
    BY <2>1, OrderFromInv DEF Working
  <2>2. CASE status # "parsing"
    BY <2>2 DEF TokensInOrder
  <2> QED BY <2>1, <2>2
<1> QED
  BY <1>1, <1>2, <1>3, PTL DEF Spec
-----------------------------------------------------------------------------
\* The nesting of a text, place by place.  A token follows the one before it, or the space after that.
Follows(p, q) == /\ p \in Nat /\ q \in DOMAIN input /\ ~IsSpace(q) /\ (p = 0 \/ (p \in DOMAIN input /\ ~IsSpace(p)))
                 /\ q = p + 1 \/ (q = p + 2 /\ p > 0 /\ IsSpace(p + 1))
OpeningAt(q) == IF Opens(q) THEN 1 ELSE 0
EndingAt(q) == IF input[q].typ = "end" THEN 1 ELSE 0

LEMMA DepthNext ==
  ASSUME NEW k \in Nat
  PROVE  /\ Depth(0) = 0 /\ Depth(k) \in Int
         /\ Depth(k + 1) = Depth(k) + OpeningAt(k + 1) - EndingAt(k + 1)
<1> DEFINE O(n) == {m \in 1..n : Opens(m)}
           E(n) == {m \in 1..n : input[m].typ = "end"}
<1>1. \A n \in Nat : IsFiniteSet(O(n)) /\ IsFiniteSet(E(n)) /\ n + 1 \notin O(n) /\ n + 1 \notin E(n)
  <2> TAKE n \in Nat
  <2>1. IsFiniteSet(1..n) /\ O(n) \subseteq 1..n /\ E(n) \subseteq 1..n
    BY FS_Interval
  <2>2. n + 1 \notin 1..n
    OBVIOUS
  <2> HIDE DEF O, E
  <2> QED BY <2>1, <2>2, FS_Subset
<1>2. Depth(0) = Cardinality(O(0)) - Cardinality(E(0)) /\ Depth(k) = Cardinality(O(k)) - Cardinality(E(k))
      /\ Depth(k + 1) = Cardinality(O(k + 1)) - Cardinality(E(k + 1))
  BY DEF Depth
<1>3. O(0) = {} /\ E(0) = {}
  OBVIOUS
<1>4. O(k + 1) = IF Opens(k + 1) THEN O(k) \cup {k + 1} ELSE O(k)
  OBVIOUS
<1>5. E(k + 1) = IF input[k + 1].typ = "end" THEN E(k) \cup {k + 1} ELSE E(k)
  OBVIOUS
<1> HIDE DEF O, E
<1>6. Cardinality(O(k)) \in Nat /\ Cardinality(E(k)) \in Nat
  BY <1>1, FS_CardinalityType
<1>7. Cardinality(O(k + 1)) = Cardinality(O(k)) + OpeningAt(k + 1)
  <2>1. CASE Opens(k + 1)
    BY <1>1, <1>4, <1>6, <2>1, FS_AddElement DEF OpeningAt
  <2>2. CASE ~Opens(k + 1)
    BY <1>4, <1>6, <2>2 DEF OpeningAt
  <2> QED BY <2>1, <2>2
<1>8. Cardinality(E(k + 1)) = Cardinality(E(k)) + EndingAt(k + 1)
  <2>1. CASE input[k + 1].typ = "end"
    BY <1>1, <1>5, <1>6, <2>1, FS_AddElement DEF EndingAt
  <2>2. CASE input[k + 1].typ # "end"
    BY <1>5, <1>6, <2>2 DEF EndingAt
  <2> QED BY <2>1, <2>2
<1>9. Depth(0) = 0
  <2>1. Cardinality(O(0)) = 0 /\ Cardinality(E(0)) = 0
    BY <1>3, FS_EmptySet
  <2> QED BY <1>2, <2>1
<1>10. OpeningAt(k + 1) \in Int /\ EndingAt(k + 1) \in Int
  BY DEF OpeningAt, EndingAt
<1> QED
  BY <1>2, <1>6, <1>7, <1>8, <1>9, <1>10

LEMMA SpaceOpens ==
  ASSUME NEW m, IsSpace(m)
  PROVE  ~Opens(m) /\ OpeningAt(m) = 0 /\ EndingAt(m) = 0
BY DEF IsSpace, Opens, OpeningAt, EndingAt, Control

\* Between a token and the next one the nesting does not change.
LEMMA Between ==
  ASSUME NEW p, NEW q, Follows(p, q)
  PROVE  /\ p \in Nat /\ q \in Nat /\ p < q
         /\ \A m \in p + 1..q - 1 : ~Opens(m) /\ Depth(m) = Depth(p) /\ IsSpace(m)
         /\ Depth(p) \in Int
         /\ Depth(q) = Depth(p) + OpeningAt(q) - EndingAt(q)
<1>1. p \in Nat /\ (q = p + 1 \/ (q = p + 2 /\ IsSpace(p + 1))) /\ q \in Nat /\ p < q
  BY DEF Follows
<1>2. Depth(p) \in Int /\ Depth(p + 1) = Depth(p) + OpeningAt(p + 1) - EndingAt(p + 1)
  BY <1>1, DepthNext
<1>3. CASE q = p + 1
  <2>1. p + 1..q - 1 = {}
    BY <1>1, <1>3
  <2> QED BY <1>1, <1>2, <1>3, <2>1
<1>4. CASE q = p + 2 /\ IsSpace(p + 1)
  <2>1. ~Opens(p + 1) /\ OpeningAt(p + 1) = 0 /\ EndingAt(p + 1) = 0
    BY <1>4, SpaceOpens
  <2>2. Depth(p + 1) = Depth(p)
    BY <1>2, <2>1
  <2>3. \A m \in p + 1..q - 1 : m = p + 1
    BY <1>1, <1>4
  <2>4. p + 1 \in Nat /\ (p + 1) + 1 = q
    BY <1>1, <1>4
  <2>5. Depth(q) = Depth(p + 1) + OpeningAt(q) - EndingAt(q)
    BY <2>4, DepthNext
  <2> QED BY <1>1, <1>2, <1>4, <2>1, <2>2, <2>3, <2>5
<1> QED
  BY <1>1, <1>3, <1>4

\* What a token opens, by the token before it.
BlockOpen(p) == \E b \in 1..p : input[b].typ \in {"block", "define"} /\ \A m \in b..p : input[m].typ # "right"

LEMMA OpensAt ==
  ASSUME NEW p, NEW q, Follows(p, q)
  PROVE  /\ input[q].typ \in Control /\ p > 0 => (Opens(q) <=> input[p].typ # "else")
         /\ input[q].typ = "right" => (Opens(q) <=> BlockOpen(p))
         /\ input[q].typ \notin Control \cup {"right"} => ~Opens(q)
<1>1. p \in Nat /\ (p = 0 \/ ~IsSpace(p)) /\ (q = p + 1 \/ (q = p + 2 /\ IsSpace(p + 1)))
  BY DEF Follows
<1>2. p > 0 => Before(q) = input[p].typ
  <2>1. CASE q = p + 1
    <3>1. q - 1 = p
      BY <1>1, <2>1
    <3> QED BY <1>1, <3>1 DEF Before, IsSpace
  <2>2. CASE q = p + 2 /\ IsSpace(p + 1)
    <3>1. q - 1 = p + 1 /\ q - 2 = p
      BY <1>1, <2>2
    <3> QED BY <2>2, <3>1 DEF Before, IsSpace
  <2> QED BY <1>1, <2>1, <2>2
<1>3. input[q].typ \in Control => input[q].typ # "right"
  BY DEF Control
<1>4. ASSUME input[q].typ = "right" PROVE Opens(q) <=> BlockOpen(p)
  <2>1. q \in Nat /\ p < q /\ \A m \in p + 1..q - 1 : IsSpace(m)
    BY Between
  <2>2. input[q].typ \notin Control
    BY <1>4 DEF Control
  <2>3. Opens(q) <=> \E b \in 1..q : input[b].typ \in {"block", "define"} /\ \A m \in b..q - 1 : input[m].typ # "right"
    BY <1>4, <2>2 DEF Opens
  <2>4. ASSUME Opens(q) PROVE BlockOpen(p)
    <3>1. PICK b \in 1..q : input[b].typ \in {"block", "define"} /\ \A m \in b..q - 1 : input[m].typ # "right"
      BY <2>3, <2>4
    <3>2. b # q /\ ~IsSpace(b)
      BY <1>4, <3>1 DEF IsSpace
    <3>3. b \in 1..p
      BY <1>1, <2>1, <3>2
    <3>4. \A m \in b..p : m \in b..q - 1
      BY <1>1, <2>1, <3>3
    <3> QED BY <3>1, <3>3, <3>4 DEF BlockOpen
  <2>5. ASSUME BlockOpen(p) PROVE Opens(q)
    <3>1. PICK b \in 1..p : input[b].typ \in {"block", "define"} /\ \A m \in b..p : input[m].typ # "right"
      BY <2>5 DEF BlockOpen
    <3>2. \A m \in b..q - 1 : m \in b..p \/ m \in p + 1..q - 1
      BY <1>1, <2>1
    <3>3. \A m \in b..q - 1 : input[m].typ # "right"
      BY <2>1, <3>1, <3>2 DEF IsSpace
    <3>4. b \in 1..q
      BY <1>1, <2>1
    <3> QED BY <2>3, <3>1, <3>3, <3>4
  <2> QED BY <2>4, <2>5
<1> QED
  BY <1>2, <1>3, <1>4 DEF Opens

LEMMA BlockOpenNext ==
  ASSUME NEW p, NEW q, Follows(p, q)
  PROVE  BlockOpen(q) <=> input[q].typ # "right" /\ (BlockOpen(p) \/ input[q].typ \in {"block", "define"})
<1>1. p \in Nat /\ q \in Nat /\ p < q /\ \A m \in p + 1..q - 1 : IsSpace(m)
  BY Between
<1>2. ASSUME BlockOpen(q) PROVE input[q].typ # "right" /\ (BlockOpen(p) \/ input[q].typ \in {"block", "define"})
  <2>1. PICK b \in 1..q : input[b].typ \in {"block", "define"} /\ \A m \in b..q : input[m].typ # "right"
    BY <1>2 DEF BlockOpen
  <2>2. input[q].typ # "right"
    BY <1>1, <2>1
  <2>3. CASE b = q
    BY <2>1, <2>2, <2>3
  <2>4. CASE b # q
    <3>1. b \in 1..p
      <4>1. ~IsSpace(b)
        BY <2>1 DEF IsSpace
      <4> QED BY <1>1, <2>4, <4>1
    <3>2. \A m \in b..p : m \in b..q
      BY <1>1, <3>1
    <3> QED BY <2>1, <2>2, <3>1, <3>2 DEF BlockOpen
  <2> QED BY <2>3, <2>4
<1>3. ASSUME input[q].typ # "right", BlockOpen(p) PROVE BlockOpen(q)
  <2>1. PICK b \in 1..p : input[b].typ \in {"block", "define"} /\ \A m \in b..p : input[m].typ # "right"
    BY <1>3 DEF BlockOpen
  <2>2. \A m \in b..q : m \in b..p \/ m \in p + 1..q - 1 \/ m = q
    BY <1>1, <2>1
  <2>3. \A m \in b..q : input[m].typ # "right"
    BY <1>1, <1>3, <2>1, <2>2 DEF IsSpace
  <2>4. b \in 1..q
    BY <1>1, <2>1
  <2> QED BY <2>1, <2>3, <2>4 DEF BlockOpen
<1>4. ASSUME input[q].typ \in {"block", "define"} PROVE BlockOpen(q)
  <2>1. q \in 1..q /\ \A m \in q..q : m = q
    BY <1>1
  <2>2. input[q].typ # "right"
    BY <1>4
  <2> QED BY <1>4, <2>1, <2>2 DEF BlockOpen
<1> QED
  BY <1>2, <1>3, <1>4
-----------------------------------------------------------------------------
\* The last place the grammar has used, and the next one.
Reached(used) == IF used = <<>> THEN 0 ELSE used[Len(used)]

LEMMA GapOf ==
  ASSUME Inv, NEW p \in Nat, NEW q \in DOMAIN input, ~IsSpace(q), p < q, p = 0 \/ (p \in DOMAIN input /\ ~IsSpace(p)),
         \A m \in p + 1..q - 1 : IsSpace(m)
  PROVE  Follows(p, q)
<1>1. DOMAIN input = 1..Len(input) /\ Len(input) \in Nat /\ \A m \in DOMAIN input : IsSpace(m) => m > 1 /\ ~IsSpace(m - 1)
  BY InputFacts
<1>2. q \in Nat /\ q <= Len(input)
  BY <1>1
<1>3. CASE q = p + 1
  BY <1>3 DEF Follows
<1>4. CASE q > p + 1
  <2>1. p + 1 \in p + 1..q - 1 /\ p + 1 \in DOMAIN input
    BY <1>1, <1>2, <1>4
  <2>2. IsSpace(p + 1) /\ p + 1 > 1
    BY <1>1, <2>1
  <2>3. ~(q > p + 2)
    <3>1. ASSUME q > p + 2 PROVE FALSE
      <4>1. p + 2 \in p + 1..q - 1 /\ p + 2 \in DOMAIN input
        BY <1>1, <1>2, <3>1
      <4>2. ~IsSpace((p + 2) - 1)
        BY <1>1, <4>1
      <4>3. (p + 2) - 1 = p + 1
        OBVIOUS
      <4> QED BY <2>2, <4>2, <4>3
    <3> QED BY <3>1
  <2> QED BY <1>2, <1>4, <2>2, <2>3 DEF Follows
<1> QED
  BY <1>2, <1>3, <1>4

LEMMA ReachedFacts ==
  ASSUME Inv, NEW used, NEW held, NEW tok, NEW n, NEW r, Tokens(used, held, tok, n, r)
  PROVE  /\ Reached(used) \in Nat /\ Reached(used) <= r
         /\ Reached(used) = 0 \/ (Reached(used) \in DOMAIN input /\ ~IsSpace(Reached(used)))
         /\ \A i \in DOMAIN used : used[i] <= Reached(used)
         /\ held # 0 => Reached(used) < held
         /\ \A k \in 1..n : Given(tok[k]) => Reached(used) < tok[k].at /\ held < tok[k].at
<1>1. /\ used \in Seq(Nat) /\ r \in 0..Len(input) /\ held \in Nat
      /\ \A i \in DOMAIN used : used[i] \in 1..r /\ ~IsSpace(used[i])
      /\ \A i, j \in DOMAIN used : i < j => used[i] < used[j]
      /\ held # 0 => held \in 1..r /\ \A i \in DOMAIN used : used[i] < held
      /\ \A k \in 1..n : held < tok[k].at /\ \A i \in DOMAIN used : used[i] < tok[k].at
  BY DEF Tokens
<1>2. DOMAIN input = 1..Len(input) /\ Len(input) \in Nat
  BY InputFacts
<1>3. CASE used = <<>>
  <2>1. Reached(used) = 0 /\ DOMAIN used = {}
    BY <1>3 DEF Reached
  <2>2. \A k \in 1..n : Given(tok[k]) => 0 < tok[k].at
    BY <1>2 DEF Given
  <2> QED BY <1>1, <1>2, <2>1, <2>2
<1>4. CASE used # <<>>
  <2> DEFINE l == Len(used)
  <2>1. l \in Nat /\ l > 0 /\ DOMAIN used = 1..l /\ l \in DOMAIN used /\ Reached(used) = used[l]
    BY <1>1, <1>4 DEF Reached
  <2> HIDE DEF l
  <2>2. Reached(used) \in 1..r /\ ~IsSpace(Reached(used))
    BY <1>1, <2>1
  <2>3. \A i \in DOMAIN used : used[i] <= Reached(used)
    <3> TAKE i \in DOMAIN used
    <3>1. i = l \/ i < l
      BY <2>1
    <3>2. used[i] \in Nat /\ used[l] \in Nat
      BY <1>1, <2>1
    <3> QED BY <1>1, <2>1, <3>1, <3>2
  <2>4. held # 0 => Reached(used) < held
    BY <1>1, <2>1
  <2>5. \A k \in 1..n : Reached(used) < tok[k].at /\ held < tok[k].at
    BY <1>1, <2>1
  <2> QED BY <1>1, <1>2, <2>2, <2>3, <2>4, <2>5
<1> QED
  BY <1>3, <1>4

\* The token a function holds follows the last one used, and the next token follows these.
LEMMA HeldFollows ==
  ASSUME Inv, NEW used, NEW held, NEW tok, NEW n, NEW r, Tokens(used, held, tok, n, r), held # 0
  PROVE  Follows(Reached(used), held)
<1> DEFINE p == Reached(used)
<1>1. /\ p \in Nat /\ p < held /\ \A i \in DOMAIN used : used[i] <= p
      /\ p = 0 \/ (p \in DOMAIN input /\ ~IsSpace(p))
      /\ \A k \in 1..n : Given(tok[k]) => held < tok[k].at
  BY ReachedFacts
<1>2. /\ held \in 1..r /\ ~IsSpace(held) /\ r \in 0..Len(input)
      /\ \A k \in 1..n : Given(tok[k])
      /\ \A m \in 1..r : ~IsSpace(m) => \/ \E i \in DOMAIN used : used[i] = m
                                        \/ held = m
                                        \/ \E k \in 1..n : tok[k].at = m
  BY DEF Tokens
<1>3. DOMAIN input = 1..Len(input) /\ Len(input) \in Nat
  BY InputFacts
<1> HIDE DEF p
<1>4. \A m \in p + 1..held - 1 : IsSpace(m)
  <2> TAKE m \in p + 1..held - 1
  <2>1. m \in 1..r /\ m > p /\ m < held /\ m \in Nat
    BY <1>1, <1>2
  <2>2. ~\E i \in DOMAIN used : used[i] = m
    BY <1>1, <2>1
  <2>3. ~\E k \in 1..n : tok[k].at = m
    BY <1>1, <1>2, <2>1
  <2> QED BY <1>2, <2>1, <2>2, <2>3
<1>5. held \in DOMAIN input
  BY <1>2, <1>3
<1> QED
  BY <1>1, <1>2, <1>4, <1>5, GapOf DEF p

LEMMA TokenFollows ==
  ASSUME Inv, NEW used, NEW held, NEW tok, NEW n \in 1..3, NEW r, Tokens(used, held, tok, n, r),
         tok[n].at \in DOMAIN input, ~IsSpace(tok[n].at)
  PROVE  Follows(IF held # 0 THEN held ELSE Reached(used), tok[n].at)
<1> DEFINE p == IF held # 0 THEN held ELSE Reached(used)
           q == tok[n].at
<1>1. n \in 1..n
  OBVIOUS
<1>2. /\ held \in Nat /\ r \in 0..Len(input) /\ (held # 0 => held \in 1..r /\ ~IsSpace(held))
      /\ \A k \in 1..n : Given(tok[k])
      /\ \A m \in 1..r : ~IsSpace(m) => \/ \E i \in DOMAIN used : used[i] = m
                                        \/ held = m
                                        \/ \E k \in 1..n : tok[k].at = m
  BY DEF Tokens
<1>3. DOMAIN input = 1..Len(input) /\ Len(input) \in Nat /\ input \in Seq([typ : ItemType, name : Name])
  BY InputFacts
<1>4. /\ Reached(used) \in Nat /\ (held # 0 => Reached(used) < held) /\ \A i \in DOMAIN used : used[i] <= Reached(used)
      /\ Reached(used) = 0 \/ (Reached(used) \in DOMAIN input /\ ~IsSpace(Reached(used)))
      /\ Reached(used) < tok[n].at /\ held < tok[n].at
  BY <1>1, <1>2, ReachedFacts
<1>5. /\ p \in Nat /\ p < q /\ Reached(used) <= p /\ held <= p
      /\ p = 0 \/ (p \in DOMAIN input /\ ~IsSpace(p))
  BY <1>2, <1>3, <1>4
<1>6. (\A k \in 1..n - 1 : tok[k].at > q) /\ q \in 1..r /\ \A k \in 1..n : tok[k].at \in Nat
  BY <1>3, Ats
<1> HIDE DEF p, q
<1>7. \A m \in p + 1..q - 1 : IsSpace(m)
  <2> TAKE m \in p + 1..q - 1
  <2>1. m \in 1..r /\ m > p /\ m < q /\ m \in Nat
    BY <1>2, <1>5, <1>6
  <2>2. ~\E i \in DOMAIN used : used[i] = m
    BY <1>4, <1>5, <2>1, <1>2
  <2>3. held # m
    BY <1>2, <1>5, <2>1
  <2>4. \A k \in 1..n : tok[k].at >= q
    <3> TAKE k \in 1..n
    <3>1. k = n \/ k \in 1..n - 1
      OBVIOUS
    <3> QED BY <1>6, <3>1 DEF q
  <2>5. ~\E k \in 1..n : tok[k].at = m
    BY <1>6, <2>1, <2>4
  <2> QED BY <1>2, <2>1, <2>2, <2>3, <2>5
<1>8. q \in DOMAIN input /\ ~IsSpace(q)
  BY DEF q
<1> QED
  BY <1>5, <1>7, <1>8, GapOf DEF p, q
-----------------------------------------------------------------------------
\* The calls that open a control or a tree, and how deep the first x calls are.
ControlOp == {"control", "controlPipe", "controlList", "controlElse", "controlEnd"}
Deepens == {"control", "controlPipe", "controlList", "controlElse", "treeList"}
Level(s, x) == Cardinality({i \in 1..x : s[i].op \in Deepens})
\* Who calls whom, further than Calls says: an {else if} is a control, a pipeline in parentheses
\* an operand.
Link(c, f) == /\ c.op = "controlEnd" => f.op \in ControlOp
              /\ f.op \in Pipe => (f.ctx = "paren" <=> c.op = "chain")
Linked(s) == \A i \in 2..Len(s) : Link(s[i - 1], s[i])
\* A {block} whose pipeline is being parsed.
InBlock(s) == \E i \in 1..Len(s) - 1 : s[i].op = "blockPipe"

\* Frames that mean the same for the nesting, and frames that mean nothing for it.
Alike(f, g) == /\ f.op \in Deepens <=> g.op \in Deepens
               /\ f.op \in ControlOp <=> g.op \in ControlOp
               /\ f.op \in Tree <=> g.op \in Tree
               /\ f.op = "treeList" <=> g.op = "treeList"
               /\ f.op = "controlEnd" <=> g.op = "controlEnd"
               /\ f.op \in ControlOp => f.mark = g.mark
Light(f) == f.op \notin ControlOp \cup Tree
Kept(s, u) == \A x \in Nat :
  /\ x \in 1..Len(s) /\ x \in 1..Len(u) => Alike(s[x], u[x])
  /\ x \in 1..Len(s) /\ x \notin 1..Len(u) => Light(s[x])
  /\ x \notin 1..Len(s) /\ x \in 1..Len(u) => Light(u[x])

LEMMA LevelNext ==
  ASSUME NEW s, NEW x \in Nat
  PROVE  /\ Level(s, 0) = 0 /\ Level(s, x) \in Nat
         /\ s[x + 1].op \in Deepens => Level(s, x + 1) = Level(s, x) + 1
         /\ s[x + 1].op \notin Deepens => Level(s, x + 1) = Level(s, x)
<1> DEFINE C(n) == {i \in 1..n : s[i].op \in Deepens}
<1>0. Level(s, 0) = Cardinality(C(0)) /\ Level(s, x) = Cardinality(C(x)) /\ Level(s, x + 1) = Cardinality(C(x + 1))
  BY DEF Level
<1>1. C(0) = {}
  OBVIOUS
<1>2. IsFiniteSet(1..x)
  BY FS_Interval
<1>3. IsFiniteSet(C(x)) /\ x + 1 \notin C(x)
  BY <1>2, FS_Subset
<1>4. Cardinality(C(x)) \in Nat
  BY <1>3, FS_CardinalityType
<1>5. s[x + 1].op \in Deepens => C(x + 1) = C(x) \cup {x + 1}
  OBVIOUS
<1>6. s[x + 1].op \notin Deepens => C(x + 1) = C(x)
  OBVIOUS
<1> HIDE DEF C
<1>7. Cardinality(C(x) \cup {x + 1}) = Cardinality(C(x)) + 1
  BY <1>3, FS_AddElement
<1>8. Cardinality(C(0)) = 0
  BY <1>1, FS_EmptySet
<1> QED
  BY <1>0, <1>4, <1>5, <1>6, <1>7, <1>8

LEMMA LevelSame ==
  ASSUME NEW s, NEW u, NEW x, \A i \in 1..x : s[i].op \in Deepens <=> u[i].op \in Deepens
  PROVE  Level(s, x) = Level(u, x)
<1>1. {i \in 1..x : s[i].op \in Deepens} = {i \in 1..x : u[i].op \in Deepens}
  OBVIOUS
<1> QED
  BY <1>1 DEF Level

LEMMA AmongAlike ==
  ASSUME NEW s, NEW u, NEW x, \A i \in 1..x : s[i].op \in Tree <=> u[i].op \in Tree
  PROVE  Among(s, x) = Among(u, x)
<1>1. {i \in 1..x : s[i].op \in Tree} = {i \in 1..x : u[i].op \in Tree}
  OBVIOUS
<1> QED
  BY <1>1 DEF Among

\* Among and Level do not decrease.
LEMMA Monotone ==
  ASSUME NEW s, NEW x \in Nat, NEW y \in Nat, x <= y
  PROVE  /\ Level(s, x) \in Nat /\ Level(s, y) \in Nat /\ Level(s, x) <= Level(s, y)
         /\ Among(s, x) \in Nat /\ Among(s, y) \in Nat /\ Among(s, x) <= Among(s, y)
<1> DEFINE C(n) == {i \in 1..n : s[i].op \in Deepens}
           D(n) == {i \in 1..n : s[i].op \in Tree}
<1>1. C(x) \subseteq C(y) /\ D(x) \subseteq D(y)
  OBVIOUS
<1>2. IsFiniteSet(1..y) /\ C(y) \subseteq 1..y /\ D(y) \subseteq 1..y
  BY FS_Interval
<1>3. /\ Level(s, x) = Cardinality(C(x)) /\ Level(s, y) = Cardinality(C(y))
      /\ Among(s, x) = Cardinality(D(x)) /\ Among(s, y) = Cardinality(D(y))
  BY DEF Level, Among
<1> HIDE DEF C, D
<1>4. IsFiniteSet(C(y)) /\ IsFiniteSet(D(y))
  BY <1>2, FS_Subset
<1>5. Cardinality(C(x)) <= Cardinality(C(y)) /\ Cardinality(D(x)) <= Cardinality(D(y))
  BY <1>1, <1>4, FS_Subset
<1> QED
  BY <1>3, <1>5, LevelNext, AmongNext

\* A change that keeps the frames alike keeps the level, and the level and tree of each control.
LEMMA KeptLevel ==
  ASSUME NEW s, NEW u, Len(s) \in Nat, Len(u) \in Nat, Kept(s, u)
  PROVE  /\ Level(s, Len(s)) = Level(u, Len(u))
         /\ TreesIn(s) = TreesIn(u)
         /\ \A x \in 1..Len(s) : ~Light(s[x]) =>
              /\ x \in 1..Len(u) /\ ~Light(u[x]) /\ Alike(s[x], u[x])
              /\ \A y \in 1..x : y \in 1..Len(u) /\ y \in 1..Len(s) /\ Alike(s[y], u[y])
<1>1. \A x \in 1..Len(s) : x \notin 1..Len(u) => Light(s[x])
  BY DEF Kept
<1>2. \A x \in 1..Len(u) : x \notin 1..Len(s) => Light(u[x])
  BY DEF Kept
<1>3. \A x \in 1..Len(s) : x \in 1..Len(u) => Alike(s[x], u[x])
  BY DEF Kept
<1>4. \A f : Light(f) => f.op \notin Deepens /\ f.op \notin Tree
  BY DEF Light, Deepens, ControlOp, Tree
<1>5. {i \in 1..Len(s) : s[i].op \in Deepens} = {i \in 1..Len(u) : u[i].op \in Deepens}
  BY <1>1, <1>2, <1>3, <1>4 DEF Alike
<1>6. {i \in 1..Len(s) : s[i].op \in Tree} = {i \in 1..Len(u) : u[i].op \in Tree}
  BY <1>1, <1>2, <1>3, <1>4 DEF Alike
<1>7. \A x \in 1..Len(s) : ~Light(s[x]) =>
        /\ x \in 1..Len(u) /\ ~Light(u[x]) /\ Alike(s[x], u[x])
        /\ \A y \in 1..x : y \in 1..Len(u) /\ y \in 1..Len(s) /\ Alike(s[y], u[y])
  <2> TAKE x \in 1..Len(s)
  <2> HAVE ~Light(s[x])
  <2>1. x \in 1..Len(u) /\ Alike(s[x], u[x])
    BY <1>1, <1>3
  <2>2. ~Light(u[x])
    BY <2>1 DEF Light, Alike
  <2>3. \A y \in 1..x : y \in 1..Len(u) /\ y \in 1..Len(s)
    BY <2>1
  <2> QED BY <1>3, <2>1, <2>2, <2>3
<1> QED
  BY <1>5, <1>6, <1>7 DEF Level, TreesIn

LEMMA KeptBack ==
  ASSUME NEW s, NEW u, Kept(s, u)
  PROVE  Kept(u, s)
BY DEF Kept, Alike
-----------------------------------------------------------------------------
\* The three ways a stack changes.
LEMMA ReplaceShape ==
  ASSUME NEW s, StackInv(s), Linked(s), NEW f \in FrameRec, Alike(Last(s), f),
         f.op \in Pipe => Last(s).op \in Pipe /\ f.ctx = Last(s).ctx, NEW u, u = Append(Front(s), f)
  PROVE  /\ Len(u) = Len(s) /\ Last(u) = f /\ Kept(s, u) /\ Linked(u) /\ (InBlock(u) <=> InBlock(s))
         /\ \A i \in 1..Len(s) - 1 : u[i] = s[i]
<1> DEFINE n == Len(s)
<1>1. n \in Nat /\ n > 0 /\ Last(s) = s[n] /\ s \in Seq(FrameRec)
  BY TopFacts DEF StackInv
<1>2. Len(u) = n /\ u[n] = f /\ \A i \in 1..n - 1 : u[i] = s[i]
  <2>1. Front(s) = SubSeq(s, 1, n - 1) /\ n - 1 \in Nat /\ n - 1 <= Len(s)
    BY <1>1 DEF Front
  <2> HIDE DEF n
  <2>2. Front(s) \in Seq(FrameRec) /\ Len(Front(s)) = n - 1 /\ \A i \in 1..n - 1 : Front(s)[i] = s[i]
    BY <1>1, <2>1
  <2> QED BY <1>1, <2>2
<1> HIDE DEF n
<1>3. Last(u) = f
  BY <1>2 DEF Last
<1>4. Kept(s, u)
  <2>1. \A x \in 1..n : Alike(s[x], u[x])
    <3> TAKE x \in 1..n
    <3>1. CASE x = n
      BY <1>1, <1>2, <3>1
    <3>2. CASE x # n
      <4>1. u[x] = s[x]
        BY <1>1, <1>2, <3>2
      <4> QED BY <4>1 DEF Alike
    <3> QED BY <3>1, <3>2
  <2> QED BY <1>2, <2>1 DEF Kept, n
<1>5. Linked(u)
  <2> SUFFICES ASSUME NEW i \in 2..n PROVE Link(u[i - 1], u[i])
    BY <1>2 DEF Linked
  <2>1. Link(s[i - 1], s[i]) /\ u[i - 1] = s[i - 1]
    BY <1>1, <1>2 DEF Linked, n
  <2>2. CASE i = n
    <3>1. Link(s[i - 1], Last(s)) /\ u[i] = f
      BY <1>1, <1>2, <2>1, <2>2
    <3> QED BY <2>1, <3>1 DEF Link, Alike
  <2>3. CASE i # n
    BY <1>1, <1>2, <2>1, <2>3
  <2> QED BY <2>2, <2>3
<1>6. InBlock(u) <=> InBlock(s)
  BY <1>2 DEF InBlock, n
<1> QED
  BY <1>2, <1>3, <1>4, <1>5, <1>6 DEF n

LEMMA PushShape ==
  ASSUME NEW s, StackInv(s), Linked(s), NEW f \in FrameRec, Link(Last(s), f), NEW u, u = Append(s, f)
  PROVE  /\ Len(u) = Len(s) + 1 /\ Last(u) = f /\ Linked(u) /\ (Light(f) => Kept(s, u))
         /\ InBlock(u) <=> InBlock(s) \/ Last(s).op = "blockPipe"
         /\ \A i \in 1..Len(s) : u[i] = s[i]
<1> DEFINE n == Len(s)
<1>1. n \in Nat /\ n > 0 /\ Last(s) = s[n] /\ s \in Seq(FrameRec)
  BY TopFacts DEF StackInv
<1>2. Len(u) = n + 1 /\ u[n + 1] = f /\ \A i \in 1..n : u[i] = s[i]
  BY <1>1
<1> HIDE DEF n
<1>3. Last(u) = f
  BY <1>2 DEF Last
<1>4. Light(f) => Kept(s, u)
  <2>1. \A x \in Nat : x \in 1..n + 1 /\ x \notin 1..n => x = n + 1
    BY <1>1
  <2>2. \A x \in 1..n : x \in 1..n + 1
    BY <1>1
  <2>3. \A x \in 1..n : Alike(s[x], u[x])
    BY <1>2 DEF Alike
  <2> QED BY <1>2, <2>1, <2>2, <2>3 DEF Kept, n
<1>5. Linked(u)
  <2> SUFFICES ASSUME NEW i \in 2..n + 1 PROVE Link(u[i - 1], u[i])
    BY <1>2 DEF Linked
  <2>1. CASE i = n + 1
    <3>1. i - 1 = n /\ u[n] = s[n]
      BY <1>1, <1>2, <2>1
    <3> QED BY <1>1, <1>2, <2>1, <3>1
  <2>2. CASE i # n + 1
    <3>1. i \in 2..n /\ u[i - 1] = s[i - 1] /\ u[i] = s[i]
      BY <1>1, <1>2, <2>2
    <3> QED BY <3>1 DEF Linked, n
  <2> QED BY <2>1, <2>2
<1>6. InBlock(u) <=> InBlock(s) \/ Last(s).op = "blockPipe"
  <2>1. InBlock(u) <=> \E i \in 1..n : s[i].op = "blockPipe"
    <3>1. (n + 1) - 1 = n
      BY <1>1
    <3> QED BY <1>2, <3>1 DEF InBlock
  <2>2. \A i \in 1..n : i = n \/ i \in 1..n - 1
    BY <1>1
  <2>3. n \in 1..n /\ \A i \in 1..n - 1 : i \in 1..n
    BY <1>1
  <2> QED BY <1>1, <2>1, <2>2, <2>3 DEF InBlock, n
<1> QED
  BY <1>2, <1>3, <1>4, <1>5, <1>6 DEF n

Calling(s, g, f) == Front(s) \o <<g, f>>

LEMMA CallShape ==
  ASSUME NEW s, StackInv(s), Linked(s), NEW g \in FrameRec, Alike(Last(s), g),
         g.op \in Pipe => Last(s).op \in Pipe /\ g.ctx = Last(s).ctx, Kin(Last(s).op, g.op),
         NEW f \in FrameRec, Light(f), Link(g, f), NEW u, u = Calling(s, g, f)
  PROVE  /\ Len(u) = Len(s) + 1 /\ Last(u) = f /\ Kept(s, u) /\ Linked(u)
         /\ InBlock(u) <=> InBlock(s) \/ g.op = "blockPipe"
<1> DEFINE w == Append(Front(s), g)
<1>1. s \in Seq(FrameRec) /\ Len(s) \in Nat /\ Len(s) > 0
  BY TopFacts DEF StackInv
<1>2. Front(s) \in Seq(FrameRec)
  BY <1>1 DEF Front
<1>3. u = Append(w, f)
  BY <1>2 DEF Calling
<1>4. StackInv(w) /\ Last(w) = g
  BY Replaced
<1>5. Len(w) = Len(s) /\ Kept(s, w) /\ Linked(w) /\ (InBlock(w) <=> InBlock(s))
  BY ReplaceShape
<1> HIDE DEF w
<1>6. /\ Len(u) = Len(w) + 1 /\ Last(u) = f /\ Linked(u) /\ Kept(w, u)
      /\ InBlock(u) <=> InBlock(w) \/ g.op = "blockPipe"
  BY <1>3, <1>4, <1>5, PushShape
<1>7. Kept(s, u)
  <2>1. \A x \in Nat : x \in 1..Len(w) => x \in 1..Len(u)
    BY <1>1, <1>5, <1>6
  <2> QED BY <1>5, <1>6, <2>1 DEF Kept, Alike
<1> QED
  BY <1>5, <1>6, <1>7

LEMMA PopShape ==
  ASSUME NEW s, StackInv(s), Linked(s), Last(s).op \notin Root, NEW u, u = Front(s)
  PROVE  /\ Len(u) = Len(s) - 1 /\ Len(u) > 0 /\ Len(u) \in Nat /\ Last(u) = s[Len(u)] /\ Linked(u) /\ Link(Last(u), Last(s))
         /\ Light(Last(s)) => Kept(s, u)
         /\ InBlock(s) <=> InBlock(u) \/ Last(u).op = "blockPipe"
         /\ \A i \in 1..Len(u) : u[i] = s[i]
<1> DEFINE n == Len(s) - 1
<1>1. n \in Nat /\ n > 0 /\ Len(s) = n + 1 /\ Last(s) = s[n + 1] /\ s \in Seq(FrameRec)
  BY TopFacts DEF StackInv
<1>2. Len(u) = n /\ \A i \in 1..n : u[i] = s[i]
  <2>1. u = SubSeq(s, 1, n)
    BY DEF Front
  <2> HIDE DEF n
  <2> QED BY <1>1, <2>1
<1> HIDE DEF n
<1>3. Last(u) = s[n]
  BY <1>1, <1>2 DEF Last
<1>4. Linked(u)
  <2>1. \A i \in 2..n : u[i - 1] = s[i - 1] /\ u[i] = s[i] /\ Link(s[i - 1], s[i])
    BY <1>1, <1>2 DEF Linked
  <2> QED BY <1>2, <2>1 DEF Linked
<1>5. Link(s[n], s[n + 1])
  <2>1. n + 1 \in 2..n + 1 /\ (n + 1) - 1 = n
    BY <1>1
  <2> QED BY <1>1, <2>1 DEF Linked
<1>6. Light(Last(s)) => Kept(s, u)
  <2>1. \A x \in Nat : x \in 1..n + 1 /\ x \notin 1..n => x = n + 1
    BY <1>1
  <2>2. \A x \in 1..n : x \in 1..n + 1 /\ Alike(s[x], u[x])
    BY <1>1, <1>2 DEF Alike
  <2> QED BY <1>1, <1>2, <2>1, <2>2 DEF Kept
<1>7. InBlock(s) <=> InBlock(u) \/ Last(u).op = "blockPipe"
  <2>1. InBlock(s) <=> \E i \in 1..n : s[i].op = "blockPipe"
    <3>1. (n + 1) - 1 = n
      BY <1>1
    <3> QED BY <1>1, <3>1 DEF InBlock
  <2>2. InBlock(u) <=> \E i \in 1..n - 1 : s[i].op = "blockPipe"
    <3>1. \A i \in 1..n - 1 : i \in 1..n
      BY <1>1
    <3> QED BY <1>2, <3>1 DEF InBlock
  <2>3. \A i \in 1..n : i = n \/ i \in 1..n - 1
    BY <1>1
  <2>4. n \in 1..n /\ \A i \in 1..n - 1 : i \in 1..n
    BY <1>1
  <2> QED BY <1>3, <2>1, <2>2, <2>3, <2>4
<1> QED
  BY <1>1, <1>2, <1>3, <1>4, <1>5, <1>6, <1>7
-----------------------------------------------------------------------------
LEMMA LeastNat ==
  ASSUME NEW S, S \subseteq Nat, S # {}
  PROVE  \E n \in S : \A m \in S : n <= m
<1> DEFINE R == OpToRel(<, Nat)
<1>1. IsWellFoundedOn(R, Nat)
  BY NatLessThanWellFounded
<1>2. \A n, m \in Nat : n < m => <<n, m>> \in R
  BY DEF OpToRel
<1> HIDE DEF R
<1>3. PICK n \in S : \A m \in S : ~ (<<m, n>> \in R)
  BY <1>1, WFMin
<1>4. \A m \in S : ~(m < n)
  BY <1>2, <1>3
<1> QED
  BY <1>3, <1>4

\* While the pipeline of a {block} is parsed, nothing but pipelines is.
LEMMA BlockAbove ==
  ASSUME NEW s, StackInv(s), NEW i \in 1..Len(s) - 1, s[i].op = "blockPipe"
  PROVE  \A j \in i + 1..Len(s) : s[j].op \in Pipe \cup Command
<1> DEFINE n == Len(s)
           S == {j \in i + 1..n : s[j].op \notin Pipe \cup Command}
<1>1. n \in Nat /\ \A j \in 2..n : Calls(s[j - 1].op, s[j].op)
  BY TopFacts DEF StackInv
<1> SUFFICES ASSUME S # {} PROVE FALSE
  OBVIOUS
<1>2. S \subseteq Nat
  BY <1>1
<1>3. PICK j \in S : \A m \in S : j <= m
  BY <1>2, LeastNat
<1>4. j \in 2..n /\ j \in i + 1..n /\ s[j].op \notin Pipe \cup Command
  BY <1>1, <1>3
<1>5. Calls(s[j - 1].op, s[j].op)
  BY <1>1, <1>4
<1>6. j - 1 = i \/ s[j - 1].op \in Pipe \cup Command
  <2>1. j - 1 # i => j - 1 \in i + 1..n
    BY <1>1, <1>4
  <2>2. j - 1 \notin S
    BY <1>1, <1>3, <1>4
  <2> QED BY <2>1, <2>2
<1>7. CASE j - 1 = i
  <2>1. s[j].op \in Pipe
    BY <1>5, <1>7 DEF Calls
  <2> QED BY <1>4, <2>1
<1>8. CASE s[j - 1].op \in Pipe \cup Command
  <2>1. s[j].op \in Pipe \cup Command
    BY <1>5, <1>8 DEF Calls, Pipe, Command
  <2> QED BY <1>4, <2>1
<1> QED
  BY <1>6, <1>7, <1>8

LEMMA InBlockTop ==
  ASSUME NEW s, StackInv(s), InBlock(s)
  PROVE  Last(s).op \in Pipe \cup Command
<1>1. Len(s) \in Nat /\ Last(s) = s[Len(s)]
  BY TopFacts
<1>2. PICK i \in 1..Len(s) - 1 : s[i].op = "blockPipe"
  BY DEF InBlock
<1>3. Len(s) \in i + 1..Len(s)
  BY <1>1, <1>2
<1> QED
  BY <1>1, <1>2, <1>3, BlockAbove

\* A pipeline that ends with its action was called by the {block} that is being parsed, if any.
LEMMA BlockCaller ==
  ASSUME NEW s, StackInv(s), Linked(s), Last(s).op \in Pipe, Last(s).ctx # "paren"
  PROVE  InBlock(s) <=> Last(Front(s)).op = "blockPipe"
<1> DEFINE n == Len(s) - 1
           u == Front(s)
<1>1. Last(s).op \notin Root
  BY DEF Pipe, Root
<1>2. n \in Nat /\ n > 0 /\ Len(s) = n + 1 /\ Last(s) = s[n + 1] /\ \A j \in 2..n + 1 : Calls(s[j - 1].op, s[j].op)
  BY <1>1, TopFacts DEF StackInv
<1>3. /\ Len(u) = n /\ Last(u) = s[n] /\ Link(s[n], s[n + 1])
  <2>1. Len(u) = Len(s) - 1 /\ Last(u) = s[Len(u)] /\ Link(Last(u), Last(s))
    BY <1>1, PopShape
  <2> HIDE DEF u
  <2> QED BY <1>2, <2>1
<1>4. (n + 1) - 1 = n /\ n \in 1..n /\ n + 1 \in 2..n + 1
  BY <1>2
<1>5. InBlock(s) <=> \E i \in 1..n : s[i].op = "blockPipe"
  BY DEF InBlock
<1> HIDE DEF n, u
<1>6. Calls(s[n].op, s[n + 1].op) /\ s[n].op # "chain"
  <2>1. Calls(s[n].op, s[n + 1].op)
    BY <1>2, <1>4
  <2> QED BY <1>2, <1>3, <2>1 DEF Link
<1>7. s[n].op \notin Pipe \cup Command
  <2>1. s[n].op \in {"controlPipe", "done", "blockPipe", "chain"}
    BY <1>2, <1>6, Callers
  <2> QED BY <1>6, <2>1 DEF Pipe, Command
<1>8. ASSUME NEW i \in 1..n, s[i].op = "blockPipe" PROVE i = n
  <2>1. i \in 1..Len(s) - 1
    BY <1>2, <1>8
  <2>2. i # n => n \in i + 1..Len(s)
    BY <1>2
  <2> QED BY <1>7, <1>8, <2>1, <2>2, BlockAbove
<1> QED
  BY <1>3, <1>4, <1>5, <1>8 DEF u

\* A list is that of a control or a tree.
LEMMA ListDeep ==
  ASSUME NEW s, StackInv(s), NEW x \in 2..Len(s), s[x].op \in List \cup Deepens
  PROVE  Level(s, x) > 0
<1>1. Len(s) \in Nat /\ x \in Nat /\ x - 1 \in Nat /\ (x - 1) + 1 = x /\ x - 1 > 0
  BY TopFacts
<1>2. Calls(s[x - 1].op, s[x].op)
  BY DEF StackInv
<1>3. Level(s, x - 1) \in Nat /\ Level(s, x - 1) <= Level(s, x) /\ Level(s, x) \in Nat
  BY <1>1, Monotone
<1>4. CASE s[x].op \in Deepens
  <2>1. Level(s, (x - 1) + 1) = Level(s, x - 1) + 1
    BY <1>1, <1>4, LevelNext
  <2> QED BY <1>1, <1>3, <2>1
<1>5. CASE s[x].op \in List
  <2>1. s[x - 1].op \in Deepens
    <3>1. s[x - 1].op \in {"treeList", "controlList", "controlElse"}
      BY <1>2, <1>5, Callers
    <3> QED BY <3>1 DEF Deepens
  <2> DEFINE y == x - 2
  <2>2. y \in Nat /\ y + 1 = x - 1
    BY <1>1
  <2> HIDE DEF y
  <2>3. Level(s, y + 1) = Level(s, y) + 1 /\ Level(s, y) \in Nat
    BY <2>1, <2>2, LevelNext
  <2> QED BY <1>3, <2>2, <2>3
<1> QED
  BY <1>4, <1>5
-----------------------------------------------------------------------------
\* The nesting of the calls follows that of the text: a list that ended is one level deeper than
\* what is left of the text, a {block} whose pipeline ended one level less.
Closers == {"listed", "parsed", "controlList", "controlElse", "treeList"}
Closing(op, kind) == op = "end" \/ (kind = "end" /\ op \in Closers)
Adj(op, kind) == IF Closing(op, kind) THEN -1 ELSE IF op = "blockPipe" THEN 1 ELSE 0
\* An {end} or {else} outside of a control is refused.
Doomed(s, kind) == \/ Len(s) = 2 /\ Last(s).op \in {"end", "else"}
                   \/ Last(s).op = "parsed" /\ kind \in {"end", "else"}
Bottom(k) == IF input[k].typ = "else" THEN 1 ELSE 0
Floor(p) == \A k \in 1..p : Depth(k) >= Bottom(k)
BlockDue(s) == \/ InBlock(s)
               \/ Last(s).op \in {"defineName", "defineDelim"}
               \/ Last(s).op = "templateName" /\ Last(s).ctx = "block"
Fresh(op, kind, p) ==
  /\ op = "action" => p > 0 /\ input[p].typ = "left"
  /\ op = "else" => p > 0 /\ input[p].typ = "else"
  /\ op \in {"listed", "controlList"} /\ kind = "else" => p > 0 /\ input[p].typ \in {"else", "right"}
Placed(f) == /\ f.op = "templateName" => f.ctx \in {"template", "block"}
             /\ f.op = "control" => f.ctx \in Control
Nest(s, kind, p) ==
  /\ Linked(s)
  /\ Depth(p) = Level(s, Len(s)) + Adj(Last(s).op, kind)
  /\ Doomed(s, kind) \/ Floor(p)
  /\ BlockOpen(p) <=> BlockDue(s)
  /\ Fresh(Last(s).op, kind, p)
  /\ Placed(Last(s))
NestNow == Nest(stack, ret.kind, Reached(taken))

\* Where nothing is owed.
Simple(op, kind) == op \notin {"end", "else", "action", "blockPipe", "templateName", "control", "defineName",
                             "defineDelim"}
                    /\ (op \in Closers => kind \in {"node", "blank"})

Calm(op, kind) == Simple(op, kind) \/ op \in {"action", "control"} \/ (op = "controlList" /\ kind = "else")

LEMMA SimpleFacts ==
  ASSUME NEW s, NEW kind, Simple(Last(s).op, kind)
  PROVE  /\ Adj(Last(s).op, kind) = 0 /\ ~Doomed(s, kind) /\ (BlockDue(s) <=> InBlock(s))
         /\ \A p : Fresh(Last(s).op, kind, p)
         /\ Placed(Last(s))
BY DEF Placed, Simple, Adj, Closing, Doomed, BlockDue, Fresh, Closers

\* A step that uses no token.
LEMMA NestStill ==
  ASSUME NEW s, NEW kind, NEW p, Nest(s, kind, p), NEW u, NEW kind2, Linked(u),
         Level(u, Len(u)) + Adj(Last(u).op, kind2) = Level(s, Len(s)) + Adj(Last(s).op, kind),
         Doomed(s, kind) => Doomed(u, kind2), BlockDue(u) <=> BlockDue(s), Fresh(Last(u).op, kind2, p),
         Placed(Last(u))
  PROVE  Nest(u, kind2, p)
BY DEF Nest

\* A step that uses the next token.
LEMMA NestOn ==
  ASSUME NEW s, NEW kind, NEW p, Nest(s, kind, p), NEW q, Follows(p, q), NEW u, NEW kind2, Linked(u),
         Level(s, Len(s)) \in Nat, Level(u, Len(u)) \in Nat,
         Level(u, Len(u)) + Adj(Last(u).op, kind2) = Level(s, Len(s)) + Adj(Last(s).op, kind) + OpeningAt(q) - EndingAt(q),
         Doomed(s, kind) => Doomed(u, kind2),
         Doomed(u, kind2) \/ Level(u, Len(u)) + Adj(Last(u).op, kind2) >= Bottom(q),
         BlockDue(u) <=> input[q].typ # "right" /\ (BlockDue(s) \/ input[q].typ \in {"block", "define"}),
         Fresh(Last(u).op, kind2, q),
         Placed(Last(u))
  PROVE  Nest(u, kind2, q)
<1>1. /\ p \in Nat /\ q \in Nat /\ p < q /\ Depth(p) \in Int
      /\ \A m \in p + 1..q - 1 : Depth(m) = Depth(p) /\ IsSpace(m)
      /\ Depth(q) = Depth(p) + OpeningAt(q) - EndingAt(q)
  BY Between
<1>2. Depth(p) = Level(s, Len(s)) + Adj(Last(s).op, kind) /\ (Doomed(s, kind) \/ Floor(p)) /\ (BlockOpen(p) <=> BlockDue(s))
  BY DEF Nest
<1>3. Adj(Last(s).op, kind) \in Int /\ Adj(Last(u).op, kind2) \in Int /\ OpeningAt(q) \in Int /\ EndingAt(q) \in Int
  BY DEF Adj, OpeningAt, EndingAt
<1>4. Depth(q) = Level(u, Len(u)) + Adj(Last(u).op, kind2)
  BY <1>1, <1>2, <1>3
<1>5. BlockOpen(q) <=> BlockDue(u)
  BY <1>2, BlockOpenNext
<1>6. ASSUME ~Doomed(u, kind2) PROVE Floor(q)
  <2>1. Floor(p) /\ Depth(q) >= Bottom(q)
    BY <1>2, <1>4, <1>6
  <2> SUFFICES ASSUME NEW k \in 1..q PROVE Depth(k) >= Bottom(k)
    BY DEF Floor
  <2>2. CASE k \in 1..p
    BY <2>1, <2>2 DEF Floor
  <2>3. CASE k = q
    BY <2>1, <2>3
  <2>4. CASE k \in p + 1..q - 1
    <3>1. Depth(k) = Depth(p) /\ Bottom(k) = 0
      BY <1>1, <2>4 DEF IsSpace, Bottom
    <3>2. Depth(p) >= 0
      <4>1. CASE p = 0
        BY <4>1, DepthNext
      <4>2. CASE p > 0
        <5>1. p \in 1..p /\ Bottom(p) \in {0, 1}
          BY <1>1, <4>2 DEF Bottom
        <5>2. Depth(p) >= Bottom(p)
          BY <2>1, <5>1 DEF Floor
        <5> QED BY <1>1, <5>1, <5>2
      <4> QED BY <1>1, <4>1, <4>2
    <3> QED BY <3>1, <3>2
  <2> QED BY <1>1, <2>2, <2>3, <2>4
<1> QED
  BY <1>4, <1>5, <1>6 DEF Nest
-----------------------------------------------------------------------------
\* What a step does that changes neither the nesting nor the variables.
SameVars(ts, us) == Len(us) = Len(ts) /\ \A t \in 1..Len(ts) : us[t].vars = ts[t].vars
Used == /\ taken' = Append(taken, token.at) /\ Follows(Reached(taken), token.at)
        /\ input[token.at].typ = token.typ /\ input[token.at].name = token.name
Shifted == Kept(stack, stack') /\ Linked(stack') /\ (InBlock(stack') <=> InBlock(stack))
NestThen == Nest(stack', ret'.kind, Reached(taken'))
\* The variables have been kept up to the last token used, or one before the end of a list.
Settled(op, kind) == ~Closing(op, kind) /\ op \notin {"controlEnd", "blockPipe"}
Unsettled(op, kind) == Closing(op, kind) \/ op = "controlEnd"
Tame == taken' = taken \/ (Used /\ ~Opens(token.at) /\ token.typ # "end")
Slight ==
  /\ Kept(stack, stack') /\ SameVars(trees, trees')
  /\ Last(stack').op \in {"defineName", "defineDelim"} => Top.op \in {"defineName", "defineDelim"}
  /\ \/ Settled(Top.op, ret.kind) /\ Tame
     \/ Unsettled(Top.op, ret.kind) /\ Tame /\ Unsettled(Last(stack').op, ret'.kind)
     \/ Settled(Top.op, ret.kind) /\ Used /\ token.typ = "end" /\ ~Opens(token.at) /\ Last(stack').op = "end"
     \/ Settled(Top.op, ret.kind) /\ Used /\ token.typ = "right" /\ Opens(token.at) /\ Last(stack').op = "blockPipe"
  /\ taken' # taken /\ token.typ = "variable" => Defined /\ Settled(Top.op, ret.kind)

LEMMA ReachedAppend ==
  ASSUME Working, NEW q, taken' = Append(taken, q)
  PROVE  Reached(taken') = q /\ taken' # taken
<1>1. taken \in Seq(Nat)
  BY CurFacts DEF TokensInv, Tokens
<1>2. Len(taken) \in Nat /\ taken' # <<>> /\ Len(taken') = Len(taken) + 1 /\ taken'[Len(taken) + 1] = q
  BY <1>1
<1> QED
  BY <1>2 DEF Reached

LEMMA SameVarsFacts ==
  ASSUME Working, NEW t, t.vars = Cur.vars, trees' = [trees EXCEPT ![Len(trees)] = t]
  PROVE  SameVars(trees, trees')
<1> DEFINE n == Len(trees)
<1>1. trees \in Seq({trees[i] : i \in DOMAIN trees}) /\ n \in Nat /\ n > 0 /\ DOMAIN trees = 1..n /\ Cur = trees[n]
  BY CurFacts DEF IsSeq
<1>2. Len(trees') = n /\ \A i \in 1..n : trees'[i] = IF i = n THEN t ELSE trees[i]
  BY <1>1
<1> QED
  BY <1>1, <1>2 DEF SameVars

LEMMA UseFacts ==
  ASSUME Working, NEW typs, Use(typs), Plain(Top.op), token.typ \notin {"space", "eof", "error"}
  PROVE  Used /\ SameVars(trees, trees') /\ token.typ \in typs /\ Reached(taken') = token.at /\ taken' # taken
<1>1. /\ taken' = Append(taken, token.at) /\ trees' = [trees EXCEPT ![Len(trees)] = next] /\ token.typ \in typs
  BY ReadTree DEF Use
<1>2. next.vars = Cur.vars /\ token = FillTok[FillN] /\ FillN \in 1..3
  BY Fill
<1>3. Tokens(taken, 0, FillTok, FillN, FillR)
  BY FillTokens, PlainFrame
<1>4. token.at \in DOMAIN input /\ token.typ = input[token.at].typ /\ token.name = input[token.at].name /\ ~IsSpace(token.at)
  BY TokenGiven
<1>5. Follows(Reached(taken), token.at)
  BY <1>2, <1>3, <1>4, TokenFollows DEF Working
<1> QED
  BY <1>1, <1>2, <1>4, <1>5, SameVarsFacts, ReachedAppend DEF Used

LEMMA PeekFacts ==
  ASSUME Working, NEW typs, Peek(typs)
  PROVE  taken' = taken /\ SameVars(trees, trees') /\ token.typ \in typs
BY ReadTree, BackupTree, SameVarsFacts DEF Peek

LEMMA HoldFacts ==
  ASSUME Working, NEW typs, Hold(typs)
  PROVE  taken' = taken /\ SameVars(trees, trees') /\ token.typ \in typs
BY ReadTree, Fill, SameVarsFacts DEF Hold

LEMMA StillFacts ==
  ASSUME Working, NoRead, trees' = trees
  PROVE  taken' = taken /\ SameVars(trees, trees')
BY DEF NoRead, SameVars
-----------------------------------------------------------------------------
\* How the stack is shifted.
LEMMA BecomeShift ==
  ASSUME Working, Linked(stack), NEW f \in FrameRec, Become(f), Alike(Top, f),
         f.op \in Pipe => Top.op \in Pipe /\ f.ctx = Top.ctx
  PROVE  Shifted /\ Last(stack') = f /\ ret' = ret /\ Len(stack') = Len(stack)
<1>1. StackInv(stack) /\ Last(stack) = Top
  BY CurFacts
<1>2. stack' = Append(Front(stack), f) /\ ret' = ret
  BY DEF Become
<1> QED
  BY <1>1, <1>2, ReplaceShape DEF Shifted

LEMMA CallShift ==
  ASSUME Working, Linked(stack), NEW g \in FrameRec, NEW f \in FrameRec, stack' = Front(stack) \o <<g, f>>,
         Alike(Top, g), g.op \in Pipe => Top.op \in Pipe /\ g.ctx = Top.ctx, Kin(Top.op, g.op), Light(f), Link(g, f)
  PROVE  /\ Kept(stack, stack') /\ Linked(stack') /\ Last(stack') = f /\ Len(stack') = Len(stack) + 1
         /\ InBlock(stack') <=> InBlock(stack) \/ g.op = "blockPipe"
<1>1. StackInv(stack) /\ Last(stack) = Top
  BY CurFacts
<1>2. /\ Alike(Last(stack), g) /\ Kin(Last(stack).op, g.op)
      /\ g.op \in Pipe => Last(stack).op \in Pipe /\ g.ctx = Last(stack).ctx
  BY <1>1
<1>3. stack' = Calling(stack, g, f)
  BY DEF Calling
<1> QED
  BY <1>1, <1>2, <1>3, CallShape

LEMMA ReturnShift ==
  ASSUME Working, Linked(stack), NEW r, Return(r), Light(Top), Top.op \notin Root
  PROVE  /\ Kept(stack, stack') /\ Linked(stack') /\ Link(Last(stack'), Top) /\ ret' = r
         /\ InBlock(stack) <=> InBlock(stack') \/ Last(stack').op = "blockPipe"
         /\ Len(stack') = Len(stack) - 1 /\ Len(stack) \in Nat /\ Last(stack') = stack[Len(stack) - 1] /\ Last(stack') \in FrameRec
<1>1. StackInv(stack) /\ Last(stack) = Top /\ Len(stack) \in Nat
  BY CurFacts, TopFacts
<1>2. stack' = Front(stack) /\ ret' = r
  BY DEF Return
<1>3. StackInv(stack')
  BY <1>1, <1>2, Popped
<1>4. Last(stack') \in FrameRec
  BY <1>3, TopFacts
<1> QED
  BY <1>1, <1>2, <1>4, PopShape

LEMMA LevelFacts ==
  ASSUME Working, Inv', status' = "parsing"
  PROVE  /\ StackInv(stack) /\ StackInv(stack') /\ Len(stack) \in Nat /\ Len(stack') \in Nat
         /\ Level(stack, Len(stack)) \in Nat /\ Level(stack', Len(stack')) \in Nat
         /\ Kept(stack, stack') => Level(stack', Len(stack')) = Level(stack, Len(stack))
<1>1. StackInv(stack)
  BY CurFacts
<1>2. StackInv(stack')
  BY DEF Inv, Good
<1> QED
  BY <1>1, <1>2, TopFacts, LevelNext, KeptLevel
-----------------------------------------------------------------------------
\* Steps that owe nothing before or after.
LEMMA NestSimpleStill ==
  ASSUME Working, NestNow, Inv', status' = "parsing", Shifted, taken' = taken,
         Calm(Top.op, ret.kind), Simple(Last(stack').op, ret'.kind)
  PROVE  NestThen
<1>1. Last(stack) = Top
  BY DEF Top
<1>2. Adj(Top.op, ret.kind) = 0 /\ (BlockDue(stack) <=> InBlock(stack)) /\ ~Doomed(stack, ret.kind)
  <2>1. CASE Simple(Top.op, ret.kind)
    BY <1>1, <2>1, SimpleFacts
  <2>2. CASE Top.op \in {"action", "control"} \/ (Top.op = "controlList" /\ ret.kind = "else")
    BY <1>1, <2>2 DEF Adj, Closing, Closers, Doomed, BlockDue
  <2> QED BY <2>1, <2>2 DEF Calm
<1>3. /\ Adj(Last(stack').op, ret'.kind) = 0 /\ ~Doomed(stack', ret'.kind) /\ (BlockDue(stack') <=> InBlock(stack'))
      /\ Fresh(Last(stack').op, ret'.kind, Reached(taken)) /\ Placed(Last(stack'))
  BY SimpleFacts
<1>4. Level(stack', Len(stack')) = Level(stack, Len(stack)) /\ Linked(stack') /\ (InBlock(stack') <=> InBlock(stack))
  BY LevelFacts DEF Shifted
<1>5. Nest(stack, ret.kind, Reached(taken))
  BY DEF NestNow
<1> QED
  BY <1>1, <1>2, <1>3, <1>4, <1>5, NestStill DEF NestThen

LEMMA NestSimpleUse ==
  ASSUME Working, NestNow, Inv', status' = "parsing", Shifted, Used,
         token.typ \notin Control \cup {"end", "right", "block", "define", "else"},
         Simple(Top.op, ret.kind), Simple(Last(stack').op, ret'.kind)
  PROVE  NestThen /\ Tame
<1>1. Last(stack) = Top
  BY DEF Top
<1>2. Adj(Top.op, ret.kind) = 0 /\ (BlockDue(stack) <=> InBlock(stack)) /\ ~Doomed(stack, ret.kind)
  BY <1>1, SimpleFacts
<1>3. /\ Adj(Last(stack').op, ret'.kind) = 0 /\ ~Doomed(stack', ret'.kind) /\ (BlockDue(stack') <=> InBlock(stack'))
      /\ Fresh(Last(stack').op, ret'.kind, token.at) /\ Placed(Last(stack'))
  BY SimpleFacts
<1>4. /\ Level(stack', Len(stack')) = Level(stack, Len(stack)) /\ Level(stack, Len(stack)) \in Nat
      /\ Linked(stack') /\ (InBlock(stack') <=> InBlock(stack))
  BY LevelFacts DEF Shifted
<1>5. Nest(stack, ret.kind, Reached(taken)) /\ Reached(taken') = token.at /\ Follows(Reached(taken), token.at)
  BY ReachedAppend DEF NestNow, Used
<1>6. ~Opens(token.at) /\ OpeningAt(token.at) = 0 /\ EndingAt(token.at) = 0 /\ Bottom(token.at) = 0
  <2>1. input[token.at].typ \notin Control \cup {"end", "right", "block", "define", "else"}
    BY DEF Used
  <2>2. ~Opens(token.at)
    BY <1>5, <2>1, OpensAt
  <2> QED BY <2>1, <2>2 DEF OpeningAt, EndingAt, Bottom
<1>7. /\ Level(stack', Len(stack')) + 0 = Level(stack, Len(stack)) + 0 + 0 - 0
      /\ Level(stack', Len(stack')) + 0 >= 0
  BY <1>4
<1>8. BlockDue(stack') <=> input[token.at].typ # "right" /\ (BlockDue(stack) \/ input[token.at].typ \in {"block", "define"})
  BY <1>2, <1>3, <1>4 DEF Used
<1>9. Nest(stack', ret'.kind, token.at)
  <2>1. /\ Level(stack, Len(stack)) \in Nat /\ Level(stack', Len(stack')) \in Nat
        /\ Level(stack', Len(stack')) + Adj(Last(stack').op, ret'.kind)
             = Level(stack, Len(stack)) + Adj(Last(stack).op, ret.kind) + OpeningAt(token.at) - EndingAt(token.at)
        /\ Level(stack', Len(stack')) + Adj(Last(stack').op, ret'.kind) >= Bottom(token.at)
    BY <1>1, <1>2, <1>3, <1>4, <1>6, <1>7
  <2>2. ~Doomed(stack, ret.kind)
    BY <1>2
  <2> QED BY <1>3, <1>4, <1>5, <1>8, <2>1, <2>2, NestOn
<1> QED
  BY <1>5, <1>6, <1>9 DEF NestThen, Tame, Used
-----------------------------------------------------------------------------
\* A step that owes nothing before or after is slight.
LEMMA SlightFacts ==
  ASSUME Kept(stack, stack'), SameVars(trees, trees'), Settled(Top.op, ret.kind), Tame,
         Last(stack').op \notin {"defineName", "defineDelim"},
         taken' # taken /\ token.typ = "variable" => Defined
  PROVE  Slight
BY DEF Slight

LEMMA SimpleStill ==
  ASSUME Working, NestNow, Inv', status' = "parsing", Shifted, taken' = taken, SameVars(trees, trees'),
         Calm(Top.op, ret.kind), Top.op # "controlEnd", Simple(Last(stack').op, ret'.kind)
  PROVE  NestThen /\ Slight
<1>1. Settled(Top.op, ret.kind)
  BY DEF Calm, Simple, Settled, Closing, Closers
<1>2. Last(stack').op \notin {"defineName", "defineDelim"} /\ Kept(stack, stack') /\ Tame
  BY DEF Simple, Shifted, Tame
<1> QED
  BY <1>1, <1>2, NestSimpleStill, SlightFacts

LEMMA SimpleUse ==
  ASSUME Working, NestNow, Inv', status' = "parsing", Shifted, Used, SameVars(trees, trees'),
         token.typ \notin Control \cup {"end", "right", "block", "define", "else"},
         token.typ = "variable" => Defined,
         Simple(Top.op, ret.kind), Top.op # "controlEnd", Simple(Last(stack').op, ret'.kind)
  PROVE  NestThen /\ Slight
<1>1. Settled(Top.op, ret.kind)
  BY DEF Simple, Settled, Closing, Closers
<1>2. Last(stack').op \notin {"defineName", "defineDelim"} /\ Kept(stack, stack')
  BY DEF Simple, Shifted
<1> QED
  BY <1>1, <1>2, NestSimpleUse, SlightFacts

SameOps(a, b) == /\ b \in Op /\ Kin(a, b)
                 /\ a \in Deepens <=> b \in Deepens
                 /\ a \in ControlOp <=> b \in ControlOp
                 /\ a \in Tree <=> b \in Tree
                 /\ a = "treeList" <=> b = "treeList"
                 /\ a = "controlEnd" <=> b = "controlEnd"
                 /\ b \in Pipe => a \in Pipe

LEMMA SimilarOps ==
  /\ SameOps("parse", "parseDelim") /\ SameOps("parse", "parsed") /\ SameOps("parseDelim", "parsed") /\ SameOps("parsed", "parse")
  /\ SameOps("list", "listed") /\ SameOps("listed", "list")
  /\ \A a, b \in {"textOrAction", "action", "end", "else", "templateName", "templateArg", "done", "blockPipe"} : SameOps(a, b)
  /\ SameOps("control", "controlPipe") /\ SameOps("controlPipe", "controlList") /\ SameOps("controlList", "controlElse")
  /\ \A a, b \in Pipe : SameOps(a, b)
  /\ \A a, b \in Command : SameOps(a, b)
  /\ SameOps("defineName", "defineDelim")
BY DEF SameOps, Kin, Family, Op, Root, Tree, List, NodeOp, Pipe, Command, Deepens, ControlOp

LEMMA FrameShift ==
  ASSUME Working, NestNow, NEW f \in FrameRec, Become(f), SameOps(Top.op, f.op), f.ctx = Top.ctx, f.mark = Top.mark
  PROVE  Shifted /\ Last(stack') = f /\ ret' = ret /\ Len(stack') = Len(stack)
<1>1. Linked(stack)
  BY DEF NestNow, Nest
<1>2. Alike(Top, f) /\ (f.op \in Pipe => Top.op \in Pipe)
  BY DEF Alike, SameOps
<1> QED
  BY <1>1, <1>2, BecomeShift

LEMMA BecomesShift ==
  ASSUME Working, NestNow, NEW op, Becomes(op), SameOps(Top.op, op)
  PROVE  Shifted /\ Last(stack').op = op /\ Last(stack').ctx = Top.ctx /\ ret' = ret /\ Len(stack') = Len(stack)
<1> DEFINE f == [Top EXCEPT !.op = op]
<1>1. f \in FrameRec /\ f.op = op /\ f.ctx = Top.ctx /\ f.mark = Top.mark
  <2>1. Top \in FrameRec /\ op \in Op
    BY CurFacts DEF SameOps
  <2> QED BY <2>1 DEF FrameRec
<1>2. Become(f)
  BY DEF Becomes
<1> HIDE DEF f
<1> QED
  BY <1>1, <1>2, FrameShift

LEMMA CallsShift ==
  ASSUME Working, NestNow, NEW op, NEW callee \in Op, NEW ctx \in Context, Call(op, Frame(callee, ctx)),
         SameOps(Top.op, op), op # "blockPipe", op # "controlEnd", callee \notin ControlOp \cup Tree,
         callee \in Pipe => (ctx = "paren" <=> op = "chain")
  PROVE  Shifted /\ Last(stack').op = callee /\ Last(stack').ctx = ctx /\ ret' = ret
<1> DEFINE g == [Top EXCEPT !.op = op]
           f == Frame(callee, ctx)
<1>1. g \in FrameRec /\ g.op = op /\ g.ctx = Top.ctx /\ g.mark = Top.mark
  <2>1. Top \in FrameRec /\ op \in Op
    BY CurFacts DEF SameOps
  <2> QED BY <2>1 DEF FrameRec
<1>2. f \in FrameRec /\ f.op = callee /\ f.ctx = ctx
  BY NewFrame DEF Frame
<1>3. stack' = Front(stack) \o <<g, f>> /\ ret' = ret
  BY DEF Call
<1>4. Linked(stack)
  BY DEF NestNow, Nest
<1> HIDE DEF g, f
<1>5. Alike(Top, g) /\ Kin(Top.op, g.op) /\ Light(f) /\ Link(g, f) /\ (g.op \in Pipe => Top.op \in Pipe /\ g.ctx = Top.ctx)
  BY <1>1, <1>2 DEF Alike, SameOps, Light, Link
<1> QED
  BY <1>1, <1>2, <1>3, <1>4, <1>5, CallShift DEF Shifted

LEMMA NodeReturn ==
  ASSUME Working, NestNow, Same, NEW r \in RetRec, Return(r), Top.op \in NodeOp \ (ControlOp \cup {"treeList"})
  PROVE  /\ Shifted /\ Last(stack').op \in {"parsed", "listed"} /\ ret' = r
         /\ Len(stack') = Len(stack) - 1 /\ Len(stack) \in Nat
<1>1. Top.op \in NodeOp \ {"treeList"} /\ Top.op \notin Root /\ Light(Top) /\ Linked(stack)
  BY DEF NodeOp, Root, Light, Tree, ControlOp, NestNow, Nest
<1>2. Last(stack').op \in {"parsed", "listed", "controlEnd"}
  BY <1>1, ReturnFrom
<1>3. /\ Kept(stack, stack') /\ Linked(stack') /\ Link(Last(stack'), Top) /\ ret' = r
      /\ InBlock(stack) <=> InBlock(stack') \/ Last(stack').op = "blockPipe"
      /\ Len(stack') = Len(stack) - 1 /\ Len(stack) \in Nat
  BY <1>1, ReturnShift
<1> QED
  BY <1>2, <1>3 DEF Shifted, Link
-----------------------------------------------------------------------------
\* The steps one by one.
AtWork == Working /\ NestNow /\ Inv' /\ status' = "parsing"

LEMMA NextNonSpaceNest ==
  ASSUME AtWork, nextNonSpace
  PROVE  NestThen /\ Slight
<1>1. Hold({"space"}) /\ stack' = stack /\ ret' = ret /\ Top.op \in SkipsSpace
  BY DEF nextNonSpace
<1>2. taken' = taken /\ SameVars(trees, trees')
  BY <1>1, HoldFacts DEF AtWork
<1>3. NestThen
  BY <1>1, <1>2 DEF AtWork, NestThen, NestNow
<1>4. Kept(stack, stack') /\ Last(stack') = Top
  BY <1>1 DEF Kept, Alike, Top
<1>5. Settled(Top.op, ret.kind) \/ Unsettled(Top.op, ret.kind)
  BY <1>1 DEF Settled, Unsettled, SkipsSpace
<1> QED
  BY <1>1, <1>2, <1>3, <1>4, <1>5 DEF Slight, Tame

LEMMA ParseNest ==
  ASSUME AtWork, parse
  PROVE  NestThen /\ Slight
<1> USE DEF AtWork
<1>0. Top.op = "parse" /\ Simple(Top.op, ret.kind)
  BY DEF parse, At, Simple, Closers
<1>1. CASE Hold({"left"}) /\ Become([Top EXCEPT !.op = "parseDelim", !.v = token])
  <2> DEFINE f == [Top EXCEPT !.op = "parseDelim", !.v = token]
  <2>1. f \in FrameRec /\ f.op = "parseDelim" /\ f.ctx = Top.ctx /\ f.mark = Top.mark
    <3>1. "parseDelim" \in Op /\ token \in Item /\ Top \in FrameRec
      BY Fill, CurFacts DEF Op, Root
    <3> QED BY <3>1 DEF FrameRec
  <2>2. Become(f)
    BY <1>1
  <2> HIDE DEF f
  <2>3. Shifted /\ Last(stack').op = "parseDelim"
    BY <1>0, <2>1, <2>2, FrameShift, SimilarOps
  <2>4. Simple(Last(stack').op, ret'.kind)
    BY <2>3 DEF Simple, Closers
  <2> QED BY <1>0, <1>1, <2>3, <2>4, HoldFacts, SimpleStill DEF Calm
<1>2. CASE Peek(Any \ {"eof", "left"}) /\ Call("parsed", Frame("textOrAction", ""))
  <2>1. "textOrAction" \in Op /\ "" \in Context /\ "textOrAction" \notin Tree \cup ControlOp /\ "textOrAction" \notin Pipe
    BY DEF Op, NodeOp, Context, Tree, ControlOp, Pipe
  <2>2. Shifted /\ Last(stack').op = "textOrAction"
    BY <1>0, <1>2, <2>1, CallsShift, SimilarOps
  <2>3. Simple(Last(stack').op, ret'.kind)
    BY <2>2 DEF Simple, Closers
  <2> QED BY <1>0, <1>2, <2>2, <2>3, PeekFacts, SimpleStill DEF Calm
<1> QED
  BY <1>1, <1>2 DEF parse, errorf

LEMMA ParseDelimNest ==
  ASSUME AtWork, parseDelim, token.typ # "define"
  PROVE  NestThen /\ Slight
<1> USE DEF AtWork
<1>0. /\ Top.op = "parseDelim" /\ Simple(Top.op, ret.kind) /\ Read(NonSpace \ {"define"}, backup2(next, Top.v))
      /\ taken' = taken /\ Call("parsed", Frame("textOrAction", ""))
  BY DEF parseDelim, At, Simple, Closers
<1>1. "textOrAction" \in Op /\ "" \in Context /\ "textOrAction" \notin Tree \cup ControlOp /\ "textOrAction" \notin Pipe
  BY DEF Op, NodeOp, Context, Tree, ControlOp, Pipe
<1>2. Shifted /\ Last(stack').op = "textOrAction"
  BY <1>0, <1>1, CallsShift, SimilarOps
<1>3. Simple(Last(stack').op, ret'.kind)
  BY <1>2 DEF Simple, Closers
<1>4. SameVars(trees, trees')
  <2> DEFINE t == backup2(next, Top.v)
  <2>1. t.vars = Cur.vars
    <3>1. IsTree(next) /\ next.vars = Cur.vars
      BY Fill
    <3> QED BY <3>1 DEF backup2, IsTree, TreeRec
  <2>2. trees' = [trees EXCEPT ![Len(trees)] = t]
    BY <1>0, ReadTree
  <2> HIDE DEF t
  <2> QED BY <2>1, <2>2, SameVarsFacts
<1> QED
  BY <1>0, <1>2, <1>3, <1>4, SimpleStill DEF Calm

\* {define}: the name, after which only the delimiter of its action is missing.
LEMMA DefineNameNest ==
  ASSUME AtWork, parseDefinition, Top.op = "defineName"
  PROVE  NestThen /\ Slight
<1> USE DEF AtWork
<1>1. Use({"string"}) /\ Become([Top EXCEPT !.op = "defineDelim", !.name = token.name])
  BY DEF parseDefinition, At
<1> DEFINE f == [Top EXCEPT !.op = "defineDelim", !.name = token.name]
<1>2. f \in FrameRec /\ f.op = "defineDelim" /\ f.ctx = Top.ctx /\ f.mark = Top.mark
  <2>1. "defineDelim" \in Op /\ token.name \in Name /\ Top \in FrameRec
    BY Fill, CurFacts DEF Op, Tree, Item
  <2> QED BY <2>1 DEF FrameRec
<1>3. Become(f)
  BY <1>1
<1> HIDE DEF f
<1>4. Shifted /\ Last(stack').op = "defineDelim" /\ Last(stack) = Top
  BY <1>2, <1>3, FrameShift, SimilarOps DEF Top
<1>5. token.typ = "string"
  BY <1>1, ReadTree DEF Use
<1>6. Used /\ SameVars(trees, trees') /\ Reached(taken') = token.at
  BY <1>1, <1>5, UseFacts DEF Plain
<1>7. ~Opens(token.at) /\ OpeningAt(token.at) = 0 /\ EndingAt(token.at) = 0 /\ Bottom(token.at) = 0
  <2>1. input[token.at].typ = "string"
    BY <1>5, <1>6 DEF Used
  <2>2. ~Opens(token.at)
    BY <1>6, <2>1, OpensAt DEF Used, Control
  <2> QED BY <2>1, <2>2 DEF OpeningAt, EndingAt, Bottom
<1>8. /\ Adj(Last(stack).op, ret.kind) = 0 /\ Adj(Last(stack').op, ret'.kind) = 0 /\ BlockDue(stack) /\ BlockDue(stack')
      /\ ~Doomed(stack, ret.kind) /\ Fresh(Last(stack').op, ret'.kind, token.at) /\ Placed(Last(stack'))
  BY <1>4 DEF Placed, Adj, Closing, Closers, BlockDue, Doomed, Fresh
<1>9. /\ Level(stack', Len(stack')) = Level(stack, Len(stack)) /\ Level(stack, Len(stack)) \in Nat /\ Linked(stack')
  BY <1>4, LevelFacts DEF Shifted
<1>10. NestThen
  <2>1. /\ Level(stack, Len(stack)) \in Nat /\ Level(stack', Len(stack')) \in Nat
        /\ Level(stack', Len(stack')) + Adj(Last(stack').op, ret'.kind)
             = Level(stack, Len(stack)) + Adj(Last(stack).op, ret.kind) + OpeningAt(token.at) - EndingAt(token.at)
        /\ Level(stack', Len(stack')) + Adj(Last(stack').op, ret'.kind) >= Bottom(token.at)
    BY <1>7, <1>8, <1>9
  <2>2. BlockDue(stack') <=> input[token.at].typ # "right" /\ (BlockDue(stack) \/ input[token.at].typ \in {"block", "define"})
    BY <1>5, <1>6, <1>8 DEF Used
  <2>3. Nest(stack, ret.kind, Reached(taken)) /\ Follows(Reached(taken), token.at)
    BY <1>6 DEF NestNow, Used
  <2> QED BY <1>6, <1>8, <1>9, <2>1, <2>2, <2>3, NestOn DEF NestThen
<1>11. Settled(Top.op, ret.kind) /\ Tame
  BY <1>5, <1>6, <1>7 DEF Settled, Closing, Closers, Tame
<1> QED
  BY <1>4, <1>5, <1>6, <1>10, <1>11 DEF Slight, Shifted
LEMMA NestUsed ==
  ASSUME AtWork, Used, Linked(stack'),
         Level(stack', Len(stack')) + Adj(Last(stack').op, ret'.kind)
           = Level(stack, Len(stack)) + Adj(Top.op, ret.kind) + OpeningAt(token.at) - EndingAt(token.at),
         Doomed(stack, ret.kind) => Doomed(stack', ret'.kind),
         Doomed(stack', ret'.kind) \/ Level(stack', Len(stack')) + Adj(Last(stack').op, ret'.kind) >= Bottom(token.at),
         BlockDue(stack') <=> token.typ # "right" /\ (BlockDue(stack) \/ token.typ \in {"block", "define"}),
         Fresh(Last(stack').op, ret'.kind, token.at),
         Placed(Last(stack'))
  PROVE  NestThen
<1>1. /\ Nest(stack, ret.kind, Reached(taken)) /\ Follows(Reached(taken), token.at) /\ input[token.at].typ = token.typ
      /\ Last(stack) = Top /\ Reached(taken') = token.at
  BY ReachedAppend DEF AtWork, NestNow, Used, Top
<1>2. Level(stack, Len(stack)) \in Nat /\ Level(stack', Len(stack')) \in Nat
  BY LevelFacts DEF AtWork
<1>3. BlockDue(stack') <=> input[token.at].typ # "right" /\ (BlockDue(stack) \/ input[token.at].typ \in {"block", "define"})
  BY <1>1
<1>4. Level(stack', Len(stack')) + Adj(Last(stack').op, ret'.kind)
        = Level(stack, Len(stack)) + Adj(Last(stack).op, ret.kind) + OpeningAt(token.at) - EndingAt(token.at)
  BY <1>1
<1> QED
  BY <1>1, <1>2, <1>3, <1>4, NestOn DEF NestThen

LEMMA AppendNest ==
  ASSUME AtWork, NEW from \in {"parsed", "listed"}, Top.op = from, NEW op \in {"parse", "list"}, SameOps(from, op), AppendNode(op)
  PROVE  NestThen /\ Slight
<1> USE DEF AtWork
<1>1. ret.kind \in {"node", "blank"} /\ Becomes(op) /\ NoRead
      /\ trees' = [trees EXCEPT ![Len(trees)].empty = @ /\ (Top.ctx # "root" \/ ret.kind = "blank")]
  BY DEF AppendNode
<1>2. Shifted /\ Last(stack').op = op /\ ret' = ret
  BY <1>1, BecomesShift
<1>3. Simple(Top.op, ret.kind) /\ Top.op # "controlEnd" /\ Simple(op, ret'.kind)
  BY <1>1 DEF Simple, Closers
<1>4. SameVars(trees, trees')
  <2> DEFINE b == Cur.empty /\ (Top.ctx # "root" \/ ret.kind = "blank")
             t == [Cur EXCEPT !.empty = b]
  <2>1. IsTree(Cur) /\ Cur = trees[Len(trees)] /\ trees \in Seq({trees[i] : i \in DOMAIN trees}) /\ Len(trees) \in Nat /\ Len(trees) > 0
    BY CurFacts DEF IsSeq
  <2>2. trees' = [trees EXCEPT ![Len(trees)] = t]
    BY <1>1, <2>1
  <2>3. t.vars = Cur.vars
    BY <2>1 DEF IsTree, TreeRec
  <2> HIDE DEF t
  <2> QED BY <2>2, <2>3, SameVarsFacts
<1> QED
  BY <1>1, <1>2, <1>3, <1>4, SimpleStill DEF NoRead, Calm

LEMMA ParsedNest ==
  ASSUME AtWork, parsed
  PROVE  NestThen /\ Slight
BY AppendNest, SimilarOps DEF parsed, At

\* A list ends with an {end} or an {else}.
LEMMA ListedNest ==
  ASSUME AtWork, Resume("listed"), ret.kind \in {"end", "else"}, Return(ret)
  PROVE  NestThen /\ Slight
<1> USE DEF AtWork
<1>1. Top.op = "listed" /\ NoRead /\ trees' = trees /\ Same /\ ret \in RetRec
  BY DEF Resume, KeepTrees, Working, Inv, At
<1>2. /\ Last(stack').op \in {"treeList", "controlList", "controlElse"} /\ ret' = ret
  BY <1>1, ReturnFrom DEF List
<1>3. Light(Top) /\ Top.op \notin Root /\ Linked(stack)
  BY <1>1 DEF Light, Root, Tree, ControlOp, NestNow, Nest
<1>4. Shifted
  BY <1>2, <1>3, ReturnShift DEF Shifted
<1>5. taken' = taken /\ SameVars(trees, trees')
  BY <1>1, StillFacts
<1>6. Nest(stack, ret.kind, Reached(taken)) /\ Last(stack) = Top
  BY DEF NestNow, Top
<1>7. /\ Adj(Last(stack').op, ret'.kind) = Adj(Last(stack).op, ret.kind)
      /\ ~Doomed(stack, ret.kind) /\ Placed(Last(stack'))
      /\ BlockDue(stack') <=> BlockDue(stack)
      /\ Fresh(Last(stack').op, ret'.kind, Reached(taken))
  <2>1. Adj(Last(stack').op, ret'.kind) = Adj(Last(stack).op, ret.kind)
    BY <1>1, <1>2, <1>6 DEF Placed, Adj, Closing, Closers
  <2>2. ~Doomed(stack, ret.kind) /\ Placed(Last(stack'))
    BY <1>1, <1>2, <1>6 DEF Placed, Doomed
  <2>3. BlockDue(stack') <=> BlockDue(stack)
    BY <1>1, <1>2, <1>4, <1>6 DEF BlockDue, Shifted
  <2>4. Fresh(Last(stack').op, ret'.kind, Reached(taken))
    BY <1>1, <1>2, <1>6 DEF Fresh, Nest
  <2> QED BY <2>1, <2>2, <2>3, <2>4
<1>8. Level(stack', Len(stack')) = Level(stack, Len(stack)) /\ Linked(stack')
  BY <1>4, LevelFacts DEF Shifted
<1>9. NestThen
  BY <1>5, <1>6, <1>7, <1>8, NestStill DEF NestThen
<1>10. \/ Settled(Top.op, ret.kind)
       \/ Unsettled(Top.op, ret.kind) /\ Unsettled(Last(stack').op, ret'.kind)
  BY <1>1, <1>2 DEF Settled, Unsettled, Closing, Closers
<1> QED
  BY <1>2, <1>4, <1>5, <1>9, <1>10 DEF Slight, Tame, Shifted

LEMMA ItemListNest ==
  ASSUME AtWork, itemList
  PROVE  NestThen /\ Slight
<1> USE DEF AtWork
<1>1. CASE At("list") /\ Peek(NonSpace \ {"eof"}) /\ Call("listed", Frame("textOrAction", "")) /\ Same
  <2>0. Top.op = "list" /\ Simple(Top.op, ret.kind)
    BY <1>1 DEF At, Simple, Closers
  <2>1. "textOrAction" \in Op /\ "" \in Context /\ "textOrAction" \notin Tree \cup ControlOp /\ "textOrAction" \notin Pipe
    BY DEF Op, NodeOp, Context, Tree, ControlOp, Pipe
  <2>2. Shifted /\ Last(stack').op = "textOrAction"
    BY <1>1, <2>0, <2>1, CallsShift, SimilarOps
  <2>3. Simple(Last(stack').op, ret'.kind)
    BY <2>2 DEF Simple, Closers
  <2> QED BY <1>1, <2>0, <2>2, <2>3, PeekFacts, SimpleStill DEF Calm
<1>2. CASE Resume("listed") /\ ret.kind \in {"end", "else"} /\ Return(ret)
  BY <1>2, ListedNest
<1>3. CASE At("listed") /\ AppendNode("list")
  BY <1>3, AppendNest, SimilarOps DEF At
<1> QED
  BY <1>1, <1>2, <1>3 DEF itemList

LEMMA TextOrActionNest ==
  ASSUME AtWork, textOrAction
  PROVE  NestThen /\ Slight
<1> USE DEF AtWork
<1>1. /\ Top.op = "textOrAction" /\ Same /\ Plain(Top.op) /\ Simple(Top.op, ret.kind) /\ Last(stack) = Top
      /\ Top.op \in NodeOp \ (ControlOp \cup {"treeList"})
  BY DEF textOrAction, At, Plain, Simple, Closers, Top, NodeOp, ControlOp
<1>2. ASSUME NEW typs, Use(typs), NEW r \in RetRec, r.kind \in {"node", "blank"}, Return(r), token.typ \in {"text", "blank"}
      PROVE  NestThen /\ Slight
  <2>1. Shifted /\ Last(stack').op \in {"parsed", "listed"} /\ ret' = r
    BY <1>1, <1>2, NodeReturn
  <2>2. Used /\ SameVars(trees, trees')
    BY <1>1, <1>2, UseFacts
  <2>3. Simple(Last(stack').op, ret'.kind) /\ token.typ \notin Control \cup {"end", "right", "block", "define", "else", "variable"}
    BY <1>2, <2>1 DEF Simple, Control
  <2> QED BY <1>1, <2>1, <2>2, <2>3, SimpleUse
<1>3. CASE Use({"text"}) /\ Return(Node)
  BY <1>2, <1>3, NodeFact, ReadTree DEF Use
<1>4. CASE Use({"blank"}) /\ Return([Node EXCEPT !.kind = "blank"])
  <2> DEFINE r == [Node EXCEPT !.kind = "blank"]
  <2>1. r \in RetRec /\ r.kind = "blank" /\ Return(r)
    BY <1>4 DEF Node, RetRec
  <2> HIDE DEF r
  <2> QED BY <1>2, <1>4, <2>1, ReadTree DEF Use
<1>5. CASE Use({"left"}) /\ Becomes("action")
  <2>1. token.typ = "left"
    BY <1>5, ReadTree DEF Use
  <2>2. Used /\ SameVars(trees, trees') /\ Reached(taken') = token.at
    BY <1>1, <1>5, <2>1, UseFacts
  <2>3. Shifted /\ Last(stack').op = "action" /\ ret' = ret
    BY <1>1, <1>5, BecomesShift, SimilarOps
  <2>4. ~Opens(token.at) /\ OpeningAt(token.at) = 0 /\ EndingAt(token.at) = 0 /\ Bottom(token.at) = 0
    <3>1. input[token.at].typ = "left"
      BY <2>1, <2>2 DEF Used
    <3>2. ~Opens(token.at)
      BY <2>2, <3>1, OpensAt DEF Used, Control
    <3> QED BY <3>1, <3>2 DEF OpeningAt, EndingAt, Bottom
  <2>5. token.at > 0 /\ input[token.at].typ = "left"
    <3>1. token.at \in Nat /\ Reached(taken) \in Nat /\ Reached(taken) < token.at
      BY <2>2, Between DEF Used
    <3> QED BY <2>1, <2>2, <3>1 DEF Used
  <2>6. /\ Adj(Top.op, ret.kind) = 0 /\ Adj(Last(stack').op, ret'.kind) = 0
        /\ ~Doomed(stack, ret.kind) /\ Fresh(Last(stack').op, ret'.kind, token.at) /\ Placed(Last(stack'))
    BY <1>1, <2>3, <2>5 DEF Placed, Adj, Closing, Closers, Doomed, Fresh
  <2>7. BlockDue(stack') <=> BlockDue(stack)
    BY <1>1, <2>3 DEF BlockDue, Shifted
  <2>8. /\ Level(stack', Len(stack')) = Level(stack, Len(stack)) /\ Level(stack, Len(stack)) \in Nat /\ Linked(stack')
    BY <2>3, LevelFacts DEF Shifted
  <2>9. /\ Level(stack', Len(stack')) + Adj(Last(stack').op, ret'.kind)
            = Level(stack, Len(stack)) + Adj(Top.op, ret.kind) + OpeningAt(token.at) - EndingAt(token.at)
        /\ Level(stack', Len(stack')) + Adj(Last(stack').op, ret'.kind) >= Bottom(token.at)
    BY <2>4, <2>6, <2>8
  <2>10. NestThen
    BY <2>1, <2>2, <2>6, <2>7, <2>8, <2>9, NestUsed
  <2>11. Settled(Top.op, ret.kind) /\ Tame
    BY <1>1, <2>1, <2>2, <2>4 DEF Settled, Closing, Closers, Tame
  <2> QED BY <2>1, <2>2, <2>3, <2>10, <2>11 DEF Slight, Shifted
<1> QED
  BY <1>3, <1>4, <1>5 DEF textOrAction
-----------------------------------------------------------------------------
\* What follows a delimiter: outside of the text itself it is in a control or a tree.
LEMMA NodeDeep ==
  ASSUME NEW s, StackInv(s), Linked(s), Last(s).op \in NodeOp \ (ControlOp \cup {"treeList"})
  PROVE  Len(s) = 2 \/ Level(s, Len(s)) >= 1
<1> DEFINE n == Len(s) - 1
<1>1. Last(s).op \notin Root
  BY DEF NodeOp, Root
<1>2. n \in Nat /\ n > 0 /\ Len(s) = n + 1 /\ Last(s) = s[n + 1] /\ Calls(s[n].op, s[n + 1].op) /\ Link(s[n], s[n + 1])
      /\ \A i \in 1..n + 1 : s[i].op \in Root <=> i = 1
  <2>1. n \in Nat /\ n > 0 /\ Len(s) = n + 1 /\ Last(s) = s[n + 1] /\ DOMAIN s = 1..n + 1
    <3>1. Len(s) \in Nat /\ Len(s) > 0 /\ Len(s) # 1 /\ DOMAIN s = 1..Len(s) /\ Last(s) = s[Len(s)]
      BY <1>1, TopFacts
    <3>2. n \in Nat /\ n > 0 /\ Len(s) = n + 1
      BY <3>1
    <3> HIDE DEF n
    <3> QED BY <3>1, <3>2
  <2>2. n + 1 \in 2..n + 1 /\ (n + 1) - 1 = n
    BY <2>1
  <2> HIDE DEF n
  <2> QED BY <2>1, <2>2 DEF StackInv, Linked
<1> HIDE DEF n
<1>3. s[n].op \in {"parsed", "listed"}
  <2>1. s[n].op \in {"parsed", "listed", "controlEnd"}
    BY <1>2, Callers
  <2> QED BY <1>2, <2>1 DEF Link
<1>4. CASE s[n].op = "parsed"
  <2>1. n \in 1..n + 1
    BY <1>2
  <2>2. n = 1
    BY <1>2, <1>4, <2>1 DEF Root
  <2> QED BY <1>2, <2>2
<1>5. CASE s[n].op = "listed"
  <2>1. n \in 1..n + 1
    BY <1>2
  <2>2. n # 1
    BY <1>2, <1>5, <2>1 DEF Root
  <2>3. n \in 2..Len(s)
    BY <1>2, <2>2
  <2>4. Level(s, n) > 0
    BY <1>5, <2>3, ListDeep DEF List
  <2>5. Level(s, n) <= Level(s, n + 1) /\ Level(s, n) \in Nat /\ Level(s, n + 1) \in Nat
    BY <1>2, Monotone
  <2> QED BY <1>2, <2>4, <2>5
<1> QED
  BY <1>3, <1>4, <1>5

LEMMA InBlockNot ==
  ASSUME AtWork, Top.op \notin Pipe \cup Command
  PROVE  ~InBlock(stack)
<1>1. StackInv(stack) /\ Last(stack) = Top
  BY CurFacts DEF AtWork
<1> QED
  BY <1>1, InBlockTop

\* {end} and {else}.
LEMMA EndElseNest ==
  ASSUME AtWork, Top.op = "action", Use({"end", "else"}), Becomes(token.typ)
  PROVE  NestThen /\ Slight
<1> USE DEF AtWork
<1>1. token.typ \in {"end", "else"} /\ Last(stack) = Top /\ Plain(Top.op)
  BY ReadTree DEF Use, Top, Plain
<1>2. Used /\ SameVars(trees, trees') /\ Reached(taken') = token.at /\ taken' # taken
  BY <1>1, UseFacts
<1>3. Shifted /\ Last(stack').op = token.typ /\ ret' = ret
  BY <1>1, BecomesShift, SimilarOps
<1>4. StackInv(stack') /\ Linked(stack') /\ Level(stack', Len(stack')) = Level(stack, Len(stack)) /\ Level(stack, Len(stack)) \in Nat
  BY <1>3, LevelFacts DEF Shifted
<1>5. Len(stack') = 2 \/ Level(stack', Len(stack')) >= 1
  <2>1. Last(stack').op \in NodeOp \ (ControlOp \cup {"treeList"})
    BY <1>1, <1>3 DEF NodeOp, ControlOp
  <2> QED BY <1>4, <2>1, NodeDeep
<1>6. input[token.at].typ = token.typ /\ ~Opens(token.at) /\ OpeningAt(token.at) = 0 /\ token.at > 0
  <2>1. input[token.at].typ = token.typ /\ Follows(Reached(taken), token.at)
    BY <1>2 DEF Used
  <2>2. ~Opens(token.at)
    BY <1>1, <2>1, OpensAt DEF Control
  <2>3. token.at \in Nat /\ Reached(taken) \in Nat /\ Reached(taken) < token.at
    BY <2>1, Between
  <2> QED BY <2>1, <2>2, <2>3 DEF OpeningAt
<1>7. /\ Adj(Top.op, ret.kind) = 0 /\ ~Doomed(stack, ret.kind) /\ Placed(Last(stack'))
      /\ Fresh(Last(stack').op, ret'.kind, token.at)
      /\ BlockDue(stack') <=> BlockDue(stack)
  BY <1>1, <1>3, <1>6 DEF Placed, Adj, Closing, Closers, Doomed, Fresh, BlockDue, Shifted
<1>8. CASE token.typ = "end"
  <2>1. Adj(Last(stack').op, ret'.kind) = -1 /\ EndingAt(token.at) = 1 /\ Bottom(token.at) = 0
    BY <1>3, <1>6, <1>8 DEF Adj, Closing, EndingAt, Bottom
  <2>2. Doomed(stack', ret'.kind) \/ Level(stack', Len(stack')) >= 1
    BY <1>3, <1>5, <1>8 DEF Doomed
  <2>3. /\ Level(stack', Len(stack')) + Adj(Last(stack').op, ret'.kind)
            = Level(stack, Len(stack)) + Adj(Top.op, ret.kind) + OpeningAt(token.at) - EndingAt(token.at)
        /\ Doomed(stack', ret'.kind) \/ Level(stack', Len(stack')) + Adj(Last(stack').op, ret'.kind) >= Bottom(token.at)
    BY <1>4, <1>6, <1>7, <2>1, <2>2
  <2>4. NestThen
    BY <1>2, <1>4, <1>7, <1>8, <2>3, NestUsed
  <2>5. Settled(Top.op, ret.kind)
    BY DEF Settled, Closing, Closers
  <2> QED BY <1>2, <1>3, <1>6, <1>8, <2>4, <2>5 DEF Slight, Shifted
<1>9. CASE token.typ = "else"
  <2>1. Adj(Last(stack').op, ret'.kind) = 0 /\ EndingAt(token.at) = 0 /\ Bottom(token.at) = 1
    BY <1>3, <1>6, <1>9 DEF Adj, Closing, Closers, EndingAt, Bottom
  <2>2. Doomed(stack', ret'.kind) \/ Level(stack', Len(stack')) >= 1
    BY <1>3, <1>5, <1>9 DEF Doomed
  <2>3. /\ Level(stack', Len(stack')) + Adj(Last(stack').op, ret'.kind)
            = Level(stack, Len(stack)) + Adj(Top.op, ret.kind) + OpeningAt(token.at) - EndingAt(token.at)
        /\ Doomed(stack', ret'.kind) \/ Level(stack', Len(stack')) + Adj(Last(stack').op, ret'.kind) >= Bottom(token.at)
    BY <1>4, <1>6, <1>7, <2>1, <2>2
  <2>4. NestThen
    BY <1>2, <1>4, <1>7, <1>9, <2>3, NestUsed
  <2>5. Settled(Top.op, ret.kind) /\ Tame
    BY <1>2, <1>6, <1>9 DEF Settled, Closing, Closers, Tame
  <2> QED BY <1>2, <1>3, <1>6, <1>9, <2>4, <2>5 DEF Slight, Shifted
<1> QED
  BY <1>1, <1>8, <1>9

LEMMA TemplateNest ==
  ASSUME AtWork, Top.op = "action", Use({"template", "block"}), Become(Frame("templateName", token.typ))
  PROVE  NestThen /\ Slight
<1> USE DEF AtWork
<1>1. token.typ \in {"template", "block"} /\ Last(stack) = Top /\ Plain(Top.op) /\ Linked(stack)
  BY ReadTree DEF Use, Top, Plain, NestNow, Nest
<1>2. Used /\ SameVars(trees, trees') /\ Reached(taken') = token.at /\ taken' # taken
  BY <1>1, UseFacts
<1> DEFINE f == Frame("templateName", token.typ)
<1>3. f \in FrameRec /\ f.op = "templateName" /\ f.ctx = token.typ /\ Become(f)
  <2>1. f \in FrameRec /\ f.op = "templateName"
    BY <1>1, NewFrame DEF Op, NodeOp, Context
  <2> QED BY <2>1 DEF Frame
<1> HIDE DEF f
<1>4. Shifted /\ Last(stack') = f /\ ret' = ret
  <2>1. Alike(Top, f) /\ f.op \notin Pipe
    BY <1>3 DEF Alike, Deepens, ControlOp, Tree, Pipe
  <2> QED BY <1>1, <1>3, <2>1, BecomeShift
<1>5. Linked(stack') /\ Level(stack', Len(stack')) = Level(stack, Len(stack)) /\ Level(stack, Len(stack)) \in Nat
  BY <1>4, LevelFacts DEF Shifted
<1>6. ~Opens(token.at) /\ OpeningAt(token.at) = 0 /\ EndingAt(token.at) = 0 /\ Bottom(token.at) = 0
  <2>1. input[token.at].typ = token.typ /\ Follows(Reached(taken), token.at)
    BY <1>2 DEF Used
  <2>2. ~Opens(token.at)
    BY <1>1, <2>1, OpensAt DEF Control
  <2> QED BY <1>1, <2>1, <2>2 DEF OpeningAt, EndingAt, Bottom
<1>7. /\ Adj(Top.op, ret.kind) = 0 /\ Adj(Last(stack').op, ret'.kind) = 0 /\ ~Doomed(stack, ret.kind)
      /\ Fresh(Last(stack').op, ret'.kind, token.at)
  BY <1>1, <1>3, <1>4 DEF Adj, Closing, Closers, Doomed, Fresh
<1>8. BlockDue(stack') <=> token.typ # "right" /\ (BlockDue(stack) \/ token.typ \in {"block", "define"})
  BY <1>1, <1>3, <1>4 DEF BlockDue, Shifted
<1>9. /\ Level(stack', Len(stack')) + Adj(Last(stack').op, ret'.kind)
          = Level(stack, Len(stack)) + Adj(Top.op, ret.kind) + OpeningAt(token.at) - EndingAt(token.at)
      /\ Level(stack', Len(stack')) + Adj(Last(stack').op, ret'.kind) >= Bottom(token.at)
  BY <1>5, <1>6, <1>7
<1>10. NestThen
  <2>1. Placed(Last(stack'))
    BY <1>1, <1>3, <1>4 DEF Placed
  <2> QED BY <1>2, <1>5, <1>7, <1>8, <1>9, <2>1, NestUsed
<1>11. Settled(Top.op, ret.kind) /\ Tame
  BY <1>1, <1>2, <1>6 DEF Settled, Closing, Closers, Tame
<1> QED
  BY <1>1, <1>2, <1>3, <1>4, <1>10, <1>11 DEF Slight, Shifted

LEMMA CommandNest ==
  ASSUME AtWork, Top.op = "action", Peek(NonSpace \ Keyword), Call("done", Frame("decl", "command"))
  PROVE  NestThen /\ Slight
<1> USE DEF AtWork
<1>1. "decl" \in Op /\ "command" \in Context /\ "decl" \notin Tree \cup ControlOp
  BY DEF Op, Pipe, Context, Tree, ControlOp
<1>2. Shifted /\ Last(stack').op = "decl"
  BY <1>1, CallsShift, SimilarOps
<1>3. Simple(Last(stack').op, ret'.kind)
  BY <1>2 DEF Simple, Closers
<1> QED
  BY <1>2, <1>3, PeekFacts, SimpleStill DEF Calm

LEMMA DoneNest ==
  ASSUME AtWork, done
  PROVE  NestThen /\ Slight
<1> USE DEF AtWork
<1>1. Top.op = "done" /\ NoRead /\ trees' = trees /\ Same /\ Return(Node)
  BY DEF done, Resume, At, KeepTrees
<1>2. Shifted /\ Last(stack').op \in {"parsed", "listed"} /\ ret' = Node
  <2>1. Top.op \in NodeOp \ (ControlOp \cup {"treeList"})
    BY <1>1 DEF NodeOp, ControlOp
  <2> QED BY <1>1, <2>1, NodeReturn, NodeFact
<1>3. Simple(Top.op, ret.kind) /\ Simple(Last(stack').op, ret'.kind)
  BY <1>1, <1>2, NodeFact DEF Simple, Closers
<1> QED
  BY <1>1, <1>2, <1>3, StillFacts, SimpleStill DEF Calm

\* The delimiter after {end}, and what follows {else}.
LEMMA EndControlOpNest ==
  ASSUME AtWork, endControl
  PROVE  NestThen /\ Slight
<1> USE DEF AtWork
<1> DEFINE r == [Node EXCEPT !.kind = "end"]
<1>1. /\ Top.op = "end" /\ Use({"right"}) /\ Return(r) /\ Same /\ r \in RetRec /\ r.kind = "end" /\ Plain(Top.op)
      /\ Last(stack) = Top
  BY DEF endControl, At, Node, RetRec, Plain, Top
<1> HIDE DEF r
<1>2. token.typ = "right"
  BY <1>1, ReadTree DEF Use
<1>3. Used /\ SameVars(trees, trees') /\ Reached(taken') = token.at /\ taken' # taken
  BY <1>1, <1>2, UseFacts
<1>4. Shifted /\ Last(stack').op \in {"parsed", "listed"} /\ ret' = r /\ Len(stack') = Len(stack) - 1 /\ Len(stack) \in Nat
  <2>1. Top.op \in NodeOp \ (ControlOp \cup {"treeList"})
    BY <1>1 DEF NodeOp, ControlOp
  <2> QED BY <1>1, <2>1, NodeReturn
<1>5. /\ Linked(stack') /\ Level(stack', Len(stack')) = Level(stack, Len(stack)) /\ Level(stack, Len(stack)) \in Nat
      /\ StackInv(stack) /\ StackInv(stack')
  BY <1>4, LevelFacts DEF Shifted
<1>6. ~InBlock(stack) /\ ~BlockDue(stack) /\ ~BlockDue(stack')
  <2>1. ~InBlock(stack)
    BY <1>1, InBlockNot DEF Pipe, Command
  <2> QED BY <1>1, <1>4, <2>1 DEF BlockDue, Shifted
<1>7. ~Opens(token.at) /\ OpeningAt(token.at) = 0 /\ EndingAt(token.at) = 0 /\ Bottom(token.at) = 0
  <2>1. input[token.at].typ = "right" /\ Follows(Reached(taken), token.at)
    BY <1>2, <1>3 DEF Used
  <2>2. ~BlockOpen(Reached(taken))
    BY <1>6 DEF NestNow, Nest
  <2>3. ~Opens(token.at)
    BY <2>1, <2>2, OpensAt
  <2> QED BY <2>1, <2>3 DEF OpeningAt, EndingAt, Bottom
<1>8. /\ Adj(Top.op, ret.kind) = -1 /\ Adj(Last(stack').op, ret'.kind) = -1
      /\ Fresh(Last(stack').op, ret'.kind, token.at) /\ Placed(Last(stack'))
  BY <1>1, <1>4 DEF Placed, Adj, Closing, Closers, Fresh
<1>9. /\ Doomed(stack, ret.kind) => Doomed(stack', ret'.kind)
      /\ Doomed(stack', ret'.kind) \/ Level(stack', Len(stack')) >= 1
  <2>1. Len(stack) = 2 => Last(stack').op = "parsed"
    <3>1. Len(stack) = 2 => Len(stack') = 1
      BY <1>4
    <3>2. Len(stack') = 1 => Last(stack').op \in Root
      BY <1>5, TopFacts
    <3> QED BY <1>4, <3>1, <3>2 DEF Root
  <2>2. Doomed(stack, ret.kind) => Len(stack) = 2
    BY <1>1 DEF Doomed
  <2>3. Last(stack').op = "parsed" => Doomed(stack', ret'.kind)
    BY <1>1, <1>4 DEF Doomed
  <2>4. Len(stack) = 2 \/ Level(stack, Len(stack)) >= 1
    <3>1. Last(stack).op \in NodeOp \ (ControlOp \cup {"treeList"}) /\ Linked(stack)
      BY <1>1 DEF NodeOp, ControlOp, NestNow, Nest
    <3> QED BY <1>5, <3>1, NodeDeep
  <2> QED BY <1>5, <2>1, <2>2, <2>3, <2>4
<1>10. /\ Level(stack', Len(stack')) + Adj(Last(stack').op, ret'.kind)
           = Level(stack, Len(stack)) + Adj(Top.op, ret.kind) + OpeningAt(token.at) - EndingAt(token.at)
       /\ Doomed(stack', ret'.kind) \/ Level(stack', Len(stack')) + Adj(Last(stack').op, ret'.kind) >= Bottom(token.at)
  BY <1>5, <1>7, <1>8, <1>9
<1>11. NestThen
  BY <1>2, <1>3, <1>5, <1>6, <1>8, <1>9, <1>10, NestUsed
<1>12. Unsettled(Top.op, ret.kind) /\ Unsettled(Last(stack').op, ret'.kind) /\ Tame
  BY <1>1, <1>2, <1>3, <1>4, <1>7 DEF Unsettled, Closing, Closers, Tame
<1> QED
  BY <1>2, <1>3, <1>4, <1>11, <1>12 DEF Slight, Shifted

LEMMA ElseControlNest ==
  ASSUME AtWork, elseControl
  PROVE  NestThen /\ Slight
<1> USE DEF AtWork
<1> DEFINE r == [Node EXCEPT !.kind = "else"]
<1>1. /\ Top.op = "else" /\ Return(r) /\ Same /\ r \in RetRec /\ r.kind = "else" /\ Plain(Top.op)
      /\ Last(stack) = Top /\ (Use({"right"}) \/ Peek({"if", "with"}))
  BY DEF elseControl, At, Node, RetRec, Plain, Top
<1> HIDE DEF r
<1>2. Shifted /\ Last(stack').op \in {"parsed", "listed"} /\ ret' = r /\ Len(stack') = Len(stack) - 1 /\ Len(stack) \in Nat
  <2>1. Top.op \in NodeOp \ (ControlOp \cup {"treeList"})
    BY <1>1 DEF NodeOp, ControlOp
  <2> QED BY <1>1, <2>1, NodeReturn
<1>3. /\ Linked(stack') /\ Level(stack', Len(stack')) = Level(stack, Len(stack)) /\ Level(stack, Len(stack)) \in Nat
      /\ StackInv(stack) /\ StackInv(stack')
  BY <1>2, LevelFacts DEF Shifted
<1>4. ~InBlock(stack) /\ ~BlockDue(stack) /\ ~BlockDue(stack')
  <2>1. ~InBlock(stack)
    BY <1>1, InBlockNot DEF Pipe, Command
  <2> QED BY <1>1, <1>2, <2>1 DEF BlockDue, Shifted
<1>5. /\ Adj(Top.op, ret.kind) = 0 /\ Adj(Last(stack').op, ret'.kind) = 0 /\ Placed(Last(stack'))
      /\ Settled(Top.op, ret.kind)
  BY <1>1, <1>2 DEF Placed, Adj, Closing, Closers, Settled
<1>6. Doomed(stack, ret.kind) => Doomed(stack', ret'.kind)
  <2>1. Len(stack) = 2 => Last(stack').op = "parsed"
    <3>1. Len(stack) = 2 => Len(stack') = 1
      BY <1>2
    <3>2. Len(stack') = 1 => Last(stack').op \in Root
      BY <1>3, TopFacts
    <3> QED BY <1>2, <3>1, <3>2 DEF Root
  <2>2. Doomed(stack, ret.kind) => Len(stack) = 2
    BY <1>1 DEF Doomed
  <2>3. Last(stack').op = "parsed" => Doomed(stack', ret'.kind)
    BY <1>1, <1>2 DEF Doomed
  <2> QED BY <2>1, <2>2, <2>3
<1>7. CASE Use({"right"})
  <2>1. token.typ = "right"
    BY <1>7, ReadTree DEF Use
  <2>2. Used /\ SameVars(trees, trees') /\ Reached(taken') = token.at /\ taken' # taken
    BY <1>1, <1>7, <2>1, UseFacts
  <2>3. input[token.at].typ = "right" /\ Follows(Reached(taken), token.at)
    BY <2>1, <2>2 DEF Used
  <2>4. ~Opens(token.at) /\ OpeningAt(token.at) = 0 /\ EndingAt(token.at) = 0 /\ Bottom(token.at) = 0
    <3>1. ~BlockOpen(Reached(taken))
      BY <1>4 DEF NestNow, Nest
    <3>2. ~Opens(token.at)
      BY <2>3, <3>1, OpensAt
    <3> QED BY <2>3, <3>2 DEF OpeningAt, EndingAt, Bottom
  <2>5. Fresh(Last(stack').op, ret'.kind, token.at)
    <3>1. token.at > 0
      BY <2>3, Between
    <3> QED BY <1>2, <2>3, <3>1 DEF Fresh
  <2>6. /\ Level(stack', Len(stack')) + Adj(Last(stack').op, ret'.kind)
            = Level(stack, Len(stack)) + Adj(Top.op, ret.kind) + OpeningAt(token.at) - EndingAt(token.at)
        /\ Level(stack', Len(stack')) + Adj(Last(stack').op, ret'.kind) >= Bottom(token.at)
    BY <1>3, <1>5, <2>4
  <2>7. NestThen
    BY <1>3, <1>4, <1>5, <1>6, <2>1, <2>2, <2>5, <2>6, NestUsed
  <2>8. Tame
    BY <2>1, <2>2, <2>4 DEF Tame
  <2> QED BY <1>2, <1>5, <2>1, <2>2, <2>7, <2>8 DEF Slight, Shifted
<1>8. CASE Peek({"if", "with"})
  <2>1. taken' = taken /\ SameVars(trees, trees')
    BY <1>8, PeekFacts
  <2>2. Nest(stack, ret.kind, Reached(taken))
    BY DEF NestNow
  <2>3. Fresh(Last(stack').op, ret'.kind, Reached(taken))
    BY <1>1, <1>2, <2>2 DEF Nest, Fresh
  <2>4. Level(stack', Len(stack')) + Adj(Last(stack').op, ret'.kind) = Level(stack, Len(stack)) + Adj(Last(stack).op, ret.kind)
    BY <1>1, <1>3, <1>5
  <2>5. NestThen
    BY <1>3, <1>4, <1>5, <1>6, <2>1, <2>2, <2>3, <2>4, NestStill DEF NestThen
  <2> QED BY <1>2, <1>5, <2>1, <2>5 DEF Slight, Tame, Shifted
<1> QED
  BY <1>1, <1>7, <1>8
-----------------------------------------------------------------------------
LEMMA RightUse ==
  ASSUME AtWork, Shifted, Used, token.typ = "right", ~InBlock(stack),
         Simple(Top.op, ret.kind), Simple(Last(stack').op, ret'.kind)
  PROVE  NestThen /\ Tame
<1> USE DEF AtWork
<1>1. Last(stack) = Top
  BY DEF Top
<1>2. Adj(Top.op, ret.kind) = 0 /\ ~BlockDue(stack) /\ ~Doomed(stack, ret.kind)
  BY <1>1, SimpleFacts
<1>3. /\ Adj(Last(stack').op, ret'.kind) = 0 /\ ~Doomed(stack', ret'.kind) /\ ~BlockDue(stack')
      /\ Fresh(Last(stack').op, ret'.kind, token.at) /\ Placed(Last(stack'))
  <2>1. BlockDue(stack') <=> InBlock(stack')
    BY SimpleFacts
  <2> QED BY <2>1, SimpleFacts DEF Shifted
<1>4. Level(stack', Len(stack')) = Level(stack, Len(stack)) /\ Level(stack, Len(stack)) \in Nat /\ Linked(stack')
  BY LevelFacts DEF Shifted
<1>5. input[token.at].typ = "right" /\ Follows(Reached(taken), token.at)
  BY DEF Used
<1>6. ~Opens(token.at) /\ OpeningAt(token.at) = 0 /\ EndingAt(token.at) = 0 /\ Bottom(token.at) = 0
  <2>1. ~BlockOpen(Reached(taken))
    BY <1>2 DEF NestNow, Nest
  <2>2. ~Opens(token.at)
    BY <1>5, <2>1, OpensAt
  <2> QED BY <1>5, <2>2 DEF OpeningAt, EndingAt, Bottom
<1>7. /\ Level(stack', Len(stack')) + Adj(Last(stack').op, ret'.kind)
          = Level(stack, Len(stack)) + Adj(Top.op, ret.kind) + OpeningAt(token.at) - EndingAt(token.at)
      /\ Level(stack', Len(stack')) + Adj(Last(stack').op, ret'.kind) >= Bottom(token.at)
  BY <1>2, <1>3, <1>4, <1>6
<1> QED
  BY <1>2, <1>3, <1>4, <1>6, <1>7, NestUsed DEF Tame

\* The pipeline and the lists of a control.
LEMMA ParseControlNest ==
  ASSUME AtWork, parseControl, ~(Top.op = "controlList" /\ Chained)
  PROVE  NestThen /\ Slight
<1> USE DEF AtWork
<1>0. "decl" \in Op /\ "list" \in Op /\ "" \in Context /\ "decl" \notin Tree \cup ControlOp /\ "list" \notin Tree \cup ControlOp
      /\ "list" \notin Pipe
  BY DEF Op, Pipe, List, Context, Tree, ControlOp
<1>1. CASE Resume("control") /\ Call("controlPipe", Frame("decl", Top.ctx))
  <2>1. Top.op = "control" /\ NoRead /\ trees' = trees
    BY <1>1 DEF Resume, KeepTrees, At
  <2>2. Top.ctx \in Context /\ Top.ctx # "paren"
    <3>1. Top.ctx \in Control
      BY <2>1 DEF NestNow, Nest, Placed, Top
    <3> QED BY <3>1 DEF Context, Control
  <2>3. Shifted /\ Last(stack').op = "decl"
    BY ZenonT(60), <1>0, <1>1, <2>1, <2>2, CallsShift, SimilarOps
  <2>4. Simple(Last(stack').op, ret'.kind)
    BY <2>3 DEF Simple, Closers
  <2> QED BY <2>1, <2>3, <2>4, StillFacts, SimpleStill DEF Calm
<1>2. CASE Resume("controlPipe") /\ Call("controlList", Frame("list", ""))
  <2>1. Top.op = "controlPipe" /\ NoRead /\ trees' = trees
    BY <1>2 DEF Resume, KeepTrees, At
  <2>2. Shifted /\ Last(stack').op = "list"
    BY <1>0, <1>2, <2>1, CallsShift, SimilarOps
  <2>3. Simple(Top.op, ret.kind) /\ Simple(Last(stack').op, ret'.kind)
    BY <2>1, <2>2 DEF Simple, Closers
  <2> QED BY <2>1, <2>2, <2>3, StillFacts, SimpleStill DEF Calm
<1>3. CASE At("controlList") /\ ret.kind = "else" /\ Peek(Any) /\ Call("controlElse", Frame("list", ""))
  <2>1. Top.op = "controlList"
    BY <1>3 DEF At
  <2>2. Shifted /\ Last(stack').op = "list"
    BY <1>0, <1>3, <2>1, CallsShift, SimilarOps
  <2>3. Simple(Last(stack').op, ret'.kind)
    BY <2>2 DEF Simple, Closers
  <2> QED BY <1>3, <2>1, <2>2, <2>3, PeekFacts, SimpleStill DEF Calm
<1> QED
  BY <1>1, <1>2, <1>3 DEF parseControl, At

LEMMA TemplateControlNest ==
  ASSUME AtWork, templateControl
  PROVE  NestThen /\ Slight
<1> USE DEF AtWork
<1>0. Last(stack) = Top /\ Linked(stack) /\ Placed(Top) /\ Plain("templateName") /\ Plain("templateArg")
  BY DEF Top, NestNow, Nest, Plain
<1>1. CASE Top.op = "templateName"
  <2>1. Use({"string"}) /\ Same
    BY <1>1 DEF templateControl, At
  <2>2. token.typ = "string"
    BY <2>1, ReadTree DEF Use
  <2>3. Used /\ SameVars(trees, trees') /\ taken' # taken
    BY <1>0, <1>1, <2>1, <2>2, UseFacts
  <2>4. ~Opens(token.at) /\ OpeningAt(token.at) = 0 /\ EndingAt(token.at) = 0 /\ Bottom(token.at) = 0
    <3>1. input[token.at].typ = "string" /\ Follows(Reached(taken), token.at)
      BY <2>2, <2>3 DEF Used
    <3>2. ~Opens(token.at)
      BY <3>1, OpensAt DEF Control
    <3> QED BY <3>1, <3>2 DEF OpeningAt, EndingAt, Bottom
  <2>5. /\ Kept(stack, stack') /\ Linked(stack') /\ Last(stack').op \in {"templateArg", "decl"}
        /\ BlockDue(stack') <=> BlockDue(stack)
    <3>1. CASE Top.ctx = "template"
      <4>1. Becomes("templateArg")
        BY <1>1, <3>1 DEF templateControl, At
      <4>2. Shifted /\ Last(stack').op = "templateArg"
        BY <1>1, <4>1, BecomesShift, SimilarOps
      <4> QED BY <1>0, <1>1, <3>1, <4>2 DEF BlockDue, Shifted
    <3>2. CASE Top.ctx # "template"
      <4> DEFINE g == [Top EXCEPT !.op = "blockPipe", !.name = token.name]
                 f == Frame("decl", "block")
      <4>1. stack' = Front(stack) \o <<g, f>>
        BY <1>1, <3>2 DEF templateControl, At
      <4>2. g \in FrameRec /\ g.op = "blockPipe" /\ g.mark = Top.mark
        <5>1. "blockPipe" \in Op /\ token.name \in Name /\ Top \in FrameRec
          BY Fill, CurFacts DEF Op, NodeOp, Item
        <5> QED BY <5>1 DEF FrameRec
      <4>3. f \in FrameRec /\ f.op = "decl" /\ f.ctx = "block"
        BY NewFrame DEF Op, Pipe, Context, Frame
      <4> HIDE DEF g, f
      <4>4. SameOps(Top.op, g.op)
        BY <1>1, <4>2, SimilarOps
      <4>5. Alike(Top, g) /\ Kin(Top.op, g.op) /\ g.op \notin Pipe /\ Light(f) /\ Link(g, f)
        BY <4>2, <4>3, <4>4 DEF Alike, SameOps, Light, Link, Pipe, ControlOp, Tree
      <4>6. /\ Kept(stack, stack') /\ Linked(stack') /\ Last(stack') = f
            /\ InBlock(stack') <=> InBlock(stack) \/ g.op = "blockPipe"
        BY <1>0, <4>1, <4>2, <4>3, <4>5, CallShift
      <4>7. BlockDue(stack) /\ BlockDue(stack')
        BY <1>0, <1>1, <3>2, <4>2, <4>6 DEF BlockDue, Placed
      <4> QED BY <4>3, <4>6, <4>7
    <3> QED BY <3>1, <3>2
  <2>6. Level(stack', Len(stack')) = Level(stack, Len(stack)) /\ Level(stack, Len(stack)) \in Nat
    BY <2>5, LevelFacts
  <2>7. /\ Adj(Top.op, ret.kind) = 0 /\ Adj(Last(stack').op, ret'.kind) = 0 /\ ~Doomed(stack, ret.kind)
        /\ Fresh(Last(stack').op, ret'.kind, token.at) /\ Placed(Last(stack'))
    BY <1>0, <1>1, <2>5 DEF Adj, Closing, Closers, Doomed, Fresh, Placed
  <2>8. /\ Level(stack', Len(stack')) + Adj(Last(stack').op, ret'.kind)
            = Level(stack, Len(stack)) + Adj(Top.op, ret.kind) + OpeningAt(token.at) - EndingAt(token.at)
        /\ Level(stack', Len(stack')) + Adj(Last(stack').op, ret'.kind) >= Bottom(token.at)
    BY <2>4, <2>6, <2>7
  <2>9. NestThen
    BY <2>2, <2>3, <2>5, <2>7, <2>8, NestUsed
  <2>10. Settled(Top.op, ret.kind) /\ Tame
    BY <1>1, <2>2, <2>3, <2>4 DEF Settled, Closing, Closers, Tame
  <2> QED BY <2>2, <2>3, <2>5, <2>9, <2>10 DEF Slight
<1>2. CASE At("templateArg") /\ Use({"right"}) /\ Return(Node) /\ Same
  <2>1. Top.op = "templateArg" /\ token.typ = "right"
    BY <1>2, ReadTree DEF At, Use
  <2>2. Used /\ SameVars(trees, trees')
    BY <1>0, <1>2, <2>1, UseFacts
  <2>3. Shifted /\ Last(stack').op \in {"parsed", "listed"} /\ ret' = Node
    <3>1. Top.op \in NodeOp \ (ControlOp \cup {"treeList"})
      BY <2>1 DEF NodeOp, ControlOp
    <3> QED BY <1>2, <3>1, NodeReturn, NodeFact
  <2>4. Simple(Top.op, ret.kind) /\ Simple(Last(stack').op, ret'.kind) /\ Settled(Top.op, ret.kind)
    BY <2>1, <2>3, NodeFact DEF Simple, Closers, Settled, Closing
  <2>5. ~InBlock(stack)
    BY <2>1, InBlockNot DEF Pipe, Command
  <2>6. NestThen /\ Tame
    BY <2>1, <2>2, <2>3, <2>4, <2>5, RightUse
  <2>7. Last(stack').op \notin {"defineName", "defineDelim"} /\ Kept(stack, stack') /\ token.typ # "variable"
    BY <2>1, <2>3 DEF Shifted
  <2> QED BY <2>2, <2>4, <2>6, <2>7, SlightFacts
<1>3. CASE At("templateArg") /\ Peek(NonSpace \ {"right"}) /\ Call("done", Frame("decl", "template")) /\ Same
  <2>1. Top.op = "templateArg" /\ "decl" \in Op /\ "template" \in Context /\ "decl" \notin Tree \cup ControlOp
    BY <1>3 DEF At, Op, Pipe, Context, Tree, ControlOp
  <2>2. Shifted /\ Last(stack').op = "decl"
    BY <1>3, <2>1, CallsShift, SimilarOps
  <2>3. Simple(Top.op, ret.kind) /\ Simple(Last(stack').op, ret'.kind)
    BY <2>1, <2>2 DEF Simple, Closers
  <2> QED BY <1>3, <2>1, <2>2, <2>3, PeekFacts, SimpleStill DEF Calm
<1> QED
  BY <1>1, <1>2, <1>3 DEF templateControl, At
-----------------------------------------------------------------------------
\* Steps within a pipeline that replace the frame at the top.
InPipe(op) == op \in Pipe \cup Command
LEMMA PipeOps ==
  ASSUME NEW op, InPipe(op), NEW kind
  PROVE  Simple(op, kind) /\ Calm(op, kind) /\ op # "controlEnd"
BY DEF InPipe, Pipe, Command, Simple, Calm, Closers

LEMMA PipeStill ==
  ASSUME AtWork, Shifted, InPipe(Top.op), InPipe(Last(stack').op), taken' = taken, SameVars(trees, trees')
  PROVE  NestThen /\ Slight
BY PipeOps, SimpleStill DEF AtWork

LEMMA PipeUse ==
  ASSUME AtWork, Shifted, InPipe(Top.op), InPipe(Last(stack').op), NEW typs, Use(typs), Plain(Top.op),
         token.typ \in {"identifier", "unknown", "field", "literal", "string", "lparen", "rparen", "pipe", "variable"},
         token.typ = "variable" => Defined
  PROVE  NestThen /\ Slight
<1>1. Used /\ SameVars(trees, trees')
  BY UseFacts DEF AtWork
<1>2. token.typ \notin Control \cup {"end", "right", "block", "define", "else"}
  BY DEF Control
<1> QED
  BY <1>1, <1>2, PipeOps, SimpleUse DEF AtWork

LEMMA DeclarationsNest ==
  ASSUME AtWork, declarations, taken' = taken
  PROVE  NestThen /\ Slight
<1> USE DEF AtWork, At
<1>0. Top \in FrameRec /\ token \in Item /\ \A op \in Pipe : InPipe(op) /\ op \in Op /\ SameOps("decl", op)
      /\ SameOps("declAfter", op) /\ SameOps("declNext", op) /\ SameOps("declSecond", op)
  BY CurFacts, Fill, SimilarOps DEF InPipe, Op, Pipe
<1>1. CASE At("decl") /\ Hold({"variable"}) /\ Become([Top EXCEPT !.op = "declAfter", !.v = token])
  <2> DEFINE f == [Top EXCEPT !.op = "declAfter", !.v = token]
  <2>1. f \in FrameRec /\ f.op = "declAfter" /\ f.ctx = Top.ctx /\ f.mark = Top.mark
    <3>1. "declAfter" \in Op
      BY <1>0 DEF Pipe
    <3> QED BY <1>0, <3>1 DEF FrameRec
  <2>2. Become(f)
    BY <1>1
  <2> HIDE DEF f
  <2>3. Shifted /\ Last(stack').op = "declAfter"
    BY <1>0, <1>1, <2>1, <2>2, FrameShift DEF Pipe
  <2> QED BY <1>0, <1>1, <2>3, HoldFacts, PipeStill DEF Pipe
<1>2. CASE At("decl") /\ Peek(NonSpace \ {"variable"}) /\ Becomes("pipe")
  <2>1. Shifted /\ Last(stack').op = "pipe"
    BY <1>0, <1>2, BecomesShift DEF Pipe
  <2> QED BY <1>0, <1>2, <2>1, PeekFacts, PipeStill DEF Pipe
<1>3. CASE At("declAfter") /\ Peek(Any) /\ Become([Top EXCEPT !.op = "declNext", !.after = token])
  <2> DEFINE f == [Top EXCEPT !.op = "declNext", !.after = token]
  <2>1. f \in FrameRec /\ f.op = "declNext" /\ f.ctx = Top.ctx /\ f.mark = Top.mark
    <3>1. "declNext" \in Op
      BY <1>0 DEF Pipe
    <3> QED BY <1>0, <3>1 DEF FrameRec
  <2>2. Become(f)
    BY <1>3
  <2> HIDE DEF f
  <2>3. Shifted /\ Last(stack').op = "declNext"
    BY <1>0, <1>3, <2>1, <2>2, FrameShift DEF Pipe
  <2> QED BY <1>0, <1>3, <2>3, PeekFacts, PipeStill DEF Pipe
<1>4. CASE At("declSecond") /\ Peek({"variable", "right", "rparen"}) /\ Becomes("decl")
  <2>1. Shifted /\ Last(stack').op = "decl"
    BY <1>0, <1>4, BecomesShift DEF Pipe
  <2> QED BY <1>0, <1>4, <2>1, PeekFacts, PipeStill DEF Pipe
<1>5. CASE /\ At("declNext") /\ Becomes("pipe")
           /\ Read(NonSpace \ {"assign", "declare", "comma"},
                   IF Top.after.typ = "space" THEN backup3(next, Top.v, Top.after) ELSE backup2(next, Top.v))
  <2> DEFINE t == IF Top.after.typ = "space" THEN backup3(next, Top.v, Top.after) ELSE backup2(next, Top.v)
  <2>1. Shifted /\ Last(stack').op = "pipe"
    BY <1>0, <1>5, BecomesShift DEF Pipe
  <2>2. t.vars = Cur.vars
    <3>1. IsTree(next) /\ next.vars = Cur.vars
      BY Fill
    <3> QED BY <3>1 DEF backup2, backup3, IsTree, TreeRec
  <2>3. trees' = [trees EXCEPT ![Len(trees)] = t]
    BY <1>5, ReadTree
  <2> HIDE DEF t
  <2>4. SameVars(trees, trees')
    BY <2>2, <2>3, SameVarsFacts
  <2> QED BY <1>0, <1>5, <2>1, <2>4, PipeStill DEF Pipe
<1>6. ASSUME NEW typs, Declare(typs), ~Plain(Top.op) PROVE FALSE
  <2>1. taken \in Seq(Nat)
    BY CurFacts DEF TokensInv, Tokens
  <2>2. taken' = taken \o <<Top.v.at, token.at>>
    BY <1>6 DEF Declare
  <2>3. Len(taken') = Len(taken) + 2 /\ Len(taken) \in Nat
    <3>1. Top.v.at \in Nat /\ token.at \in Nat
      BY <1>0 DEF FrameRec, Item
    <3> QED BY <2>1, <2>2, <3>1
  <2> QED BY <2>3
<1>7. CASE Top.op = "declNext" /\ \E typs \in {{"assign", "declare"}, {"comma"}} : Declare(typs)
  BY <1>6, <1>7 DEF Plain
<1> QED
  BY <1>1, <1>2, <1>3, <1>4, <1>5, <1>7 DEF declarations

LEMMA PipelineNest ==
  ASSUME AtWork, pipeline
  PROVE  NestThen /\ Slight
<1> USE DEF AtWork
<1>0. Top \in FrameRec /\ Last(stack) = Top /\ Linked(stack) /\ StackInv(stack) /\ StackInv(stack')
  BY CurFacts, LevelFacts DEF NestNow, Nest
<1>1. CASE At("pipe") /\ Peek(Term) /\ Call("piped", Frame("operand", ""))
  <2>1. Top.op = "pipe" /\ "operand" \in Op /\ "" \in Context /\ "operand" \notin Tree \cup ControlOp /\ "operand" \notin Pipe
        /\ SameOps("pipe", "piped")
    BY <1>1, SimilarOps DEF At, Op, Pipe, Command, Context, Tree, ControlOp
  <2>2. Shifted /\ Last(stack').op = "operand"
    BY <1>1, <2>1, CallsShift
  <2> QED BY <1>1, <2>1, <2>2, PeekFacts, PipeStill DEF InPipe, Pipe, Command
<1>2. CASE /\ Resume("piped")
           /\ Become([Top EXCEPT !.op = "pipe", !.n = @ + 1, !.exec = @ /\ (Top.n = 0 \/ ret.exec)])
  <2> DEFINE e == Top.exec /\ (Top.n = 0 \/ ret.exec)
             f == [Top EXCEPT !.op = "pipe", !.n = Top.n + 1, !.exec = e]
  <2>1. Top.op = "piped" /\ NoRead /\ trees' = trees /\ Become(f)
    BY <1>2 DEF Resume, KeepTrees, At
  <2>2. f \in FrameRec /\ f.op = "pipe" /\ f.ctx = Top.ctx /\ f.mark = Top.mark
    <3>1. "pipe" \in Op /\ Top.n + 1 \in Nat /\ e \in BOOLEAN
      BY <1>0 DEF Op, Pipe, FrameRec
    <3> HIDE DEF e
    <3> QED BY <1>0, <3>1 DEF FrameRec
  <2> HIDE DEF f
  <2>3. SameOps("piped", "pipe")
    BY SimilarOps DEF Pipe
  <2>4. Shifted /\ Last(stack').op = "pipe"
    BY <2>1, <2>2, <2>3, FrameShift
  <2> QED BY <2>1, <2>4, StillFacts, PipeStill DEF InPipe, Pipe
<1>3. CASE At("pipe") /\ Use(Ending) /\ Return(Node) /\ Same
  <2>1. Top.op = "pipe" /\ Plain(Top.op) /\ Light(Top) /\ Top.op \notin Root /\ Top.op \in Pipe
    BY <1>3 DEF At, Plain, Light, Pipe, Root, ControlOp, Tree
  <2>2. Last(stack').op \in {"controlPipe", "done", "blockPipe", "chain"} /\ ret' = Node
    BY <1>3, <2>1, ReturnFrom, NodeFact
  <2>3. /\ Kept(stack, stack') /\ Linked(stack') /\ Link(Last(stack'), Top)
        /\ InBlock(stack) <=> InBlock(stack') \/ Last(stack').op = "blockPipe"
    BY <1>0, <1>3, <2>1, ReturnShift
  <2>4. token.typ \in Ending /\ token.typ \in {"right", "rparen"}
    BY <1>3, ReadTree DEF Use, Ending
  <2>5. Used /\ SameVars(trees, trees') /\ taken' # taken
    BY <1>3, <2>1, <2>4, UseFacts
  <2>6. Settled(Top.op, ret.kind) /\ Simple(Top.op, ret.kind)
    BY <2>1 DEF Settled, Closing, Closers, Simple
  <2>7. Last(stack').op \notin {"defineName", "defineDelim"}
    BY <2>2
  <2>8. CASE Top.ctx = "paren"
    <3>1. Last(stack').op = "chain" /\ token.typ = "rparen"
      BY <2>1, <2>3, <2>4, <2>8 DEF Link, Ending
    <3>2. Shifted
      BY <2>3, <3>1 DEF Shifted
    <3> QED BY <1>3, <2>1, <2>4, <3>1, <3>2, PipeUse DEF InPipe, Command
  <2>9. CASE Top.ctx # "paren"
    <3>1. Last(stack').op # "chain" /\ token.typ = "right"
      BY <2>1, <2>3, <2>4, <2>9 DEF Link, Ending
    <3>2. InBlock(stack) <=> Last(stack').op = "blockPipe"
      <4>1. stack' = Front(stack)
        BY <1>3 DEF Return
      <4> QED BY <1>0, <2>1, <2>9, <4>1, BlockCaller
    <3>3. ~InBlock(stack')
      <4>1. Last(stack').op \notin Pipe \cup Command
        BY <2>2, <3>1 DEF Pipe, Command
      <4> QED BY <1>0, <4>1, InBlockTop
    <3>4. CASE Last(stack').op # "blockPipe"
      <4>1. Shifted /\ ~InBlock(stack)
        BY <2>3, <3>2, <3>4 DEF Shifted
      <4>2. Simple(Last(stack').op, ret'.kind)
        BY <2>2, <3>4, NodeFact DEF Simple, Closers
      <4>3. NestThen /\ Tame
        BY <2>5, <2>6, <3>1, <4>1, <4>2, RightUse
      <4> QED BY <2>3, <2>5, <2>6, <2>7, <3>1, <4>3, SlightFacts
    <3>5. CASE Last(stack').op = "blockPipe"
      <4>1. /\ BlockDue(stack) /\ ~BlockDue(stack') /\ ~Doomed(stack, ret.kind)
            /\ Adj(Top.op, ret.kind) = 0 /\ Adj(Last(stack').op, ret'.kind) = 1
            /\ Fresh(Last(stack').op, ret'.kind, token.at) /\ Placed(Last(stack'))
        BY <1>0, <2>1, <3>2, <3>3, <3>5 DEF BlockDue, Doomed, Adj, Closing, Closers, Fresh, Placed
      <4>2. Level(stack', Len(stack')) = Level(stack, Len(stack)) /\ Level(stack, Len(stack)) \in Nat
        BY <2>3, LevelFacts
      <4>3. input[token.at].typ = "right" /\ Follows(Reached(taken), token.at)
        BY <2>5, <3>1 DEF Used
      <4>4. Opens(token.at) /\ OpeningAt(token.at) = 1 /\ EndingAt(token.at) = 0 /\ Bottom(token.at) = 0
        <5>1. BlockOpen(Reached(taken))
          BY <4>1 DEF NestNow, Nest
        <5>2. Opens(token.at)
          BY <4>3, <5>1, OpensAt
        <5> QED BY <4>3, <5>2 DEF OpeningAt, EndingAt, Bottom
      <4>5. /\ Level(stack', Len(stack')) + Adj(Last(stack').op, ret'.kind)
                = Level(stack, Len(stack)) + Adj(Top.op, ret.kind) + OpeningAt(token.at) - EndingAt(token.at)
            /\ Level(stack', Len(stack')) + Adj(Last(stack').op, ret'.kind) >= Bottom(token.at)
        BY <4>1, <4>2, <4>4
      <4>6. NestThen
        BY <2>3, <2>5, <3>1, <4>1, <4>5, NestUsed
      <4> QED BY <2>3, <2>5, <2>6, <2>7, <3>1, <3>5, <4>4, <4>6 DEF Slight
    <3> QED BY <3>4, <3>5
  <2> QED BY <2>8, <2>9
<1> QED
  BY <1>1, <1>2, <1>3 DEF pipeline

LEMMA OperandNest ==
  ASSUME AtWork, operand
  PROVE  NestThen /\ Slight
<1> USE DEF AtWork, At
<1>0. /\ Top \in FrameRec /\ Linked(stack)
      /\ \A op \in Command : SameOps("operand", op) /\ SameOps("chain", op) /\ op \in Op /\ InPipe(op) /\ Plain(op)
  BY CurFacts, SimilarOps DEF Command, NestNow, Nest, Op, InPipe, Plain
<1>1. CASE At("operand") /\ Defined /\ Use(Term) /\ Become([Top EXCEPT !.op = "chain", !.literal = FALSE])
  <2> DEFINE f == [Top EXCEPT !.op = "chain", !.literal = FALSE]
  <2>1. f \in FrameRec /\ f.op = "chain" /\ f.ctx = Top.ctx /\ f.mark = Top.mark
    <3>1. "chain" \in Op
      BY DEF Op, Command
    <3> QED BY <1>0, <3>1 DEF FrameRec
  <2>2. Become(f)
    BY <1>1
  <2> HIDE DEF f
  <2>3. Shifted /\ Last(stack').op = "chain"
    BY <1>0, <1>1, <2>1, <2>2, FrameShift DEF Command
  <2>4. token.typ \in {"identifier", "field", "variable"}
    BY <1>1 DEF Defined
  <2> QED BY <1>0, <1>1, <2>3, <2>4, PipeUse DEF Command
<1>2. CASE /\ At("operand") /\ Use({"literal", "string"})
           /\ Become([Top EXCEPT !.op = "chain", !.literal = TRUE, !.exec = @ /\ Top.n > 0])
  <2> DEFINE e == Top.exec /\ Top.n > 0
             f == [Top EXCEPT !.op = "chain", !.literal = TRUE, !.exec = e]
  <2>1. f \in FrameRec /\ f.op = "chain" /\ f.ctx = Top.ctx /\ f.mark = Top.mark
    <3>1. "chain" \in Op /\ e \in BOOLEAN
      BY DEF Op, Command
    <3> HIDE DEF e
    <3> QED BY <1>0, <3>1 DEF FrameRec
  <2>2. Become(f)
    BY <1>2
  <2> HIDE DEF f
  <2>3. Shifted /\ Last(stack').op = "chain"
    BY <1>0, <1>2, <2>1, <2>2, FrameShift DEF Command
  <2>4. token.typ \in {"literal", "string"}
    BY <1>2, ReadTree DEF Use
  <2> QED BY <1>0, <1>2, <2>3, <2>4, PipeUse DEF Command
<1>3. CASE /\ At("operand") /\ Use({"lparen"}) /\ UNCHANGED ret
           /\ stack' = Front(stack) \o <<[Top EXCEPT !.op = "chain", !.literal = FALSE], Frame("decl", "paren")>>
  <2> DEFINE g == [Top EXCEPT !.op = "chain", !.literal = FALSE]
             f == Frame("decl", "paren")
  <2>1. g \in FrameRec /\ g.op = "chain" /\ g.mark = Top.mark
    <3>1. "chain" \in Op
      BY DEF Op, Command
    <3> QED BY <1>0, <3>1 DEF FrameRec
  <2>2. f \in FrameRec /\ f.op = "decl" /\ f.ctx = "paren"
    BY NewFrame DEF Op, Pipe, Context, Frame
  <2>3. stack' = Front(stack) \o <<g, f>>
    BY <1>3
  <2> HIDE DEF g, f
  <2>4. SameOps(Top.op, g.op)
    BY <1>0, <1>3, <2>1 DEF Command
  <2>5. Alike(Top, g) /\ Kin(Top.op, g.op) /\ g.op \notin Pipe /\ Light(f) /\ Link(g, f)
    BY <2>1, <2>2, <2>4 DEF Alike, SameOps, Light, Link, Pipe, ControlOp, Tree
  <2>6. /\ Kept(stack, stack') /\ Linked(stack') /\ Last(stack') = f
        /\ InBlock(stack') <=> InBlock(stack) \/ g.op = "blockPipe"
    BY <1>0, <2>1, <2>2, <2>3, <2>5, CallShift
  <2>7. Shifted /\ Last(stack').op = "decl"
    BY <2>1, <2>2, <2>6 DEF Shifted
  <2>8. token.typ = "lparen"
    BY <1>3, ReadTree DEF Use
  <2>9. InPipe("decl")
    BY DEF InPipe, Pipe
  <2> QED BY <1>0, <1>3, <2>7, <2>8, <2>9, PipeUse DEF Command
<1>4. CASE At("operand") /\ Peek(NonSpace \ Term) /\ Becomes("argEnd")
  <2>1. Shifted /\ Last(stack').op = "argEnd"
    BY <1>0, <1>4, BecomesShift DEF Command
  <2> QED BY <1>0, <1>4, <2>1, PeekFacts, PipeStill DEF Command
<1>5. CASE At("chain") /\ Use({"field"}) /\ Becomes("chain")
  <2>1. Shifted /\ Last(stack').op = "chain"
    BY <1>0, <1>5, BecomesShift DEF Command
  <2>2. token.typ = "field"
    BY <1>5, ReadTree DEF Use
  <2> QED BY <1>0, <1>5, <2>1, <2>2, PipeUse DEF Command
<1>6. CASE At("chain") /\ Peek(Any \ {"field"}) /\ Become([Top EXCEPT !.op = "argEnd", !.n = @ + 1])
  <2> DEFINE f == [Top EXCEPT !.op = "argEnd", !.n = Top.n + 1]
  <2>1. f \in FrameRec /\ f.op = "argEnd" /\ f.ctx = Top.ctx /\ f.mark = Top.mark
    <3>1. "argEnd" \in Op /\ Top.n + 1 \in Nat
      BY <1>0 DEF Op, Command, FrameRec
    <3> QED BY <1>0, <3>1 DEF FrameRec
  <2>2. Become(f)
    BY <1>6
  <2> HIDE DEF f
  <2>3. Shifted /\ Last(stack').op = "argEnd"
    BY <1>0, <1>6, <2>1, <2>2, FrameShift DEF Command
  <2> QED BY <1>0, <1>6, <2>3, PeekFacts, PipeStill DEF Command
<1> QED
  BY <1>1, <1>2, <1>3, <1>4, <1>5, <1>6 DEF operand

LEMMA CommandsNest ==
  ASSUME AtWork, command
  PROVE  NestThen /\ Slight
<1> USE DEF AtWork
<1>0. /\ Top.op = "argEnd" /\ Plain(Top.op) /\ InPipe(Top.op) /\ SameOps("argEnd", "operand") /\ Linked(stack)
      /\ Light(Top) /\ Top.op \notin Root /\ Same
  BY SimilarOps DEF command, At, Plain, InPipe, Command, NestNow, Nest, Light, Root, ControlOp, Tree
<1>1. CASE Hold({"space"}) /\ Becomes("operand")
  <2>1. Shifted /\ Last(stack').op = "operand"
    BY <1>0, <1>1, BecomesShift
  <2>2. InPipe("operand")
    BY DEF InPipe, Command
  <2> QED BY <1>0, <1>1, <2>1, <2>2, HoldFacts, PipeStill
<1>2. CASE (Peek({"right", "rparen"}) \/ Use({"pipe"})) /\ Return([Node EXCEPT !.exec = Top.exec])
  <2> DEFINE r == [Node EXCEPT !.exec = Top.exec]
  <2>1. r \in RetRec /\ Return(r)
    <3>1. Top.exec \in BOOLEAN
      BY CurFacts DEF FrameRec
    <3> QED BY <1>2, <3>1 DEF Node, RetRec
  <2> HIDE DEF r
  <2>2. Last(stack').op = "piped" /\ InPipe("piped")
    BY <1>0, <2>1, ReturnFrom DEF Command, InPipe, Pipe
  <2>3. Shifted
    BY <1>0, <2>1, <2>2, ReturnShift DEF Shifted
  <2>4. CASE Peek({"right", "rparen"})
    BY <1>0, <2>2, <2>3, <2>4, PeekFacts, PipeStill
  <2>5. CASE Use({"pipe"})
    <3>1. token.typ = "pipe"
      BY <2>5, ReadTree DEF Use
    <3> QED BY <1>0, <2>2, <2>3, <2>5, <3>1, PipeUse
  <2> QED BY <1>2, <2>4, <2>5
<1> QED
  BY <1>1, <1>2 DEF command
-----------------------------------------------------------------------------
\* The same for frames that mean something for the nesting.
DeepAt(op) == IF op \in Deepens THEN 1 ELSE 0

Upto(s, u, n) == \A i \in 1..n : u[i] = s[i]

LEMMA LevelTop ==
  ASSUME NEW s, NEW u, NEW n \in Nat, Upto(s, u, n)
  PROVE  /\ Level(u, n) = Level(s, n) /\ Level(s, n) \in Nat
         /\ Level(u, n + 1) = Level(s, n) + DeepAt(u[n + 1].op)
<1>1. Level(s, n) = Level(u, n)
  BY LevelSame DEF Upto
<1> QED
  BY <1>1, LevelNext DEF DeepAt

LEMMA ReplaceAny ==
  ASSUME NEW s, StackInv(s), Linked(s), NEW f \in FrameRec, f.op \notin Pipe,
         Last(s).op \in ControlOp => f.op \in ControlOp, NEW u, u = Append(Front(s), f)
  PROVE  /\ Len(u) = Len(s) /\ Last(u) = f /\ Linked(u)
         /\ Level(u, Len(u)) = Level(s, Len(s)) + DeepAt(f.op) - DeepAt(Last(s).op)
         /\ \A i \in 1..Len(s) - 1 : u[i] = s[i]
<1> DEFINE n == Len(s)
<1>1. n \in Nat /\ n > 0 /\ Last(s) = s[n] /\ s \in Seq(FrameRec)
  BY TopFacts DEF StackInv
<1>2. Len(u) = n /\ u[n] = f /\ \A i \in 1..n - 1 : u[i] = s[i]
  <2>1. Front(s) = SubSeq(s, 1, n - 1) /\ n - 1 \in Nat /\ n - 1 <= Len(s)
    BY <1>1 DEF Front
  <2> HIDE DEF n
  <2>2. Front(s) \in Seq(FrameRec) /\ Len(Front(s)) = n - 1 /\ \A i \in 1..n - 1 : Front(s)[i] = s[i]
    BY <1>1, <2>1
  <2> QED BY <1>1, <2>2
<1> HIDE DEF n
<1>3. Last(u) = f
  BY <1>2 DEF Last
<1>4. Linked(u)
  <2> SUFFICES ASSUME NEW i \in 2..n PROVE Link(u[i - 1], u[i])
    BY <1>2 DEF Linked
  <2>1. Link(s[i - 1], s[i]) /\ u[i - 1] = s[i - 1]
    BY <1>1, <1>2 DEF Linked, n
  <2>2. CASE i = n
    <3>1. Link(s[i - 1], Last(s)) /\ u[i] = f
      BY <1>1, <1>2, <2>1, <2>2
    <3> QED BY <2>1, <3>1 DEF Link
  <2>3. CASE i # n
    BY <1>1, <1>2, <2>1, <2>3
  <2> QED BY <2>2, <2>3
<1>5. Level(u, n) = Level(s, n) + DeepAt(f.op) - DeepAt(Last(s).op)
  <2>1. (n - 1) + 1 = n /\ n - 1 \in Nat
    BY <1>1
  <2>2. Upto(s, u, n - 1) /\ Upto(s, s, n - 1)
    BY <1>2 DEF Upto
  <2>6. Level(u, (n - 1) + 1) = Level(s, n - 1) + DeepAt(u[(n - 1) + 1].op) /\ Level(s, n - 1) \in Nat
    BY ONLY <2>1, <2>2, LevelTop
  <2>7. Level(s, (n - 1) + 1) = Level(s, n - 1) + DeepAt(s[(n - 1) + 1].op)
    BY ONLY <2>1, <2>2, LevelTop
  <2>3. /\ Level(u, (n - 1) + 1) = Level(s, n - 1) + DeepAt(u[(n - 1) + 1].op)
        /\ Level(s, (n - 1) + 1) = Level(s, n - 1) + DeepAt(s[(n - 1) + 1].op)
        /\ Level(s, n - 1) \in Nat
    BY <2>6, <2>7
  <2>4. Level(u, n) = Level(s, n - 1) + DeepAt(f.op) /\ Level(s, n) = Level(s, n - 1) + DeepAt(Last(s).op)
    BY <1>1, <1>2, <2>1, <2>3
  <2>5. DeepAt(f.op) \in Nat /\ DeepAt(Last(s).op) \in Nat
    BY DEF DeepAt
  <2> QED BY <2>3, <2>4, <2>5
<1> QED
  BY <1>2, <1>3, <1>4, <1>5 DEF n

LEMMA PushAny ==
  ASSUME NEW s, StackInv(s), Linked(s), NEW f \in FrameRec, Link(Last(s), f), NEW u, u = Append(s, f)
  PROVE  /\ Len(u) = Len(s) + 1 /\ Last(u) = f /\ Linked(u)
         /\ Level(u, Len(u)) = Level(s, Len(s)) + DeepAt(f.op)
         /\ \A i \in 1..Len(s) : u[i] = s[i]
<1>1. /\ Len(u) = Len(s) + 1 /\ Last(u) = f /\ Linked(u) /\ \A i \in 1..Len(s) : u[i] = s[i]
  BY PushShape
<1>2. Len(s) \in Nat
  BY TopFacts
<1>3. u[Len(s) + 1] = f
  BY <1>1 DEF Last
<1>4. Upto(s, u, Len(s))
  BY <1>1 DEF Upto
<1>5. Level(u, Len(s) + 1) = Level(s, Len(s)) + DeepAt(u[Len(s) + 1].op)
  BY ONLY <1>2, <1>4, LevelTop
<1> QED
  BY <1>1, <1>2, <1>3, <1>5

LEMMA CallAny ==
  ASSUME NEW s, StackInv(s), Linked(s), NEW g \in FrameRec, g.op \notin Pipe, Kin(Last(s).op, g.op),
         Last(s).op \in ControlOp => g.op \in ControlOp,
         NEW f \in FrameRec, Link(g, f), NEW u, u = Calling(s, g, f)
  PROVE  /\ Len(u) = Len(s) + 1 /\ Last(u) = f /\ Linked(u)
         /\ Level(u, Len(u)) = Level(s, Len(s)) + DeepAt(g.op) - DeepAt(Last(s).op) + DeepAt(f.op)
         /\ u[Len(s)] = g /\ \A i \in 1..Len(s) - 1 : u[i] = s[i]
<1> DEFINE w == Append(Front(s), g)
<1>1. s \in Seq(FrameRec) /\ Len(s) \in Nat /\ Len(s) > 0
  BY TopFacts DEF StackInv
<1>2. Front(s) \in Seq(FrameRec)
  BY <1>1 DEF Front
<1>3. u = Append(w, f)
  BY <1>2 DEF Calling
<1>4. StackInv(w)
  BY Replaced
<1>5. /\ Len(w) = Len(s) /\ Last(w) = g /\ Linked(w)
      /\ Level(w, Len(w)) = Level(s, Len(s)) + DeepAt(g.op) - DeepAt(Last(s).op)
      /\ \A i \in 1..Len(s) - 1 : w[i] = s[i]
  BY ReplaceAny
<1> HIDE DEF w
<1>6. /\ Len(u) = Len(w) + 1 /\ Last(u) = f /\ Linked(u)
      /\ Level(u, Len(u)) = Level(w, Len(w)) + DeepAt(f.op)
      /\ \A i \in 1..Len(w) : u[i] = w[i]
  BY <1>3, <1>4, <1>5, PushAny
<1>7. u[Len(s)] = g /\ \A i \in 1..Len(s) - 1 : u[i] = s[i]
  <2>1. Len(s) \in 1..Len(w) /\ \A i \in 1..Len(s) - 1 : i \in 1..Len(w)
    BY <1>1, <1>5
  <2> QED BY <1>5, <1>6, <2>1 DEF Last
<1> QED
  BY <1>5, <1>6, <1>7

LEMMA PopAny ==
  ASSUME NEW s, StackInv(s), Linked(s), Last(s).op \notin Root, NEW u, u = Front(s)
  PROVE  /\ Len(u) = Len(s) - 1 /\ Len(u) \in Nat /\ Len(u) > 0 /\ Last(u) = s[Len(u)] /\ Linked(u) /\ Link(Last(u), Last(s))
         /\ Level(s, Len(s)) = Level(u, Len(u)) + DeepAt(Last(s).op)
         /\ \A i \in 1..Len(u) : u[i] = s[i]
<1>1. /\ Len(u) = Len(s) - 1 /\ Len(u) > 0 /\ Len(u) \in Nat /\ Last(u) = s[Len(u)] /\ Linked(u) /\ Link(Last(u), Last(s))
      /\ \A i \in 1..Len(u) : u[i] = s[i]
  BY PopShape
<1>2. Len(s) \in Nat /\ Last(s) = s[Len(s)] /\ Len(s) = Len(u) + 1
  BY <1>1, TopFacts
<1>4. Upto(s, u, Len(u)) /\ Upto(u, s, Len(u))
  BY <1>1 DEF Upto
<1>3. /\ Level(s, Len(u) + 1) = Level(u, Len(u)) + DeepAt(s[Len(u) + 1].op)
      /\ Level(u, Len(u)) = Level(s, Len(u))
  BY <1>1, <1>4, LevelTop
<1> QED
  BY <1>1, <1>2, <1>3
-----------------------------------------------------------------------------
\* The token a function holds: nothing is owed for it.
LEMMA NestHeld ==
  ASSUME AtWork, ~Plain(Top.op), Top.v.typ \in {"left", "variable"}
  PROVE  /\ Nest(stack, ret.kind, Top.v.at) /\ Follows(Reached(taken), Top.v.at)
         /\ input[Top.v.at].typ = Top.v.typ /\ input[Top.v.at].name = Top.v.name
         /\ ~Opens(Top.v.at) /\ Depth(Top.v.at) = Depth(Reached(taken))
<1> USE DEF AtWork
<1>1. HeldAt(Top) = Top.v.at /\ Top.v.at # 0 /\ Given(Top.v) /\ Top.v \in Item
  BY HeldFacts
<1>2. Last(stack) = Top /\ Top.op \in {"parseDelim", "declAfter", "declNext"} /\ Simple(Top.op, ret.kind)
  BY DEF Top, Plain, Simple, Closers
<1>3. Tokens(taken, HeldAt(Top), FillTok, FillN, FillR)
  BY FillTokens
<1>4. Follows(Reached(taken), Top.v.at)
  BY <1>1, <1>3, HeldFollows DEF Working
<1>5. input[Top.v.at].typ = Top.v.typ /\ input[Top.v.at].name = Top.v.name
  BY <1>1 DEF Given
<1>6. ~Opens(Top.v.at) /\ OpeningAt(Top.v.at) = 0 /\ EndingAt(Top.v.at) = 0 /\ Bottom(Top.v.at) = 0
  <2>1. ~Opens(Top.v.at)
    BY <1>4, <1>5, OpensAt DEF Control
  <2> QED BY <1>5, <2>1 DEF OpeningAt, EndingAt, Bottom
<1>7. /\ Adj(Last(stack).op, ret.kind) = 0 /\ ~Doomed(stack, ret.kind) /\ (BlockDue(stack) <=> InBlock(stack))
      /\ Fresh(Last(stack).op, ret.kind, Top.v.at) /\ Placed(Last(stack))
  BY <1>2, SimpleFacts
<1>8. Level(stack, Len(stack)) \in Nat /\ Linked(stack) /\ Nest(stack, ret.kind, Reached(taken))
  BY LevelFacts DEF NestNow, Nest
<1>9. /\ Level(stack, Len(stack)) + Adj(Last(stack).op, ret.kind)
           = Level(stack, Len(stack)) + Adj(Last(stack).op, ret.kind) + OpeningAt(Top.v.at) - EndingAt(Top.v.at)
      /\ Level(stack, Len(stack)) + Adj(Last(stack).op, ret.kind) >= Bottom(Top.v.at)
  BY <1>6, <1>7, <1>8
<1>10. BlockDue(stack) <=> input[Top.v.at].typ # "right" /\ (BlockDue(stack) \/ input[Top.v.at].typ \in {"block", "define"})
  BY <1>5
<1>11. Nest(stack, ret.kind, Top.v.at)
  BY <1>4, <1>7, <1>8, <1>9, <1>10, NestOn
<1>12. Depth(Top.v.at) = Depth(Reached(taken))
  <2>1. Depth(Reached(taken)) \in Int /\ Depth(Top.v.at) = Depth(Reached(taken)) + OpeningAt(Top.v.at) - EndingAt(Top.v.at)
    BY <1>4, Between
  <2> QED BY <1>6, <2>1
<1> QED
  BY <1>4, <1>5, <1>6, <1>11, <1>12

\* Both the token held and the next one are used.
UsedBoth == /\ taken' = taken \o <<Top.v.at, token.at>> /\ Follows(Reached(taken), Top.v.at) /\ Follows(Top.v.at, token.at)
            /\ input[Top.v.at].typ = Top.v.typ /\ input[Top.v.at].name = Top.v.name
            /\ input[token.at].typ = token.typ /\ input[token.at].name = token.name
            /\ Reached(taken') = token.at

LEMMA UseBothFacts ==
  ASSUME AtWork, ~Plain(Top.op), Top.v.typ \in {"left", "variable"}, token.typ \notin {"space", "eof", "error"},
         taken' = taken \o <<Top.v.at, token.at>>
  PROVE  UsedBoth
<1> USE DEF AtWork
<1>1. HeldAt(Top) = Top.v.at /\ Top.v.at # 0 /\ FillN = 1
  BY HeldFacts
<1>2. Tokens(taken, HeldAt(Top), FillTok, FillN, FillR) /\ token = FillTok[FillN] /\ FillN \in 1..3
  BY FillTokens, Fill
<1>3. token.at \in DOMAIN input /\ token.typ = input[token.at].typ /\ token.name = input[token.at].name /\ ~IsSpace(token.at)
  BY TokenGiven
<1>4. Follows(Top.v.at, token.at)
  BY <1>1, <1>2, <1>3, TokenFollows DEF Working
<1>5. Reached(taken') = token.at
  <2>1. taken \in Seq(Nat) /\ Top.v.at \in Nat /\ token.at \in Nat
    BY <1>4, CurFacts DEF TokensInv, Tokens, Follows, HeldAt
  <2>2. token.at \in Nat
    BY <2>1
  <2>3. Len(taken') = Len(taken) + 2 /\ taken'[Len(taken) + 2] = token.at /\ Len(taken) \in Nat /\ taken' # <<>>
    BY <2>1, <2>2
  <2> QED BY <2>3 DEF Reached
<1> QED
  BY <1>3, <1>4, <1>5, NestHeld DEF UsedBoth
-----------------------------------------------------------------------------
\* The steps that open or close something, or declare a variable.
LEMMA DefineNest ==
  ASSUME AtWork, parseDelim, token.typ = "define"
  PROVE  /\ NestThen /\ UsedBoth /\ Top.v.typ = "left" /\ Settled(Top.op, ret.kind)
         /\ stack' = Calling(stack, [Top EXCEPT !.op = "parse"], Frame("defineName", ""))
         /\ trees' = Append([trees EXCEPT ![Len(trees)] = next], New("definition"))
         /\ ~Opens(token.at)
<1> USE DEF AtWork
<1> DEFINE g == [Top EXCEPT !.op = "parse"]
           f == Frame("defineName", "")
<1>1. /\ Top.op = "parseDelim" /\ taken' = taken \o <<Top.v.at, token.at>>
      /\ trees' = Append([trees EXCEPT ![Len(trees)] = next], New("definition"))
      /\ stack' = Front(stack) \o <<g, f>> /\ ret' = ret
  BY DEF parseDelim, At, Call, Read, NonSpace
<1>2. Top.v.typ = "left" /\ ~Plain(Top.op)
  <2>1. ~Plain(Top.op)
    BY <1>1 DEF Plain
  <2>2. Waits(Top, Cur.peekCount, Cur.token, read)
    BY CurFacts DEF TokensInv
  <2> QED BY <1>1, <2>1, <2>2 DEF Waits
<1>3. UsedBoth
  BY <1>1, <1>2, UseBothFacts
<1>4. g \in FrameRec /\ g.op = "parse"
  BY CurFacts, OpFrame DEF Op, Root
<1>5. f \in FrameRec /\ f.op = "defineName" /\ f.ctx = ""
  BY NewFrame DEF Op, Tree, Context, Frame
<1>6. stack' = Calling(stack, g, f)
  BY <1>1 DEF Calling
<1> HIDE DEF g, f
<1>7. StackInv(stack) /\ Linked(stack) /\ Last(stack) = Top
  BY CurFacts DEF NestNow, Nest
<1>8. Link(g, f) /\ (Last(stack).op \in ControlOp => g.op \in ControlOp) /\ g.op \notin Pipe
  BY <1>4, <1>5, <1>1, <1>7 DEF Link, ControlOp, Pipe
<1>16. Kin(Last(stack).op, g.op)
  BY <1>1, <1>4, <1>7 DEF Kin, Family, Root, Tree, List, NodeOp, Pipe, Command
<1>9. /\ Last(stack') = f /\ Linked(stack') /\ Len(stack') = Len(stack) + 1
      /\ Level(stack', Len(stack')) = Level(stack, Len(stack)) + DeepAt(g.op) - DeepAt(Last(stack).op) + DeepAt(f.op)
  <2>1. g \in FrameRec /\ f \in FrameRec
    BY <1>4, <1>5
  <2>2. stack' = Calling(stack, g, f) /\ StackInv(stack) /\ Linked(stack)
    BY <1>6, <1>7
  <2> QED BY <1>8, <1>16, <2>1, <2>2, CallAny
<1>10. Level(stack, Len(stack)) \in Nat /\ Level(stack', Len(stack')) \in Nat /\ Level(stack', Len(stack')) = Level(stack, Len(stack))
  <2>1. DeepAt(g.op) = 0 /\ DeepAt(f.op) = 0 /\ DeepAt(Last(stack).op) = 0
    BY <1>1, <1>4, <1>5, <1>7 DEF DeepAt, Deepens
  <2> QED BY <1>9, <2>1, LevelFacts
<1>11. Nest(stack, ret.kind, Top.v.at)
  BY <1>2, NestHeld
<1>12. ~Opens(token.at) /\ OpeningAt(token.at) = 0 /\ EndingAt(token.at) = 0 /\ Bottom(token.at) = 0
  <2>1. input[token.at].typ = "define" /\ Follows(Top.v.at, token.at)
    BY <1>3 DEF UsedBoth
  <2>2. ~Opens(token.at)
    BY <2>1, OpensAt DEF Control
  <2> QED BY <2>1, <2>2 DEF OpeningAt, EndingAt, Bottom
<1>13. /\ Adj(Last(stack).op, ret.kind) = 0 /\ Adj(Last(stack').op, ret'.kind) = 0 /\ BlockDue(stack')
       /\ ~Doomed(stack, ret.kind) /\ Fresh(Last(stack').op, ret'.kind, token.at) /\ Placed(Last(stack'))
  BY <1>1, <1>5, <1>7, <1>9 DEF Placed, Adj, Closing, Closers, BlockDue, Doomed, Fresh
<1>14. NestThen
  <2>1. /\ Level(stack', Len(stack')) + Adj(Last(stack').op, ret'.kind)
             = Level(stack, Len(stack)) + Adj(Last(stack).op, ret.kind) + OpeningAt(token.at) - EndingAt(token.at)
        /\ Level(stack', Len(stack')) + Adj(Last(stack').op, ret'.kind) >= Bottom(token.at)
    BY <1>10, <1>12, <1>13
  <2>2. BlockDue(stack') <=> input[token.at].typ # "right" /\ (BlockDue(stack) \/ input[token.at].typ \in {"block", "define"})
    BY <1>3, <1>13 DEF UsedBoth
  <2>3. Follows(Top.v.at, token.at) /\ Reached(taken') = token.at
    BY <1>3 DEF UsedBoth
  <2> QED BY <1>9, <1>10, <1>11, <1>13, <2>1, <2>2, <2>3, NestOn DEF NestThen
<1>15. Settled(Top.op, ret.kind)
  BY <1>1 DEF Settled, Closing, Closers
<1> QED
  BY <1>1, <1>2, <1>3, <1>6, <1>12, <1>14, <1>15 DEF g, f

\* Who called a list ends with a tree on top: the text of a definition or a block begins.
LEMMA TextBegun ==
  ASSUME AtWork, Call("treeList", Frame("list", "root")), Top.op \in {"defineDelim", "blockPipe"}
  PROVE  /\ Linked(stack') /\ Last(stack').op = "list" /\ ret' = ret
         /\ Level(stack', Len(stack')) = Level(stack, Len(stack)) + 1 /\ Level(stack, Len(stack)) \in Nat
         /\ stack' = Calling(stack, [Top EXCEPT !.op = "treeList"], Frame("list", "root"))
         /\ ~InBlock(stack) /\ ~InBlock(stack') /\ Len(stack') = Len(stack) + 1
<1> USE DEF AtWork
<1> DEFINE g == [Top EXCEPT !.op = "treeList"]
           f == Frame("list", "root")
<1>1. stack' = Front(stack) \o <<g, f>> /\ ret' = ret
  BY DEF Call
<1>2. g \in FrameRec /\ g.op = "treeList"
  BY CurFacts, OpFrame DEF Op, Tree
<1>3. f \in FrameRec /\ f.op = "list" /\ f.ctx = "root"
  BY NewFrame DEF Op, List, Context, Frame
<1>4. stack' = Calling(stack, g, f)
  BY <1>1 DEF Calling
<1> HIDE DEF g, f
<1>14. Calling(stack, g, f) = Calling(stack, [Top EXCEPT !.op = "treeList"], Frame("list", "root"))
  BY DEF g, f
<1>5. StackInv(stack) /\ StackInv(stack') /\ Linked(stack) /\ Last(stack) = Top
  BY CurFacts, LevelFacts DEF NestNow, Nest
<1>6. Link(g, f) /\ (Last(stack).op \in ControlOp => g.op \in ControlOp) /\ g.op \notin Pipe
  BY <1>2, <1>3, <1>5 DEF Link, ControlOp, Pipe
<1>7. Kin(Last(stack).op, g.op)
  BY <1>2, <1>5 DEF Kin, Family, Root, Tree, List, NodeOp, Pipe, Command
<1>8. /\ Last(stack') = f /\ Linked(stack') /\ Len(stack') = Len(stack) + 1
      /\ Level(stack', Len(stack')) = Level(stack, Len(stack)) + DeepAt(g.op) - DeepAt(Last(stack).op) + DeepAt(f.op)
  BY <1>2, <1>3, <1>4, <1>5, <1>6, <1>7, CallAny
<1>9. DeepAt(g.op) = 1 /\ DeepAt(f.op) = 0 /\ DeepAt(Last(stack).op) = 0
  BY <1>2, <1>3, <1>5 DEF DeepAt, Deepens
<1>10. Level(stack, Len(stack)) \in Nat
  BY LevelFacts
<1>11. ~InBlock(stack)
  BY <1>5, InBlockTop DEF Pipe, Command
<1>12. ~InBlock(stack')
  BY <1>3, <1>5, <1>8, InBlockTop DEF Pipe, Command
<1>13. Level(stack', Len(stack')) = Level(stack, Len(stack)) + 1
  BY <1>8, <1>9, <1>10
<1> QED
  BY <1>1, <1>3, <1>4, <1>8, <1>10, <1>11, <1>12, <1>13, <1>14

LEMMA DefineDelimNest ==
  ASSUME AtWork, parseDefinition, Top.op = "defineDelim"
  PROVE  /\ NestThen /\ Used /\ Opens(token.at) /\ token.typ = "right" /\ SameVars(trees, trees')
         /\ stack' = Calling(stack, [Top EXCEPT !.op = "treeList"], Frame("list", "root")) /\ Settled(Top.op, ret.kind)
         /\ Last(stack').op = "list" /\ ret' = ret
<1> USE DEF AtWork
<1>1. Use({"right"}) /\ Call("treeList", Frame("list", "root")) /\ Last(stack) = Top
  BY DEF parseDefinition, At, Top
<1>2. token.typ = "right"
  BY <1>1, ReadTree DEF Use
<1>3. Used /\ SameVars(trees, trees')
  BY <1>1, <1>2, UseFacts DEF Plain
<1>4. /\ Linked(stack') /\ Last(stack').op = "list" /\ ret' = ret /\ ~InBlock(stack')
      /\ Level(stack', Len(stack')) = Level(stack, Len(stack)) + 1 /\ Level(stack, Len(stack)) \in Nat
      /\ stack' = Calling(stack, [Top EXCEPT !.op = "treeList"], Frame("list", "root"))
  BY <1>1, TextBegun
<1>5. Opens(token.at) /\ OpeningAt(token.at) = 1 /\ EndingAt(token.at) = 0 /\ Bottom(token.at) = 0
  <2>1. input[token.at].typ = "right" /\ Follows(Reached(taken), token.at)
    BY <1>2, <1>3 DEF Used
  <2>2. BlockOpen(Reached(taken))
    BY <1>1 DEF NestNow, Nest, BlockDue
  <2>3. Opens(token.at)
    BY <2>1, <2>2, OpensAt
  <2> QED BY <2>1, <2>3 DEF OpeningAt, EndingAt, Bottom
<1>6. /\ Adj(Top.op, ret.kind) = 0 /\ Adj(Last(stack').op, ret'.kind) = 0 /\ ~BlockDue(stack')
      /\ ~Doomed(stack, ret.kind) /\ Fresh(Last(stack').op, ret'.kind, token.at) /\ Placed(Last(stack'))
  BY <1>1, <1>4 DEF Placed, Adj, Closing, Closers, BlockDue, Doomed, Fresh
<1>7. /\ Level(stack', Len(stack')) + Adj(Last(stack').op, ret'.kind)
          = Level(stack, Len(stack)) + Adj(Top.op, ret.kind) + OpeningAt(token.at) - EndingAt(token.at)
      /\ Level(stack', Len(stack')) + Adj(Last(stack').op, ret'.kind) >= Bottom(token.at)
  BY <1>4, <1>5, <1>6
<1>8. NestThen
  BY <1>2, <1>3, <1>4, <1>6, <1>7, NestUsed
<1> QED
  BY <1>2, <1>3, <1>4, <1>5, <1>8 DEF Settled, Closing, Closers

LEMMA BlockControlNest ==
  ASSUME AtWork, blockControl
  PROVE  /\ NestThen /\ taken' = taken /\ trees' = Append(trees, New(Top.name)) /\ Top.op = "blockPipe"
         /\ stack' = Calling(stack, [Top EXCEPT !.op = "treeList"], Frame("list", "root"))
         /\ Last(stack').op = "list" /\ ret' = ret
<1> USE DEF AtWork
<1>1. /\ Call("treeList", Frame("list", "root")) /\ Last(stack) = Top /\ Top.op = "blockPipe" /\ taken' = taken
      /\ trees' = Append(trees, New(Top.name))
  BY DEF blockControl, At, Top, NoRead
<1>2. /\ Linked(stack') /\ Last(stack').op = "list" /\ ret' = ret /\ ~InBlock(stack') /\ ~InBlock(stack)
      /\ Level(stack', Len(stack')) = Level(stack, Len(stack)) + 1 /\ Level(stack, Len(stack)) \in Nat
      /\ stack' = Calling(stack, [Top EXCEPT !.op = "treeList"], Frame("list", "root"))
  BY <1>1, TextBegun
<1>3. CASE ~Closing(Top.op, ret.kind)
  <2>1. /\ Adj(Last(stack).op, ret.kind) = 1 /\ Adj(Last(stack').op, ret'.kind) = 0
        /\ ~Doomed(stack, ret.kind) /\ Fresh(Last(stack').op, ret'.kind, Reached(taken)) /\ Placed(Last(stack'))
        /\ BlockDue(stack') <=> BlockDue(stack)
    BY <1>1, <1>2, <1>3 DEF Placed, Adj, Closing, Closers, BlockDue, Doomed, Fresh
  <2>2. Level(stack', Len(stack')) + Adj(Last(stack').op, ret'.kind) = Level(stack, Len(stack)) + Adj(Last(stack).op, ret.kind)
    BY <1>2, <2>1
  <2>3. Nest(stack, ret.kind, Reached(taken))
    BY DEF NestNow
  <2> QED BY <1>1, <1>2, <2>1, <2>2, <2>3, NestStill DEF NestThen
<1> QED
  BY <1>1, <1>2, <1>3 DEF Closing, Closers
-----------------------------------------------------------------------------
\* The end of a text or a control: the frame that counts it is left.
LEMMA Leave ==
  ASSUME AtWork, Return(Node), Top.op \in NodeOp, Adj(Top.op, ret.kind) = 0 - DeepAt(Top.op), taken' = taken,
         Last(stack').op \in {"parsed", "listed", "parse"} \/ (Last(stack').op = "controlEnd" /\ Top.op \in ControlOp),
         Top.op \in {"treeList", "controlList", "controlElse", "controlEnd"}
  PROVE  NestThen
<1> USE DEF AtWork
<1>1. StackInv(stack) /\ Linked(stack) /\ Last(stack) = Top /\ stack' = Front(stack) /\ ret' = Node /\ StackInv(stack')
  BY CurFacts, LevelFacts DEF NestNow, Nest, Return
<1>2. Top.op \notin Root
  BY DEF Root
<1>3. /\ Linked(stack') /\ Level(stack, Len(stack)) = Level(stack', Len(stack')) + DeepAt(Top.op)
  BY <1>1, <1>2, PopAny
<1>4. Level(stack', Len(stack')) \in Nat /\ DeepAt(Top.op) \in Nat
  BY LevelFacts DEF DeepAt
<1>5. ~InBlock(stack) /\ ~InBlock(stack')
  BY <1>1, InBlockTop DEF Pipe, Command
<1>6. /\ Adj(Last(stack').op, ret'.kind) = 0 /\ Adj(Last(stack).op, ret.kind) = 0 - DeepAt(Top.op)
      /\ ~Doomed(stack, ret.kind) /\ Fresh(Last(stack').op, ret'.kind, Reached(taken)) /\ Placed(Last(stack'))
      /\ BlockDue(stack') <=> BlockDue(stack)
  BY <1>1, <1>5, NodeFact DEF Placed, Adj, Closing, Closers, BlockDue, Doomed, Fresh
<1>7. Level(stack', Len(stack')) + Adj(Last(stack').op, ret'.kind) = Level(stack, Len(stack)) + Adj(Last(stack).op, ret.kind)
  BY <1>3, <1>4, <1>6
<1>8. Nest(stack, ret.kind, Reached(taken))
  BY DEF NestNow
<1> QED
  BY <1>3, <1>6, <1>7, <1>8, NestStill DEF NestThen

LEMMA EndControlNest ==
  ASSUME AtWork, EndControl
  PROVE  /\ NestThen /\ taken' = taken /\ popVars /\ stack' = Front(stack) /\ ret' = Node
         /\ Top.op \in {"controlEnd", "controlList", "controlElse"} /\ Last(stack').op \in {"parsed", "listed", "controlEnd"}
<1> USE DEF AtWork
<1>1. /\ Top.op = "controlEnd" \/ (ret.kind = "end" /\ Top.op \in {"controlList", "controlElse"})
      /\ popVars /\ Return(Node) /\ taken' = taken /\ Same
  BY DEF EndControl, At, NoRead
<1>2. Top.op \in NodeOp /\ Top.op # "treeList" /\ Top.op \in ControlOp
  BY <1>1 DEF NodeOp, ControlOp
<1>3. Last(stack').op \in {"parsed", "listed", "controlEnd"}
  BY <1>1, <1>2, NodeFact, ReturnFrom
<1>4. Adj(Top.op, ret.kind) = 0 - DeepAt(Top.op)
  BY <1>1 DEF Adj, Closing, Closers, DeepAt, Deepens
<1>5. NestThen
  BY <1>1, <1>2, <1>3, <1>4, Leave
<1> QED
  BY <1>1, <1>3, <1>5 DEF Return

LEMMA EndTreeNest ==
  ASSUME AtWork, EndTree
  PROVE  /\ NestThen /\ taken' = taken /\ trees' = Front(trees) /\ stack' = Front(stack) /\ ret' = Node
         /\ Top.op = "treeList" /\ ret.kind = "end" /\ Last(stack').op \in {"parsed", "listed", "parse"}
<1> USE DEF AtWork
<1>1. Top.op = "treeList" /\ ret.kind = "end" /\ taken' = taken /\ trees' = Front(trees) /\ Return(Node)
  BY DEF EndTree, At, NoRead
<1>2. StackInv(stack) /\ Linked(stack) /\ Last(stack) = Top /\ stack' = Front(stack) /\ ret' = Node
  BY <1>1, CurFacts DEF NestNow, Nest, Return
<1>3. Calls(Last(stack').op, Top.op) /\ Link(Last(stack'), Top)
  BY <1>1, <1>2, Popped, PopAny DEF Root
<1>4. Last(stack').op \in {"parsed", "listed", "parse"}
  BY <1>1, <1>3 DEF Calls, Link, ControlOp, List, Pipe, Command
<1>5. Top.op \in NodeOp /\ Adj(Top.op, ret.kind) = 0 - DeepAt(Top.op)
  BY <1>1 DEF NodeOp, Adj, Closing, Closers, DeepAt, Deepens
<1> QED
  BY <1>1, <1>2, <1>4, <1>5, Leave
-----------------------------------------------------------------------------
\* A control begins: its keyword is no {else if}'s.
LEMMA ControlNest ==
  ASSUME AtWork, Top.op = "action", Use(Control), NEW f, f = [Frame("control", token.typ) EXCEPT !.mark = Len(Cur.vars)], Become(f)
  PROVE  /\ NestThen /\ Used /\ token.typ \in Control /\ Opens(token.at) /\ SameVars(trees, trees') /\ Settled(Top.op, ret.kind)
         /\ stack' = Append(Front(stack), f) /\ Last(stack') = f /\ f.op = "control" /\ f.mark = Len(Cur.vars) /\ f \in FrameRec
         /\ ret' = ret
<1> USE DEF AtWork
<1>1. token.typ \in Control /\ token.typ \notin {"space", "eof", "error"} /\ Last(stack) = Top
  BY ReadTree DEF Use, Control, Top
<1>2. Used /\ SameVars(trees, trees')
  BY <1>1, UseFacts DEF Plain
<1>3. f \in FrameRec /\ f.op = "control" /\ f.ctx = token.typ /\ f.mark = Len(Cur.vars)
  <2>1. token.typ \in Context
    BY <1>1 DEF Context
  <2>2. f \in FrameRec /\ f.op = "control"
    BY <2>1, ControlFrame
  <2>3. f.ctx = token.typ /\ f.mark = Len(Cur.vars)
    BY DEF Frame
  <2> QED BY <2>2, <2>3
<1>4. StackInv(stack) /\ Linked(stack) /\ stack' = Append(Front(stack), f) /\ ret' = ret
  BY CurFacts DEF NestNow, Nest, Become
<1>5. /\ Last(stack') = f /\ Linked(stack')
      /\ Level(stack', Len(stack')) = Level(stack, Len(stack)) + DeepAt(f.op) - DeepAt(Last(stack).op)
  <2>1. f.op \notin Pipe /\ (Last(stack).op \in ControlOp => f.op \in ControlOp)
    BY <1>1, <1>3 DEF Pipe, ControlOp
  <2> QED BY ONLY <1>3, <1>4, <2>1, ReplaceAny
<1>6. Level(stack, Len(stack)) \in Nat /\ DeepAt(f.op) = 1 /\ DeepAt(Last(stack).op) = 0
  BY <1>1, <1>3, LevelFacts DEF DeepAt, Deepens
<1>7. ~InBlock(stack) /\ ~InBlock(stack')
  <2>1. ~InBlock(stack)
    BY <1>1, <1>4, InBlockTop DEF Pipe, Command
  <2>2. StackInv(stack')
    BY LevelFacts
  <2>3. ~InBlock(stack')
    BY <1>3, <1>5, <2>2, InBlockTop DEF Pipe, Command
  <2> QED BY <2>1, <2>3
<1>8. Opens(token.at) /\ OpeningAt(token.at) = 1 /\ EndingAt(token.at) = 0 /\ Bottom(token.at) = 0
  <2>1. input[token.at].typ \in Control /\ Follows(Reached(taken), token.at)
    BY <1>1, <1>2 DEF Used
  <2>2. Reached(taken) > 0 /\ input[Reached(taken)].typ = "left"
    BY <1>1 DEF NestNow, Nest, Fresh
  <2>3. Opens(token.at)
    BY <2>1, <2>2, OpensAt
  <2> QED BY <2>1, <2>3 DEF OpeningAt, EndingAt, Bottom, Control
<1>9. /\ Adj(Top.op, ret.kind) = 0 /\ Adj(Last(stack').op, ret'.kind) = 0
      /\ ~Doomed(stack, ret.kind) /\ Fresh(Last(stack').op, ret'.kind, token.at) /\ Placed(Last(stack'))
      /\ ~BlockDue(stack) /\ ~BlockDue(stack')
  BY <1>1, <1>3, <1>5, <1>7 DEF Placed, Adj, Closing, Closers, BlockDue, Doomed, Fresh, Control
<1>10. /\ Level(stack', Len(stack')) + Adj(Last(stack').op, ret'.kind)
          = Level(stack, Len(stack)) + Adj(Top.op, ret.kind) + OpeningAt(token.at) - EndingAt(token.at)
      /\ Level(stack', Len(stack')) + Adj(Last(stack').op, ret'.kind) >= Bottom(token.at)
  BY <1>5, <1>6, <1>8, <1>9
<1>11. BlockDue(stack') <=> token.typ # "right" /\ (BlockDue(stack) \/ token.typ \in {"block", "define"})
  BY <1>1, <1>9 DEF Control
<1>12. NestThen
  BY <1>2, <1>5, <1>9, <1>10, <1>11, NestUsed
<1> QED
  BY <1>1, <1>2, <1>3, <1>4, <1>5, <1>8, <1>12 DEF Settled, Closing, Closers
-----------------------------------------------------------------------------
\* What comes after the delimiter of an action is text or another action.
LEMMA NumberNext ==
  ASSUME NEW items, NEW typ, NEW k \in Nat
  PROVE  /\ NumberOf(items, typ, k) \in Nat
         /\ NumberOf(items, typ, k + 1) = NumberOf(items, typ, k) + (IF items[k + 1].typ = typ THEN 1 ELSE 0)
<1> DEFINE D(n) == {j \in 1..n : items[j].typ = typ}
<1>1. \A n \in Nat : IsFiniteSet(D(n)) /\ Cardinality(D(n)) \in Nat
  <2> TAKE n \in Nat
  <2>1. IsFiniteSet(1..n)
    BY FS_Interval
  <2>2. IsFiniteSet(D(n))
    BY <2>1, FS_Subset
  <2> QED BY <2>2, FS_CardinalityType
<1>2. NumberOf(items, typ, k) = Cardinality(D(k)) /\ NumberOf(items, typ, k + 1) = Cardinality(D(k + 1))
  BY DEF NumberOf
<1>3. items[k + 1].typ # typ => D(k + 1) = D(k)
  OBVIOUS
<1>4. items[k + 1].typ = typ => D(k + 1) = D(k) \cup {k + 1}
  OBVIOUS
<1>5. k + 1 \notin D(k)
  OBVIOUS
<1> HIDE DEF D
<1>6. items[k + 1].typ = typ => Cardinality(D(k + 1)) = Cardinality(D(k)) + 1
  BY <1>1, <1>4, <1>5, FS_AddElement
<1> QED
  BY <1>1, <1>2, <1>3, <1>6

LEMMA AfterRight ==
  ASSUME Inv, NEW p, NEW q, Follows(p, q), p > 0, input[p].typ = "right"
  PROVE  input[q].typ \notin {"if", "with"}
<1>1. /\ p \in Nat /\ p \in DOMAIN input /\ p + 1 \in Nat /\ (q = p + 1 \/ (q = p + 2 /\ IsSpace(p + 1)))
      /\ q \in DOMAIN input
  BY DEF Follows
<1>2. DOMAIN input = 1..Len(input) /\ Len(input) \in Nat
  BY InputFacts
<1>3. p + 1 \in DOMAIN input
  <2>1. CASE q = p + 1
    BY <1>1, <2>1
  <2>2. CASE q = p + 2
    BY <1>1, <1>2, <2>2
  <2> QED BY <1>1, <2>1, <2>2
<1>4. Fits(input)
  BY InputAssumption DEF Inv
<1> DEFINE Left(k) == NumberOf(input, "left", k)
           Right(k) == NumberOf(input, "right", k)
<1>5. Left(p) - Right(p) = 0
  BY <1>1, <1>4 DEF Fits
<1>6. input[p + 1].typ \in {"if", "with", "space"} => Left(p + 1) - Right(p + 1) = 1
  BY <1>3, <1>4 DEF Fits
<1>7. input[p + 1].typ \in {"if", "with", "space"} => Left(p + 1) = Left(p) /\ Right(p + 1) = Right(p)
  BY <1>1, NumberNext
<1>8. Left(p) \in Nat /\ Right(p) \in Nat
  BY <1>1, NumberNext
<1> HIDE DEF Left, Right
<1>9. input[p + 1].typ \notin {"if", "with", "space"}
  BY <1>5, <1>6, <1>7, <1>8
<1> QED
  BY <1>1, <1>9 DEF IsSpace

\* {else if} and {else with}: a control within the control, which its keyword does not open.
LEMMA ChainedNest ==
  ASSUME AtWork, parseControl, Top.op = "controlList", Chained, NEW f, f = [Frame("control", Top.ctx) EXCEPT !.mark = Len(Cur.vars)]
  PROVE  /\ NestThen /\ Used /\ ~Opens(token.at) /\ token.typ \in {"if", "with"} /\ SameVars(trees, trees')
         /\ Settled(Top.op, ret.kind) /\ ret' = ret /\ Last(stack') = f
         /\ stack' = Calling(stack, [Top EXCEPT !.op = "controlEnd"], f)
         /\ f \in FrameRec /\ f.op = "control" /\ f.mark = Len(Cur.vars)
         /\ [Top EXCEPT !.op = "controlEnd"] \in FrameRec
<1> USE DEF AtWork
<1> DEFINE g == [Top EXCEPT !.op = "controlEnd"]
<1>1. /\ ret.kind = "else" /\ Use(Any) /\ stack' = Front(stack) \o <<g, f>> /\ ret' = ret
      /\ token.typ \in {"if", "with"} /\ token.typ = Top.ctx /\ Last(stack) = Top
  BY DEF parseControl, At, Resume, Call, Chained, Top
<1>2. Used /\ SameVars(trees, trees')
  BY <1>1, UseFacts DEF Plain
<1>3. g \in FrameRec /\ g.op = "controlEnd" /\ g.mark = Top.mark
  <2>1. "controlEnd" \in Op /\ Top \in FrameRec
    BY CurFacts DEF Op, NodeOp
  <2> QED BY <2>1 DEF FrameRec
<1>4. f \in FrameRec /\ f.op = "control" /\ f.ctx = Top.ctx /\ f.mark = Len(Cur.vars)
  <2>1. Top.ctx \in Context
    BY <1>1 DEF Context, Control
  <2>2. f \in FrameRec /\ f.op = "control"
    BY <2>1, ControlFrame
  <2>3. f.ctx = Top.ctx /\ f.mark = Len(Cur.vars)
    BY DEF Frame
  <2> QED BY <2>2, <2>3
<1>5. stack' = Calling(stack, g, f)
  BY <1>1 DEF Calling
<1>13. Calling(stack, g, f) = Calling(stack, [Top EXCEPT !.op = "controlEnd"], f) /\ g = [Top EXCEPT !.op = "controlEnd"]
  BY DEF g
<1> HIDE DEF g
<1>6. StackInv(stack) /\ StackInv(stack') /\ Linked(stack)
  BY CurFacts, LevelFacts DEF NestNow, Nest
<1>7. Link(g, f) /\ (Last(stack).op \in ControlOp => g.op \in ControlOp) /\ g.op \notin Pipe
  BY <1>3, <1>4 DEF Link, ControlOp, Pipe
<1>8. Kin(Last(stack).op, g.op)
  BY <1>1, <1>3 DEF Kin, Family, Root, Tree, List, NodeOp, Pipe, Command
<1>9. /\ Last(stack') = f /\ Linked(stack') /\ Len(stack') = Len(stack) + 1
      /\ Level(stack', Len(stack')) = Level(stack, Len(stack)) + DeepAt(g.op) - DeepAt(Last(stack).op) + DeepAt(f.op)
  <2>1. g \in FrameRec /\ f \in FrameRec
    BY <1>3, <1>4
  <2> QED BY ONLY <1>5, <1>6, <1>7, <1>8, <2>1, CallAny
<1>10. DeepAt(g.op) = 0 /\ DeepAt(Last(stack).op) = 1 /\ DeepAt(f.op) = 1 /\ Level(stack, Len(stack)) \in Nat
  BY <1>1, <1>3, <1>4, LevelFacts DEF DeepAt, Deepens
<1>11. ~InBlock(stack) /\ ~InBlock(stack')
  <2>1. ~InBlock(stack)
    BY <1>1, <1>6, InBlockTop DEF Pipe, Command
  <2>2. ~InBlock(stack')
    BY <1>4, <1>6, <1>9, InBlockTop DEF Pipe, Command
  <2> QED BY <2>1, <2>2
<1>12. ~Opens(token.at) /\ OpeningAt(token.at) = 0 /\ EndingAt(token.at) = 0 /\ Bottom(token.at) = 0
  <2>1. input[token.at].typ \in {"if", "with"} /\ Follows(Reached(taken), token.at)
    BY <1>1, <1>2 DEF Used
  <2>2. Reached(taken) > 0 /\ input[Reached(taken)].typ \in {"else", "right"}
    BY <1>1 DEF NestNow, Nest, Fresh
  <2>3. input[Reached(taken)].typ = "else"
    BY <2>1, <2>2, AfterRight DEF Working
  <2>4. ~Opens(token.at)
    BY <2>1, <2>2, <2>3, OpensAt DEF Control
  <2> QED BY <2>1, <2>4 DEF OpeningAt, EndingAt, Bottom
<1>14. /\ Adj(Top.op, ret.kind) = 0 /\ Adj(Last(stack').op, ret'.kind) = 0
      /\ ~Doomed(stack, ret.kind) /\ Fresh(Last(stack').op, ret'.kind, token.at) /\ Placed(Last(stack'))
      /\ ~BlockDue(stack) /\ ~BlockDue(stack')
  BY <1>1, <1>4, <1>9, <1>11 DEF Placed, Adj, Closing, Closers, BlockDue, Doomed, Fresh, Control
<1>15. /\ Level(stack', Len(stack')) + Adj(Last(stack').op, ret'.kind)
          = Level(stack, Len(stack)) + Adj(Top.op, ret.kind) + OpeningAt(token.at) - EndingAt(token.at)
      /\ Level(stack', Len(stack')) + Adj(Last(stack').op, ret'.kind) >= Bottom(token.at)
  BY <1>9, <1>10, <1>12, <1>14
<1>16. BlockDue(stack') <=> token.typ # "right" /\ (BlockDue(stack) \/ token.typ \in {"block", "define"})
  BY <1>1, <1>14
<1>17. NestThen
  BY <1>2, <1>9, <1>14, <1>15, <1>16, NestUsed
<1>18. Settled(Top.op, ret.kind)
  BY <1>1 DEF Settled, Closing, Closers
<1> QED
  BY <1>1, <1>2, <1>3, <1>4, <1>5, <1>9, <1>12, <1>13, <1>17, <1>18
-----------------------------------------------------------------------------
\* A declaration.
LEMMA DeclareNest ==
  ASSUME AtWork, declarations, taken' # taken
  PROVE  /\ NestThen /\ UsedBoth /\ ~Opens(token.at) /\ token.typ \in {"assign", "declare", "comma"}
         /\ Top.op = "declNext" /\ Top.v.typ = "variable" /\ Shifted /\ Last(stack').op \in Pipe /\ ret' = ret
         /\ trees' = [trees EXCEPT ![Len(trees)] = [next EXCEPT !.vars = Append(@, Top.v.name)]]
         /\ Settled(Top.op, ret.kind) /\ Settled(Last(stack').op, ret'.kind)
<1> USE DEF AtWork
<1>0. Top \in FrameRec /\ \A op \in Pipe : InPipe(op) /\ op \in Op /\ SameOps("declNext", op)
  BY CurFacts, SimilarOps DEF InPipe, Op, Pipe
<1>1. PICK typs : /\ Top.op = "declNext" /\ Declare(typs) /\ typs \subseteq {"assign", "declare", "comma"}
                  /\ \/ Become([Top EXCEPT !.op = "pipe", !.decls = @ + 1])
                     \/ Become([Top EXCEPT !.op = "declSecond", !.decls = 1])
  BY DEF declarations, At, Hold, Peek
<1>2. /\ token.typ \in {"assign", "declare", "comma"} /\ taken' = taken \o <<Top.v.at, token.at>>
      /\ trees' = [trees EXCEPT ![Len(trees)] = [next EXCEPT !.vars = Append(@, Top.v.name)]]
  BY <1>1, ReadTree DEF Declare
<1>3. Top.v.typ = "variable" /\ ~Plain(Top.op)
  BY <1>1, <1>2, NextAfter DEF Plain
<1>4. UsedBoth /\ Nest(stack, ret.kind, Top.v.at)
  BY <1>2, <1>3, UseBothFacts, NestHeld
<1>5. Shifted /\ Last(stack').op \in Pipe /\ ret' = ret
  <2>1. ASSUME NEW f \in FrameRec, Become(f), f.op \in Pipe, f.ctx = Top.ctx, f.mark = Top.mark
        PROVE  Shifted /\ Last(stack').op \in Pipe /\ ret' = ret
    BY <1>0, <1>1, <2>1, FrameShift
  <2>2. CASE Become([Top EXCEPT !.op = "pipe", !.decls = @ + 1])
    <3> DEFINE f == [Top EXCEPT !.op = "pipe", !.decls = @ + 1]
    <3>1. f \in FrameRec /\ f.op \in Pipe /\ f.ctx = Top.ctx /\ f.mark = Top.mark
      <4>1. "pipe" \in Op /\ "pipe" \in Pipe /\ Top.decls + 1 \in Nat
        BY <1>0 DEF FrameRec, Op, Pipe
      <4> QED BY <1>0, <4>1 DEF FrameRec
    <3>2. Become(f)
      BY <2>2
    <3> HIDE DEF f
    <3> QED BY <2>1, <3>1, <3>2
  <2>3. CASE Become([Top EXCEPT !.op = "declSecond", !.decls = 1])
    <3> DEFINE f == [Top EXCEPT !.op = "declSecond", !.decls = 1]
    <3>1. f \in FrameRec /\ f.op \in Pipe /\ f.ctx = Top.ctx /\ f.mark = Top.mark
      <4>1. "declSecond" \in Op /\ "declSecond" \in Pipe /\ 1 \in Nat
        BY <1>0 DEF FrameRec, Op, Pipe
      <4> QED BY <1>0, <4>1 DEF FrameRec
    <3>2. Become(f)
      BY <2>3
    <3> HIDE DEF f
    <3> QED BY <2>1, <3>1, <3>2
  <2> QED BY <1>1, <2>2, <2>3
<1>6. Last(stack) = Top /\ InPipe(Top.op) /\ InPipe(Last(stack').op)
  BY <1>0, <1>1, <1>5 DEF Top, Pipe
<1>7. /\ Adj(Last(stack).op, ret.kind) = 0 /\ Adj(Last(stack').op, ret'.kind) = 0 /\ ~Doomed(stack, ret.kind)
      /\ (BlockDue(stack) <=> InBlock(stack)) /\ (BlockDue(stack') <=> InBlock(stack'))
      /\ Fresh(Last(stack').op, ret'.kind, token.at) /\ Placed(Last(stack'))
  <2>1. Simple(Last(stack).op, ret.kind) /\ Simple(Last(stack').op, ret'.kind)
    BY <1>6, PipeOps
  <2> QED BY <2>1, SimpleFacts
<1>8. /\ Level(stack', Len(stack')) = Level(stack, Len(stack)) /\ Level(stack, Len(stack)) \in Nat /\ Linked(stack')
      /\ Level(stack', Len(stack')) \in Nat
  BY <1>5, LevelFacts DEF Shifted
<1>9. ~Opens(token.at) /\ OpeningAt(token.at) = 0 /\ EndingAt(token.at) = 0 /\ Bottom(token.at) = 0
      /\ input[token.at].typ \in {"assign", "declare", "comma"} /\ Follows(Top.v.at, token.at) /\ Reached(taken') = token.at
  <2>1. input[token.at].typ \in {"assign", "declare", "comma"} /\ Follows(Top.v.at, token.at) /\ Reached(taken') = token.at
    BY <1>2, <1>4 DEF UsedBoth
  <2>2. ~Opens(token.at)
    BY <2>1, OpensAt DEF Control
  <2> QED BY <2>1, <2>2 DEF OpeningAt, EndingAt, Bottom
<1>10. NestThen
  <2>1. /\ Level(stack', Len(stack')) + Adj(Last(stack').op, ret'.kind)
             = Level(stack, Len(stack)) + Adj(Last(stack).op, ret.kind) + OpeningAt(token.at) - EndingAt(token.at)
        /\ Level(stack', Len(stack')) + Adj(Last(stack').op, ret'.kind) >= Bottom(token.at)
    BY <1>7, <1>8, <1>9
  <2>2. BlockDue(stack') <=> input[token.at].typ # "right" /\ (BlockDue(stack) \/ input[token.at].typ \in {"block", "define"})
    BY <1>5, <1>7, <1>9 DEF Shifted
  <2> QED BY <1>4, <1>7, <1>8, <1>9, <2>1, <2>2, NestOn DEF NestThen
<1>11. Settled(Top.op, ret.kind) /\ Settled(Last(stack').op, ret'.kind)
  BY <1>1, <1>5 DEF Settled, Closing, Closers, Pipe
<1> QED
  BY <1>1, <1>2, <1>3, <1>4, <1>5, <1>9, <1>10, <1>11
-----------------------------------------------------------------------------
\* Every step.
LEMMA ActionNest ==
  ASSUME AtWork, action
  PROVE  \/ NestThen /\ Slight
         \/ /\ Top.op = "action" /\ Use(Control)
            /\ Become([Frame("control", token.typ) EXCEPT !.mark = Len(Cur.vars)])
BY EndElseNest, TemplateNest, CommandNest DEF action, At

LEMMA NestKept ==
  ASSUME AtWork, Parse
  PROVE  NestThen
<1>1. CASE nextNonSpace \/ parse \/ parsed \/ itemList \/ textOrAction \/ done \/ endControl \/ elseControl
  BY <1>1, NextNonSpaceNest, ParseNest, ParsedNest, ItemListNest, TextOrActionNest, DoneNest, EndControlOpNest, ElseControlNest
<1>2. CASE parseDelim
  BY <1>2, ParseDelimNest, DefineNest
<1>3. CASE parseDefinition
  BY <1>3, DefineNameNest, DefineDelimNest DEF parseDefinition, At
<1>4. CASE action
  BY <1>4, ActionNest, ControlNest
<1>5. CASE parseControl
  BY <1>5, ParseControlNest, ChainedNest
<1>6. CASE templateControl \/ pipeline \/ operand \/ command
  BY <1>6, TemplateControlNest, PipelineNest, OperandNest, CommandsNest
<1>7. CASE declarations
  BY <1>7, DeclarationsNest, DeclareNest
<1>8. CASE EndTree \/ EndControl \/ blockControl
  BY <1>8, EndTreeNest, EndControlNest, BlockControlNest
<1> QED
  BY <1>1, <1>2, <1>3, <1>4, <1>5, <1>6, <1>7, <1>8 DEF Parse

\* The text stays, and with it what is said of its places.
LEMMA SameText ==
  ASSUME input' = input, NEW k
  PROVE  /\ Opens(k)' = Opens(k) /\ Depth(k)' = Depth(k) /\ BlockOpen(k)' = BlockOpen(k)
         /\ Floor(k)' = Floor(k) /\ Bottom(k)' = Bottom(k) /\ Declares(k)' = Declares(k)
BY DEF Opens, Before, Depth, BlockOpen, Floor, Bottom, Declares

LEMMA NestNext ==
  ASSUME input' = input, NestThen
  PROVE  NestNow'
<1>1. Depth(Reached(taken))' = Depth(Reached(taken'))
  BY DEF Depth, Opens, Before, Reached
<1>2. BlockOpen(Reached(taken))' <=> BlockOpen(Reached(taken'))
  BY DEF BlockOpen, Reached
<1>3. Floor(Reached(taken))' <=> Floor(Reached(taken'))
  BY DEF Floor, Bottom, Depth, Opens, Before, Reached
<1>4. Fresh(Last(stack).op, ret.kind, Reached(taken))' <=> Fresh(Last(stack').op, ret'.kind, Reached(taken'))
  BY DEF Fresh, Reached, Last
<1> QED
  BY <1>1, <1>2, <1>3, <1>4 DEF NestThen, NestNow, Nest

LEMMA WhileParsing ==
  ASSUME Parse
  PROVE  status = "parsing" /\ input' = input
<1>1. status = "parsing"
  BY DEF Parse, nextNonSpace, parse, parseDelim, parseDefinition, parsed, EndTree, itemList,
         textOrAction, action, done, endControl, elseControl, parseControl, EndControl, templateControl,
         blockControl, declarations, pipeline, operand, command, At, Resume
<1>2. input' = input
  BY DEF Parse, nextNonSpace, parse, parseDelim, parseDefinition, parsed, EndTree, itemList,
         textOrAction, action, done, endControl, elseControl, parseControl, EndControl, templateControl,
         blockControl, declarations, pipeline, operand, command, At, Resume, AppendNode, Same, errorf
<1> QED BY <1>1, <1>2

\* How a step keeps what holds of a parse at work.
NestInv == status = "parsing" => NestNow

LEMMA NestStep ==
  ASSUME Inv, NestInv, [Next]_vars
  PROVE  NestInv'
<1> SUFFICES ASSUME status' = "parsing" PROVE NestNow'
  BY DEF NestInv
<1>1. Inv'
  BY InvNext
<1>2. CASE Parse
  <2>1. AtWork /\ input' = input
    BY <1>1, <1>2, WhileParsing DEF AtWork, Working, NestInv
  <2> QED BY <1>2, <2>1, NestKept, NestNext
<1>3. CASE UNCHANGED vars
  <2>1. NestThen /\ input' = input
    <3>1. stack' = stack /\ ret' = ret /\ taken' = taken /\ status' = status /\ input' = input
      BY <1>3 DEF vars
    <3> QED BY <3>1 DEF NestInv, NestNow, NestThen
  <2> QED BY <2>1, NestNext
<1> QED
  BY <1>2, <1>3 DEF Next, Fail, errorf, Finished

LEMMA NestInit ==
  ASSUME Init
  PROVE  NestInv
<1> DEFINE f == Frame("parse", "root")
<1>1. stack = <<f>> /\ taken = <<>> /\ ret.kind = "node"
  BY NodeFact DEF Init
<1>2. f.op = "parse"
  BY NewFrame DEF Op, Root, Context
<1> HIDE DEF f
<1>3. Len(stack) = 1 /\ stack[1] = f /\ Last(stack) = f /\ Reached(taken) = 0
  BY <1>1 DEF Last, Reached
<1>4. Level(stack, 0) = 0 /\ (stack[0 + 1].op \notin Deepens => Level(stack, 0 + 1) = Level(stack, 0))
  BY LevelNext
<1>5. Level(stack, 1) = 0
  BY <1>2, <1>3, <1>4 DEF Deepens
<1>6. Depth(0) = 0
  BY DepthNext
<1>7. Linked(stack) /\ ~InBlock(stack)
  BY <1>3 DEF Linked, InBlock
<1>8. Floor(0) /\ ~BlockOpen(0)
  BY DEF Floor, BlockOpen
<1>9. Adj(f.op, ret.kind) = 0 /\ Fresh(f.op, ret.kind, 0) /\ Placed(f) /\ ~BlockDue(stack)
  BY <1>1, <1>2, <1>3, <1>7 DEF Adj, Closing, Closers, Fresh, Placed, BlockDue
<1> QED
  BY <1>3, <1>5, <1>6, <1>7, <1>8, <1>9 DEF NestInv, NestNow, Nest
-----------------------------------------------------------------------------
\* At the end of the text nothing is left but a space.
LEMMA TextEnds ==
  ASSUME Working, Top.op = "parse", token.typ = "eof"
  PROVE  /\ Reached(taken) \in 0..Len(input) /\ Len(input) \in Nat
         /\ \A m \in Reached(taken) + 1..Len(input) :
              IsSpace(m) /\ ~Opens(m) /\ Bottom(m) = 0 /\ Depth(m) = Depth(Reached(taken))
         /\ Depth(Len(input)) = Depth(Reached(taken))
<1> DEFINE p == Reached(taken)
           l == Len(input)
<1>1. DOMAIN input = 1..l /\ l \in Nat /\ (\A m \in DOMAIN input : IsSpace(m) => m > 1 /\ ~IsSpace(m - 1))
      /\ \A m \in DOMAIN input : input[m].typ # "eof"
  BY InputFacts DEF Working
<1>2. /\ Tokens(taken, HeldAt(Top), FillTok, FillN, FillR) /\ FillN = 1 /\ token = FillTok[1] /\ Given(token)
      /\ HeldAt(Top) = 0
  BY FillTokens, OneFilled, FirstAt DEF HeldAt
<1>3. token.at = l + 1
  BY <1>1, <1>2 DEF Given
<1>4. FillR = l
  <2>1. FillR \in 0..l /\ (token.at = FillR \/ FillR = l)
    BY <1>2 DEF Tokens
  <2>2. ~(token.at = FillR)
    <3> HIDE DEF l
    <3>1. \A r \in 0..l : l + 1 # r
      BY <1>1
    <3> QED BY ONLY <1>3, <2>1, <3>1
  <2> QED BY <2>1, <2>2
<1>5. p \in Nat /\ p <= l /\ \A i \in DOMAIN taken : taken[i] <= p
  BY <1>2, <1>4, ReachedFacts DEF Working
<1>6. \A m \in 1..l : ~IsSpace(m) => \E i \in DOMAIN taken : taken[i] = m
  <2> SUFFICES ASSUME NEW m \in 1..l, ~IsSpace(m) PROVE \E i \in DOMAIN taken : taken[i] = m
    OBVIOUS
  <2>1. (\E i \in DOMAIN taken : taken[i] = m) \/ HeldAt(Top) = m \/ (\E k \in 1..FillN : FillTok[k].at = m)
    BY <1>2, <1>4 DEF Tokens
  <2>2. HeldAt(Top) # m /\ \A k \in 1..1 : FillTok[k].at = l + 1
    BY <1>2, <1>3
  <2>3. m \in Nat /\ m <= l
    BY <1>1
  <2> QED BY <1>1, <1>2, <2>1, <2>2, <2>3
<1> HIDE DEF p, l
<1>7. \A m \in p + 1..l : IsSpace(m)
  <2> TAKE m \in p + 1..l
  <2>1. m \in 1..l /\ m \in Nat /\ m > p
    BY <1>1, <1>5
  <2> QED BY <1>5, <1>6, <2>1
<1>8. l = p \/ l = p + 1
  <2>1. ASSUME l > p + 1 PROVE FALSE
    <3>1. p + 2 \in p + 1..l /\ p + 1 \in p + 1..l /\ p + 2 \in DOMAIN input /\ (p + 2) - 1 = p + 1
      BY <1>1, <1>5, <2>1
    <3> QED BY <1>1, <1>7, <3>1
  <2> QED BY <1>1, <1>5, <2>1
<1>9. /\ \A m \in p + 1..l : IsSpace(m) /\ ~Opens(m) /\ Bottom(m) = 0 /\ Depth(m) = Depth(p)
      /\ Depth(l) = Depth(p)
  <2>1. CASE l = p
    BY <1>5, <2>1
  <2>2. CASE l = p + 1
    <3>1. IsSpace(p + 1)
      BY <1>5, <1>7, <2>2
    <3>2. ~Opens(p + 1) /\ OpeningAt(p + 1) = 0 /\ EndingAt(p + 1) = 0
      BY <3>1, SpaceOpens
    <3>3. Depth(p) \in Int /\ Depth(p + 1) = Depth(p) + OpeningAt(p + 1) - EndingAt(p + 1)
      BY <1>5, DepthNext
    <3>4. Depth(p + 1) = Depth(p) /\ Bottom(p + 1) = 0
      BY <3>1, <3>2, <3>3 DEF IsSpace, Bottom
    <3>5. \A m \in p + 1..l : m = p + 1
      BY <1>5, <2>2
    <3> QED BY <2>2, <3>1, <3>2, <3>4, <3>5
  <2> QED BY <1>8, <2>1, <2>2
<1> QED
  BY <1>1, <1>5, <1>9 DEF p, l

\* A text is accepted: all that was opened is closed.
LEMMA AcceptedIsClosed ==
  ASSUME Working, NestNow, Top.op = "parse", token.typ = "eof"
  PROVE  /\ Depth(Len(input)) = 0 /\ Len(trees) = 1
         /\ \A k \in DOMAIN input : Depth(k) >= (IF input[k].typ = "else" THEN 1 ELSE 0)
<1> DEFINE p == Reached(taken)
<1>1. Len(stack) = 1 /\ StackInv(stack) /\ Last(stack) = Top /\ stack[1] = Top /\ Len(trees) = TreesIn(stack) + 1
  BY CurFacts, TopFacts DEF Root
<1>2. Level(stack, 0) = 0 /\ (stack[0 + 1].op \notin Deepens => Level(stack, 0 + 1) = Level(stack, 0))
  BY LevelNext
<1>3. Level(stack, 1) = 0
  BY <1>1, <1>2 DEF Deepens
<1>4. Among(stack, 0) = 0 /\ (stack[0 + 1].op \notin Tree => Among(stack, 0 + 1) = Among(stack, 0))
  BY AmongNext
<1>5. Among(stack, 1) = 0
  BY <1>1, <1>4 DEF Tree
<1>6. Len(trees) = 1
  BY <1>1, <1>5 DEF TreesIn, Among
<1>7. Depth(p) = 0 /\ Floor(p)
  BY <1>1, <1>3 DEF NestNow, Nest, Adj, Closing, Closers, Doomed
<1>8. /\ p \in 0..Len(input) /\ Len(input) \in Nat /\ Depth(Len(input)) = Depth(p)
      /\ \A m \in p + 1..Len(input) : Bottom(m) = 0 /\ Depth(m) = Depth(p)
  BY TextEnds
<1>9. DOMAIN input = 1..Len(input)
  BY InputFacts DEF Working
<1> HIDE DEF p
<1>10. ASSUME NEW k \in DOMAIN input PROVE Depth(k) >= Bottom(k)
  <2>1. k \in 1..p \/ k \in p + 1..Len(input)
    BY <1>8, <1>9, <1>10
  <2>2. CASE k \in 1..p
    BY <1>7, <2>2 DEF Floor
  <2>3. CASE k \in p + 1..Len(input)
    <3>1. Bottom(k) = 0 /\ Depth(k) = 0
      BY <1>7, <1>8, <2>3
    <3> QED BY <3>1
  <2> QED BY <2>1, <2>2, <2>3
<1> QED
  BY <1>6, <1>7, <1>8, <1>10 DEF Bottom

\* The step that accepts a text, or that comes after it.
LEMMA Accepts ==
  ASSUME [Next]_vars, status' = "ok"
  PROVE  /\ input' = input /\ trees' = trees
         /\ status = "ok" \/ (status = "parsing" /\ Top.op = "parse" /\ token.typ = "eof")
<1>1. CASE UNCHANGED vars
  BY <1>1 DEF vars
<1>2. CASE Parse /\ ~parse
  <2>1. status' = status /\ status = "parsing"
    BY <1>2, WhileParsing DEF Parse, nextNonSpace, parseDelim, parseDefinition, parsed, EndTree, itemList,
       textOrAction, action, done, endControl, elseControl, parseControl, EndControl, templateControl,
       blockControl, declarations, pipeline, operand, command, Resume, AppendNode, Same
  <2> QED BY <2>1
<1>3. CASE parse
  BY <1>3 DEF parse, At, errorf, Same
<1> QED BY <1>1, <1>2, <1>3 DEF Next, Fail, errorf, Finished

LEMMA ClosedStep ==
  ASSUME Inv, NestInv, Closed, [Next]_vars
  PROVE  Closed'
<1> SUFFICES ASSUME status' = "ok" PROVE Closed'
  BY DEF Closed
<1>1. /\ input' = input /\ trees' = trees
      /\ status = "ok" \/ (status = "parsing" /\ Top.op = "parse" /\ token.typ = "eof")
  BY Accepts
<1>2. /\ Depth(Len(input)) = 0 /\ Len(trees) = 1
      /\ \A k \in DOMAIN input : Depth(k) >= (IF input[k].typ = "else" THEN 1 ELSE 0)
  <2>1. CASE status = "ok"
    BY <2>1 DEF Closed
  <2>2. CASE status = "parsing" /\ Top.op = "parse" /\ token.typ = "eof"
    BY <2>2, AcceptedIsClosed DEF Working, NestInv
  <2> QED BY <1>1, <2>1, <2>2
<1> QED
  BY <1>1, <1>2 DEF Closed, Depth, Opens, Before

\* Parser!Closed: a text is accepted only if its controls and definitions are closed, and every
\* {else} is in a control.
THEOREM AcceptedTextsClosed == Spec => []Closed
<1>1. Init => Inv /\ NestInv /\ Closed
  BY InvInit, NestInit DEF Init, Closed
<1>2. Inv /\ NestInv /\ Closed /\ [Next]_vars => (Inv /\ NestInv /\ Closed)'
  BY InvNext, NestStep, ClosedStep
<1> QED
  BY <1>1, <1>2, PTL DEF Spec
-----------------------------------------------------------------------------
\* The scopes.  The tree a call works on, and how deep the text is around it.
TreeOf(s, x) == Among(s, x - 1) + 1
Outside(s, x) == Level(s, x - 1) + (IF x > 1 /\ s[x - 1].op = "controlEnd" THEN 1 ELSE 0)
\* The i-th variable of tree t was declared outside of call x.
Bounds(s, x, t, i) == \/ s[x].op = "treeList" /\ t <= TreeOf(s, x)
                      \/ s[x].op \in ControlOp /\ (t < TreeOf(s, x) \/ (t = TreeOf(s, x) /\ i <= s[x].mark))
\* Nothing that was open at j is closed at p.
Steady(j, p) == \A m \in j..p : Depth(m) >= Depth(j)
\* The trees begun since j that are not of the tree t have ended.
InTree(s, t, j, p) == \A b \in j..p : Opens(b) /\ input[b].typ = "right" /\ Steady(b, p) =>
  \E x \in 1..Len(s) : s[x].op = "treeList" /\ TreeOf(s, x) >= t /\ Depth(b) >= Level(s, x)
Declared(j, name) == Declares(j) /\ input[j].name = name
Around(s, t, i, j) == \A x \in 1..Len(s) : Bounds(s, x, t, i) => Depth(j) <= Outside(s, x)
Sees(s, t, i, name, P) == \E j \in 1..P : Declared(j, name) /\ Steady(j, P) /\ InTree(s, t, j, P) /\ Around(s, t, i, j)
VarsAt(s, ts, P) == \A t \in 1..Len(ts) : \A i \in 1..Len(ts[t].vars) :
  ts[t].vars[i] = "$" \/ Sees(s, t, i, ts[t].vars[i], P)
\* Where the variables have been kept up to: here, before the {end}, before the text of a {block}.
Lull(P, Q) == P \in Nat /\ Q \in Nat /\ P <= Q /\ \A m \in P + 1..Q : Depth(m) = Depth(P) /\ ~Opens(m)
Spot(op, kind, p, P) ==
  /\ P \in Nat /\ P <= p
  /\ \/ P = p /\ op # "blockPipe"
     \/ Unsettled(op, kind) /\ \A m \in P + 1..p : Depth(m) = Depth(p) /\ ~Opens(m)
     \/ op = "blockPipe" /\ P < p /\ Depth(p) = Depth(P) + 1 /\ input[p].typ = "right" /\ Lull(P, p - 1)
Marks(s, ts) ==
  /\ \A x \in 1..Len(s) : s[x].op \in ControlOp => s[x].mark <= Len(ts[TreeOf(s, x)].vars)
  /\ \A x, y \in 1..Len(s) : x < y /\ s[x].op \in ControlOp /\ s[y].op \in ControlOp /\ TreeOf(s, x) = TreeOf(s, y) =>
       s[x].mark <= s[y].mark
Scoped(p) == \A k \in 1..p : input[k].typ = "variable" /\ input[k].name # "$" /\ ~Declares(k) =>
  \E j \in 1..k : Declared(j, input[k].name) /\ InScope(j, k)
Bare(op, v) == op \in {"defineName", "defineDelim"} => \A i \in 1..Len(v) : v[i] = "$"
Scope(s, ts, kind, p) ==
  /\ \E P \in 0..p : Spot(Last(s).op, kind, p, P) /\ VarsAt(s, ts, P)
  /\ Marks(s, ts) /\ Scoped(p) /\ Bare(Last(s).op, Last(ts).vars)
ScopeNow == Scope(stack, trees, ret.kind, Reached(taken))
ScopeThen == Scope(stack', trees', ret'.kind, Reached(taken'))

LEMMA LullStep ==
  ASSUME NEW p, NEW q, Follows(p, q)
  PROVE  /\ Lull(p, q - 1)
         /\ ~Opens(q) /\ input[q].typ # "end" => Lull(p, q) /\ Depth(q) = Depth(p)
<1>1. /\ p \in Nat /\ q \in Nat /\ p < q /\ Depth(p) \in Int
      /\ \A m \in p + 1..q - 1 : ~Opens(m) /\ Depth(m) = Depth(p)
      /\ Depth(q) = Depth(p) + OpeningAt(q) - EndingAt(q)
  BY Between
<1>2. Lull(p, q - 1)
  BY <1>1 DEF Lull
<1>3. ASSUME ~Opens(q), input[q].typ # "end" PROVE Lull(p, q) /\ Depth(q) = Depth(p)
  <2>1. Depth(q) = Depth(p)
    BY <1>1, <1>3 DEF OpeningAt, EndingAt
  <2>2. \A m \in p + 1..q : m = q \/ m \in p + 1..q - 1
    BY <1>1
  <2> QED BY <1>1, <1>3, <2>1, <2>2 DEF Lull
<1> QED
  BY <1>2, <1>3

LEMMA LullLull ==
  ASSUME NEW p, NEW q, NEW r, Lull(p, q), Lull(q, r)
  PROVE  Lull(p, r)
<1>1. /\ p \in Nat /\ q \in Nat /\ r \in Nat /\ p <= q /\ q <= r
      /\ \A m \in p + 1..q : Depth(m) = Depth(p) /\ ~Opens(m)
      /\ \A m \in q + 1..r : Depth(m) = Depth(q) /\ ~Opens(m)
  BY DEF Lull
<1>2. Depth(q) = Depth(p)
  <2>1. p = q \/ q \in p + 1..q
    BY <1>1
  <2> QED BY <1>1, <2>1
<1>3. \A m \in p + 1..r : m \in p + 1..q \/ m \in q + 1..r
  BY <1>1
<1> QED
  BY <1>1, <1>2, <1>3 DEF Lull

LEMMA LullNone ==
  ASSUME NEW p \in Nat
  PROVE  Lull(p, p)
BY DEF Lull

\* Over a lull nothing goes out of scope.
LEMMA SteadyLull ==
  ASSUME NEW P, NEW Q, Lull(P, Q), NEW j \in 1..P
  PROVE  Steady(j, P) <=> Steady(j, Q)
<1>1. P \in Nat /\ Q \in Nat /\ P <= Q /\ \A m \in P + 1..Q : Depth(m) = Depth(P)
  BY DEF Lull
<1>2. P \in j..P /\ \A m \in j..P : m \in j..Q
  BY <1>1
<1>3. \A m \in j..Q : m \in j..P \/ m \in P + 1..Q
  BY <1>1
<1> QED
  BY <1>1, <1>2, <1>3 DEF Steady

LEMMA InTreeLull ==
  ASSUME NEW P, NEW Q, Lull(P, Q), NEW j \in 1..P, NEW s, NEW t, InTree(s, t, j, P)
  PROVE  InTree(s, t, j, Q)
<1>1. P \in Nat /\ Q \in Nat /\ P <= Q /\ \A m \in P + 1..Q : ~Opens(m)
  BY DEF Lull
<1> SUFFICES ASSUME NEW b \in j..Q, Opens(b), input[b].typ = "right", Steady(b, Q)
             PROVE  \E x \in 1..Len(s) : s[x].op = "treeList" /\ TreeOf(s, x) >= t /\ Depth(b) >= Level(s, x)
  BY DEF InTree
<1>2. b \in j..P
  <2>1. b \in j..P \/ b \in P + 1..Q
    BY <1>1
  <2> QED BY <1>1, <2>1
<1>3. Steady(b, P)
  <2>1. b \in 1..P
    BY <1>1, <1>2
  <2> QED BY <2>1, SteadyLull
<1> QED
  BY <1>2, <1>3 DEF InTree

LEMMA SeesLull ==
  ASSUME NEW P, NEW Q, Lull(P, Q), NEW s, NEW t, NEW i, NEW name, Sees(s, t, i, name, P)
  PROVE  Sees(s, t, i, name, Q)
<1>1. PICK j \in 1..P : Declared(j, name) /\ Steady(j, P) /\ InTree(s, t, j, P) /\ Around(s, t, i, j)
  BY DEF Sees
<1>2. j \in 1..Q
  BY DEF Lull
<1>3. Steady(j, Q) /\ InTree(s, t, j, Q)
  BY <1>1, SteadyLull, InTreeLull
<1> QED
  BY <1>1, <1>2, <1>3 DEF Sees

LEMMA VarsLull ==
  ASSUME NEW P, NEW Q, Lull(P, Q), NEW s, NEW ts, VarsAt(s, ts, P)
  PROVE  VarsAt(s, ts, Q)
BY SeesLull DEF VarsAt
-----------------------------------------------------------------------------
\* Frames in place of which others alike stand.
Stands(s, u, x) == /\ x \in 1..Len(s) /\ x \in 1..Len(u)
                   /\ s[x].op = "treeList" <=> u[x].op = "treeList"
                   /\ s[x].op \in ControlOp <=> u[x].op \in ControlOp
                   /\ s[x].op \in ControlOp => s[x].mark = u[x].mark
                   /\ TreeOf(s, x) = TreeOf(u, x) /\ Outside(s, x) = Outside(u, x)
                   /\ s[x].op = "treeList" => Level(s, x) = Level(u, x)
Counts(f) == f.op = "treeList" \/ f.op \in ControlOp

LEMMA StandsBack ==
  ASSUME NEW s, NEW u, NEW x, Stands(s, u, x)
  PROVE  Stands(u, s, x)
BY DEF Stands

LEMMA StandsBelow ==
  ASSUME NEW s, NEW u, Len(s) \in Nat, Len(u) \in Nat, NEW x \in 1..Len(s), x \in 1..Len(u), \A y \in 1..x : Alike(s[y], u[y])
  PROVE  Stands(s, u, x)
<1>1. x \in Nat /\ x > 0 /\ x - 1 \in Nat /\ x \in 1..x /\ (\A y \in 1..x - 1 : y \in 1..x)
      /\ (x > 1 => x - 1 \in 1..x)
  OBVIOUS
<1>2. Alike(s[x], u[x]) /\ \A y \in 1..x - 1 : Alike(s[y], u[y])
  BY <1>1
<1>3. Among(s, x - 1) = Among(u, x - 1)
  BY <1>2, AmongAlike DEF Alike
<1>4. Level(s, x - 1) = Level(u, x - 1)
  BY <1>2, LevelSame DEF Alike
<1>5. Level(s, x) = Level(u, x)
  BY LevelSame DEF Alike
<1>6. Outside(s, x) = Outside(u, x)
  <2>1. x > 1 => (s[x - 1].op = "controlEnd" <=> u[x - 1].op = "controlEnd")
    BY <1>1 DEF Alike
  <2> QED BY <1>4, <2>1 DEF Outside
<1>7. TreeOf(s, x) = TreeOf(u, x)
  BY <1>3 DEF TreeOf
<1> QED
  BY <1>2, <1>5, <1>6, <1>7 DEF Stands, Alike

LEMMA StandsKept ==
  ASSUME NEW s, NEW u, Len(s) \in Nat, Len(u) \in Nat, Kept(s, u)
  PROVE  /\ \A x \in 1..Len(s) : Counts(s[x]) => Stands(s, u, x)
         /\ \A x \in 1..Len(u) : Counts(u[x]) => Stands(u, s, x)
<1>1. ASSUME NEW a, NEW b, Len(a) \in Nat, Len(b) \in Nat, Kept(a, b), NEW x \in 1..Len(a), Counts(a[x])
      PROVE  Stands(a, b, x)
  <2>1. ~Light(a[x])
    BY <1>1 DEF Counts, Light, Tree
  <2>2. x \in 1..Len(b) /\ \A y \in 1..x : Alike(a[y], b[y])
    BY <1>1, <2>1, KeptLevel
  <2> QED BY <1>1, <2>2, StandsBelow
<1>2. Kept(u, s)
  BY KeptBack
<1> QED
  BY <1>1, <1>2

\* The frames below the first n are those of s.
LEMMA StandsUpto ==
  ASSUME NEW s, NEW u, NEW n \in Nat, Len(s) \in Nat, Len(u) \in Nat, n <= Len(s), n <= Len(u), Upto(s, u, n)
  PROVE  /\ \A x \in 1..n : Stands(s, u, x) /\ Stands(u, s, x) /\ u[x] = s[x]
         /\ TreeOf(u, n + 1) = TreeOf(s, n + 1) /\ Outside(u, n + 1) = Outside(s, n + 1)
         /\ Level(u, n) = Level(s, n)
<1>1. \A x \in 1..n : u[x] = s[x]
  BY DEF Upto
<1>2. \A x \in 1..n : Stands(s, u, x) /\ Stands(u, s, x)
  <2> TAKE x \in 1..n
  <2>1. x \in 1..Len(s) /\ x \in 1..Len(u) /\ \A y \in 1..x : y \in 1..n
    OBVIOUS
  <2>2. \A y \in 1..x : Alike(s[y], u[y])
    BY <1>1, <2>1 DEF Alike
  <2> QED BY <2>1, <2>2, StandsBelow, StandsBack
<1>3. Among(u, n) = Among(s, n)
  BY <1>1, AmongSame
<1>4. Level(u, n) = Level(s, n)
  BY LevelTop
<1>5. (n + 1) - 1 = n /\ (n + 1 > 1 => n \in 1..n)
  OBVIOUS
<1>6. TreeOf(u, n + 1) = TreeOf(s, n + 1)
  BY <1>3, <1>5 DEF TreeOf
<1>7. Outside(u, n + 1) = Outside(s, n + 1)
  BY <1>1, <1>4, <1>5 DEF Outside
<1> QED
  BY <1>1, <1>2, <1>4, <1>6, <1>7
-----------------------------------------------------------------------------
LEMMA InTreeMove ==
  ASSUME NEW s, NEW u, NEW t, NEW j, NEW P, InTree(s, t, j, P),
         \A x \in 1..Len(s) : s[x].op = "treeList" /\ TreeOf(s, x) >= t => Stands(s, u, x)
  PROVE  InTree(u, t, j, P)
<1> SUFFICES ASSUME NEW b \in j..P, Opens(b), input[b].typ = "right", Steady(b, P)
             PROVE  \E x \in 1..Len(u) : u[x].op = "treeList" /\ TreeOf(u, x) >= t /\ Depth(b) >= Level(u, x)
  BY DEF InTree
<1>1. PICK x \in 1..Len(s) : s[x].op = "treeList" /\ TreeOf(s, x) >= t /\ Depth(b) >= Level(s, x)
  BY DEF InTree
<1>2. Stands(s, u, x)
  BY <1>1
<1> QED
  BY <1>1, <1>2 DEF Stands

LEMMA AroundMove ==
  ASSUME NEW s, NEW u, NEW t, NEW i, NEW j, Around(s, t, i, j),
         \A x \in 1..Len(u) : Bounds(u, x, t, i) => Stands(u, s, x) \/ Depth(j) <= Outside(u, x)
  PROVE  Around(u, t, i, j)
<1> SUFFICES ASSUME NEW x \in 1..Len(u), Bounds(u, x, t, i), Stands(u, s, x) PROVE Depth(j) <= Outside(u, x)
  BY DEF Around
<1>1. x \in 1..Len(s) /\ Bounds(s, x, t, i) /\ Outside(s, x) = Outside(u, x)
  BY DEF Stands, Bounds
<1> QED
  BY <1>1 DEF Around

LEMMA BoundsCount ==
  ASSUME NEW s, NEW x, NEW t, NEW i, Bounds(s, x, t, i)
  PROVE  Counts(s[x])
BY DEF Bounds, Counts

LEMMA VarsKept ==
  ASSUME NEW s, NEW u, Len(s) \in Nat, Len(u) \in Nat, Kept(s, u), NEW ts, NEW us, SameVars(ts, us), NEW P, VarsAt(s, ts, P)
  PROVE  VarsAt(u, us, P)
<1>1. /\ \A x \in 1..Len(s) : s[x].op = "treeList" => Stands(s, u, x)
      /\ \A x \in 1..Len(u) : Counts(u[x]) => Stands(u, s, x)
  BY StandsKept DEF Counts
<1>2. ASSUME NEW t, NEW i, NEW name, Sees(s, t, i, name, P) PROVE Sees(u, t, i, name, P)
  <2>1. PICK j \in 1..P : Declared(j, name) /\ Steady(j, P) /\ InTree(s, t, j, P) /\ Around(s, t, i, j)
    BY <1>2 DEF Sees
  <2>2. InTree(u, t, j, P)
    BY <1>1, <2>1, InTreeMove
  <2>3. Around(u, t, i, j)
    BY <1>1, <2>1, AroundMove, BoundsCount
  <2> QED BY <2>1, <2>2, <2>3 DEF Sees
<1> QED
  BY <1>2 DEF VarsAt, SameVars

\* Marks where the marked frames stay and each tree has its variables.
LEMMA MarksStand ==
  ASSUME NEW s, NEW u, NEW ts, NEW us, Marks(s, ts),
         \A x \in 1..Len(u) : u[x].op \in ControlOp =>
           Stands(u, s, x) /\ us[TreeOf(u, x)].vars = ts[TreeOf(u, x)].vars
  PROVE  Marks(u, us)
<1>1. ASSUME NEW x \in 1..Len(u), u[x].op \in ControlOp PROVE u[x].mark <= Len(us[TreeOf(u, x)].vars)
  BY <1>1 DEF Marks, Stands
<1>2. ASSUME NEW x \in 1..Len(u), NEW y \in 1..Len(u), x < y, u[x].op \in ControlOp, u[y].op \in ControlOp, TreeOf(u, x) = TreeOf(u, y)
      PROVE  u[x].mark <= u[y].mark
  <2>1. Stands(u, s, x) /\ Stands(u, s, y)
    BY <1>2
  <2> QED BY <1>2, <2>1 DEF Marks, Stands
<1> QED
  BY <1>1, <1>2 DEF Marks

\* The tree of a frame is one of those in progress.
LEMMA TreeOfIn ==
  ASSUME NEW s, StackInv(s), NEW x \in 1..Len(s)
  PROVE  /\ TreeOf(s, x) \in 1..TreesIn(s) + 1
         /\ s[x].op \in Tree => TreeOf(s, x) <= TreesIn(s)
         /\ TreesIn(s) \in Nat
<1>1. Len(s) \in Nat /\ x \in Nat /\ x - 1 \in Nat /\ x - 1 <= Len(s) /\ x <= Len(s) /\ (x - 1) + 1 = x
  BY TopFacts
<1>2. /\ Among(s, x - 1) \in Nat /\ Among(s, x - 1) <= Among(s, Len(s)) /\ Among(s, Len(s)) \in Nat
      /\ Among(s, x) \in Nat /\ Among(s, x) <= Among(s, Len(s))
  BY <1>1, Monotone
<1>3. s[(x - 1) + 1].op \in Tree => Among(s, (x - 1) + 1) = Among(s, x - 1) + 1
  BY <1>1, AmongNext
<1>4. TreesIn(s) = Among(s, Len(s))
  BY DEF TreesIn, Among
<1> QED
  BY <1>1, <1>2, <1>3, <1>4 DEF TreeOf

LEMMA MarksKept ==
  ASSUME NEW s, NEW u, StackInv(s), StackInv(u), Kept(s, u), NEW ts, NEW us, Len(ts) = TreesIn(s) + 1,
         SameVars(ts, us), Marks(s, ts)
  PROVE  Marks(u, us)
<1>1. Len(s) \in Nat /\ Len(u) \in Nat
  BY TopFacts
<1>2. ASSUME NEW x \in 1..Len(u), u[x].op \in ControlOp
      PROVE  Stands(u, s, x) /\ us[TreeOf(u, x)].vars = ts[TreeOf(u, x)].vars
  <2>1. Stands(u, s, x)
    BY <1>1, <1>2, StandsKept DEF Counts
  <2>2. TreeOf(u, x) \in 1..TreesIn(s) + 1
    BY <2>1, TreeOfIn DEF Stands
  <2> QED BY <2>1, <2>2 DEF SameVars
<1> QED
  BY <1>2, MarksStand
-----------------------------------------------------------------------------
\* Uses of variables: a token that is none, or one that is defined.
LEMMA ScopedOn ==
  ASSUME NEW p, NEW q, Follows(p, q), Scoped(p),
         input[q].typ = "variable" /\ input[q].name # "$" /\ ~Declares(q) =>
           \E j \in 1..q : Declared(j, input[q].name) /\ InScope(j, q)
  PROVE  Scoped(q)
<1>1. p \in Nat /\ q \in Nat /\ p < q /\ \A m \in p + 1..q - 1 : IsSpace(m)
  BY Between
<1> SUFFICES ASSUME NEW k \in 1..q, input[k].typ = "variable", input[k].name # "$", ~Declares(k)
             PROVE  \E j \in 1..k : Declared(j, input[k].name) /\ InScope(j, k)
  BY DEF Scoped
<1>2. k \in 1..p \/ k = q \/ k \in p + 1..q - 1
  BY <1>1
<1>3. CASE k \in 1..p
  BY <1>3 DEF Scoped
<1>4. CASE k \in p + 1..q - 1
  BY <1>1, <1>4 DEF IsSpace
<1>5. CASE k = q
  BY <1>5
<1> QED
  BY <1>2, <1>3, <1>4, <1>5

LEMMA ScopedOther ==
  ASSUME NEW p, NEW q, Follows(p, q), Scoped(p), input[q].typ # "variable"
  PROVE  Scoped(q)
BY ScopedOn

\* A variable of the innermost tree is in the scope of its declaration.
LEMMA InScopeHere ==
  ASSUME NEW s, StackInv(s), NEW t, t = TreesIn(s) + 1, NEW p, NEW q, Follows(p, q), ~Opens(q), input[q].typ # "end",
         NEW i, NEW name, Sees(s, t, i, name, p)
  PROVE  \E j \in 1..q : Declared(j, name) /\ InScope(j, q)
<1>1. Lull(p, q) /\ p \in Nat /\ q \in Nat /\ p < q /\ \A m \in Nat : Depth(m) \in Int
  BY LullStep, Between, DepthNext
<1>2. Sees(s, t, i, name, q)
  BY <1>1, SeesLull
<1>3. PICK j \in 1..q : Declared(j, name) /\ Steady(j, q) /\ InTree(s, t, j, q)
  BY <1>2 DEF Sees
<1>4. \A m \in j..q : Depth(m) >= Depth(j)
  BY <1>3 DEF Steady
<1>5. ASSUME NEW b \in j..q, Opens(b), input[b].typ = "right" PROVE \E m \in b..q : Depth(m) < Depth(b)
  <2>1. ~Steady(b, q)
    <3> SUFFICES ASSUME Steady(b, q) PROVE FALSE
      OBVIOUS
    <3>1. PICK x \in 1..Len(s) : s[x].op = "treeList" /\ TreeOf(s, x) >= t
      BY <1>3, <1>5 DEF InTree
    <3>2. TreeOf(s, x) <= TreesIn(s) /\ TreeOf(s, x) \in Nat /\ TreesIn(s) \in Nat
      BY <3>1, TreeOfIn DEF Tree
    <3> QED BY <3>1, <3>2
  <2>2. PICK m \in b..q : ~(Depth(m) >= Depth(b))
    BY <2>1 DEF Steady
  <2>3. m \in Nat /\ b \in Nat
    BY <1>1
  <2>4. Depth(m) \in Int /\ Depth(b) \in Int
    BY <1>1, <2>3
  <2> QED BY <2>2, <2>4
<1> QED
  BY <1>3, <1>4, <1>5 DEF InScope
-----------------------------------------------------------------------------
\* A slight step keeps what is in scope.
LEMMA SpotSettled ==
  ASSUME NEW op, NEW kind, NEW p, NEW P, Settled(op, kind), Spot(op, kind, p, P)
  PROVE  P = p
BY DEF Spot, Settled, Unsettled

LEMMA SpotHere ==
  ASSUME NEW op, NEW kind, NEW p \in Nat, op # "blockPipe"
  PROVE  Spot(op, kind, p, p) /\ p \in 0..p
BY DEF Spot

LEMMA ScopeFacts ==
  ASSUME AtWork, ScopeNow
  PROVE  /\ Last(stack) = Top /\ Last(trees) = Cur /\ Reached(taken) \in Nat
         /\ Len(stack) \in Nat /\ Len(stack') \in Nat /\ StackInv(stack) /\ StackInv(stack')
         /\ Len(trees) = TreesIn(stack) + 1 /\ TreesIn(stack) \in Nat /\ Len(trees) \in Nat
         /\ Marks(stack, trees) /\ Scoped(Reached(taken)) /\ Bare(Top.op, Cur.vars)
         /\ \E P \in 0..Reached(taken) : Spot(Top.op, ret.kind, Reached(taken), P) /\ VarsAt(stack, trees, P)
         /\ Settled(Top.op, ret.kind) => VarsAt(stack, trees, Reached(taken))
<1> USE DEF AtWork
<1>1. /\ Last(stack) = Top /\ Last(trees) = Cur /\ StackInv(stack) /\ Len(trees) = TreesIn(stack) + 1
      /\ Tokens(taken, HeldAt(Top), Cur.token, Cur.peekCount, read)
  BY CurFacts DEF TokensInv, Cur
<1>2. Reached(taken) \in Nat
  BY <1>1, ReachedFacts DEF Working
<1>3. /\ Len(stack) \in Nat /\ Len(stack') \in Nat /\ StackInv(stack') /\ TreesIn(stack) \in Nat
  BY <1>1, LevelFacts, TopFacts
<1>4. /\ Marks(stack, trees) /\ Scoped(Reached(taken)) /\ Bare(Top.op, Cur.vars)
      /\ \E P \in 0..Reached(taken) : Spot(Top.op, ret.kind, Reached(taken), P) /\ VarsAt(stack, trees, P)
  BY <1>1 DEF ScopeNow, Scope
<1>5. Settled(Top.op, ret.kind) => VarsAt(stack, trees, Reached(taken))
  BY <1>4, SpotSettled
<1> QED
  BY <1>1, <1>2, <1>3, <1>4, <1>5

\* A {block} is not called for but by the delimiter of its action.
LEMMA NotBlockPipe ==
  ASSUME AtWork, NestThen, Kept(stack, stack'), Settled(Top.op, ret.kind), Depth(Reached(taken')) = Depth(Reached(taken))
  PROVE  Last(stack').op # "blockPipe"
<1>1. /\ Depth(Reached(taken)) = Level(stack, Len(stack)) + Adj(Top.op, ret.kind)
      /\ Depth(Reached(taken')) = Level(stack', Len(stack')) + Adj(Last(stack').op, ret'.kind)
  BY DEF AtWork, NestNow, NestThen, Nest, Top
<1>2. Level(stack', Len(stack')) = Level(stack, Len(stack)) /\ Level(stack, Len(stack)) \in Nat
  BY LevelFacts DEF AtWork
<1>3. Adj(Top.op, ret.kind) = 0
  BY DEF Adj, Settled
<1>4. Last(stack').op = "blockPipe" => Adj(Last(stack').op, ret'.kind) = 1
  BY DEF Adj, Closing, Closers
<1> QED
  BY <1>1, <1>2, <1>3, <1>4

LEMMA SlightScoped ==
  ASSUME AtWork, ScopeNow, Slight, Used, ~Opens(token.at), token.typ # "end"
  PROVE  Scoped(token.at)
<1> USE DEF AtWork
<1> DEFINE p == Reached(taken)
           q == token.at
<1>1. Follows(p, q) /\ Scoped(p) /\ input[q].typ = token.typ /\ input[q].name = token.name /\ taken' # taken
  BY ScopeFacts, ReachedAppend DEF Used
<1>2. CASE token.typ # "variable"
  BY <1>1, <1>2, ScopedOther
<1>3. CASE token.typ = "variable"
  <2>1. Defined /\ VarsAt(stack, trees, p) /\ StackInv(stack) /\ Len(trees) = TreesIn(stack) + 1 /\ Len(trees) \in Nat
    BY <1>1, <1>3, ScopeFacts DEF Slight
  <2>2. PICK i \in DOMAIN Cur.vars : Cur.vars[i] = token.name
    BY <1>3, <2>1 DEF Defined
  <2>3. Cur = trees[Len(trees)] /\ DOMAIN Cur.vars = 1..Len(Cur.vars) /\ Len(trees) > 0
    <3>1. Cur = trees[Len(trees)] /\ IsSeq(Cur.vars) /\ Len(trees) > 0
      BY CurFacts DEF IsTree
    <3> QED BY <3>1 DEF IsSeq
  <2>4. token.name = "$" \/ Sees(stack, Len(trees), i, token.name, p)
    BY <2>1, <2>2, <2>3 DEF VarsAt
  <2>5. input[q].name # "$" => \E j \in 1..q : Declared(j, input[q].name) /\ InScope(j, q)
    <3> HIDE DEF p, q
    <3>1. input[q].name # "$" => Sees(stack, Len(trees), i, input[q].name, p)
      BY <1>1, <2>4
    <3>2. ~Opens(q) /\ input[q].typ # "end"
      BY <1>1, <1>3 DEF q
    <3> QED BY <1>1, <2>1, <3>1, <3>2, InScopeHere
  <2> QED BY <1>1, <2>5, ScopedOn
<1> QED
  BY <1>2, <1>3

LEMMA SlightScope ==
  ASSUME AtWork, ScopeNow, NestThen, Slight
  PROVE  ScopeThen
<1> USE DEF AtWork
<1> DEFINE p == Reached(taken)
           q == token.at
           op == Last(stack').op
<1>1. /\ Last(stack) = Top /\ Last(trees) = Cur /\ p \in Nat /\ Len(stack) \in Nat /\ Len(stack') \in Nat
      /\ StackInv(stack) /\ StackInv(stack') /\ Len(trees) = TreesIn(stack) + 1 /\ Len(trees) \in Nat /\ Len(trees) > 0
      /\ Marks(stack, trees) /\ Scoped(p) /\ Bare(Top.op, Cur.vars)
      /\ Settled(Top.op, ret.kind) => VarsAt(stack, trees, p)
  BY ScopeFacts, CurFacts
<1>2. Kept(stack, stack') /\ SameVars(trees, trees')
  BY DEF Slight
<1>3. \A P : VarsAt(stack, trees, P) => VarsAt(stack', trees', P)
  BY <1>1, <1>2, VarsKept
<1>4. Marks(stack', trees')
  BY <1>1, <1>2, MarksKept
<1>5. Bare(op, Last(trees').vars)
  <2>1. Last(trees').vars = Cur.vars
    BY <1>1, <1>2 DEF SameVars, Last
  <2>2. op \in {"defineName", "defineDelim"} => Top.op \in {"defineName", "defineDelim"}
    BY DEF Slight
  <2> QED BY <1>1, <2>1, <2>2 DEF Bare
<1>6. ASSUME NEW r, r = Reached(taken'), Scoped(r), NEW P \in 0..r, Spot(op, ret'.kind, r, P), VarsAt(stack, trees, P)
      PROVE  ScopeThen
  BY <1>3, <1>4, <1>5, <1>6 DEF ScopeThen, Scope
<1>7. Used => /\ Follows(p, q) /\ Reached(taken') = q /\ input[q].typ = token.typ /\ q \in Nat /\ p < q /\ taken' # taken
              /\ Depth(p) \in Int
  BY ReachedAppend, Between DEF Used
<1>8. CASE Settled(Top.op, ret.kind) /\ Tame
  <2>1. VarsAt(stack, trees, p)
    BY <1>1, <1>8
  <2>2. CASE taken' = taken
    <3>1. op # "blockPipe"
      BY <1>2, <1>8, <2>2, NotBlockPipe
    <3>2. Spot(op, ret'.kind, p, p) /\ p \in 0..p
      BY <1>1, <3>1, SpotHere
    <3> QED BY <1>1, <1>6, <2>1, <2>2, <3>2
  <2>3. CASE taken' # taken
    <3>1. Used /\ ~Opens(q) /\ token.typ # "end"
      BY <1>8, <2>3 DEF Tame
    <3>2. Lull(p, q) /\ Depth(q) = Depth(p)
      BY <1>7, <3>1, LullStep
    <3>3. op # "blockPipe"
      BY <1>2, <1>7, <1>8, <3>1, <3>2, NotBlockPipe
    <3>4. Spot(op, ret'.kind, q, q) /\ q \in 0..q
      BY <1>7, <3>1, <3>3, SpotHere
    <3>5. Scoped(q)
      BY <3>1, SlightScoped
    <3>6. VarsAt(stack, trees, q)
      BY <2>1, <3>2, VarsLull
    <3> QED BY <1>6, <1>7, <3>1, <3>4, <3>5, <3>6
  <2> QED BY <2>2, <2>3
<1>9. CASE Unsettled(Top.op, ret.kind) /\ Tame /\ Unsettled(op, ret'.kind)
  <2>1. PICK P \in 0..p : Spot(Top.op, ret.kind, p, P) /\ VarsAt(stack, trees, P)
    BY ScopeFacts
  <2>2. P \in Nat /\ P <= p /\ \A m \in P + 1..p : Depth(m) = Depth(p) /\ ~Opens(m)
    <3>1. Top.op # "blockPipe"
      BY <1>9 DEF Unsettled, Closing, Closers
    <3> QED BY <1>1, <2>1, <3>1 DEF Spot
  <2>3. CASE taken' = taken
    <3>1. Spot(op, ret'.kind, p, P)
      BY <1>9, <2>2 DEF Spot
    <3> QED BY <1>1, <1>6, <2>1, <2>3, <3>1
  <2>4. CASE taken' # taken
    <3>1. Used /\ ~Opens(q) /\ token.typ # "end"
      BY <1>9, <2>4 DEF Tame
    <3>2. Lull(p, q) /\ Depth(q) = Depth(p)
      BY <1>7, <3>1, LullStep
    <3>3. \A m \in P + 1..q : Depth(m) = Depth(q) /\ ~Opens(m)
      <4> HIDE DEF p, q
      <4>1. \A m \in P + 1..q : m \in P + 1..p \/ m \in p + 1..q
        BY <1>1, <2>2, <3>2 DEF Lull
      <4> QED BY <2>2, <3>2, <4>1 DEF Lull
    <3>4. Spot(op, ret'.kind, q, P) /\ P \in 0..q
      <4> HIDE DEF p, q
      <4>1. P <= q /\ P \in 0..q
        BY <1>1, <1>7, <2>2, <3>1
      <4> QED BY <1>9, <2>2, <3>3, <4>1 DEF Spot, op
    <3>5. Scoped(q)
      BY <3>1, SlightScoped
    <3> QED BY <1>6, <1>7, <2>1, <3>1, <3>4, <3>5
  <2> QED BY <2>3, <2>4
<1>10. CASE Settled(Top.op, ret.kind) /\ Used /\ token.typ = "end" /\ ~Opens(q) /\ op = "end"
  <2>1. VarsAt(stack, trees, p) /\ Follows(p, q)
    BY <1>1, <1>7, <1>10
  <2>2. VarsAt(stack, trees, q - 1)
    BY <2>1, LullStep, VarsLull
  <2>3. q - 1 \in 0..q /\ q - 1 \in Nat /\ q - 1 <= q /\ \A m \in (q - 1) + 1..q : m = q
    BY <1>1, <1>7, <1>10
  <2>4. Spot(op, ret'.kind, q, q - 1)
    BY <1>10, <2>3 DEF Spot, Unsettled, Closing
  <2>5. Scoped(q)
    BY <1>1, <1>7, <1>10, ScopedOther
  <2> QED BY <1>6, <1>7, <1>10, <2>2, <2>3, <2>4, <2>5
<1>11. CASE Settled(Top.op, ret.kind) /\ Used /\ token.typ = "right" /\ Opens(q) /\ op = "blockPipe"
  <2>1. VarsAt(stack, trees, p) /\ Follows(p, q)
    BY <1>1, <1>7, <1>11
  <2>2. Lull(p, q - 1) /\ Depth(q) = Depth(p) + OpeningAt(q) - EndingAt(q)
    BY <2>1, LullStep, Between
  <2>3. Depth(q) = Depth(p) + 1
    BY <1>7, <1>11, <2>2 DEF OpeningAt, EndingAt
  <2>4. p <= q /\ p < q /\ p \in 0..q /\ p \in Nat
    BY <1>1, <1>7, <1>11
  <2>5. Spot(op, ret'.kind, q, p)
    BY <1>7, <1>11, <2>2, <2>3, <2>4 DEF Spot
  <2>6. Scoped(q)
    BY <1>1, <1>7, <1>11, ScopedOther
  <2> QED BY <1>6, <1>7, <1>11, <2>1, <2>4, <2>5, <2>6
<1> QED
  BY <1>8, <1>9, <1>10, <1>11 DEF Slight
-----------------------------------------------------------------------------
\* What was seen from s is seen from u, whose frames outside stand where those of s do.
LEMMA SeesNew ==
  ASSUME NEW s, NEW u, Len(u) \in Nat, NEW t, NEW i, NEW name, NEW P \in Nat, Sees(s, t, i, name, P),
         \A x \in 1..Len(s) : s[x].op = "treeList" /\ TreeOf(s, x) >= t => Stands(s, u, x),
         \A x \in 1..Len(u) : Bounds(u, x, t, i) => Stands(u, s, x) \/ Depth(P) <= Outside(u, x)
  PROVE  Sees(u, t, i, name, P)
<1>1. PICK j \in 1..P : Declared(j, name) /\ Steady(j, P) /\ InTree(s, t, j, P) /\ Around(s, t, i, j)
  BY DEF Sees
<1>2. InTree(u, t, j, P)
  BY <1>1, InTreeMove
<1>3. Depth(j) \in Int /\ Depth(P) \in Int /\ Depth(P) >= Depth(j)
  <2>1. j \in Nat /\ P \in j..P
    BY <1>1
  <2>2. Depth(j) \in Int /\ Depth(P) \in Int
    BY <2>1, DepthNext
  <2> QED BY <1>1, <2>1, <2>2 DEF Steady
<1>4. ASSUME NEW x \in 1..Len(u), Depth(P) <= Outside(u, x) PROVE Depth(j) <= Outside(u, x)
  <2>1. x - 1 \in Nat
    OBVIOUS
  <2>2. Level(u, x - 1) \in Nat
    BY <2>1, LevelNext
  <2>3. Outside(u, x) \in Int
    BY <2>2 DEF Outside
  <2> QED BY <1>3, <1>4, <2>3
<1>5. Around(u, t, i, j)
  <2>1. \A x \in 1..Len(u) : Bounds(u, x, t, i) => Stands(u, s, x) \/ Depth(j) <= Outside(u, x)
    BY <1>4
  <2> QED BY <1>1, <2>1, AroundMove
<1> QED
  BY <1>1, <1>2, <1>5 DEF Sees

\* The text goes one deeper.
LEMMA SeesRise ==
  ASSUME NEW u, NEW t, NEW i, NEW name, NEW P \in Nat, NEW q \in Nat, P < q, Lull(P, q - 1), Depth(q) = Depth(P) + 1,
         input[q].typ = "right" =>
           \E x \in 1..Len(u) : u[x].op = "treeList" /\ TreeOf(u, x) >= t /\ Depth(q) >= Level(u, x),
         Sees(u, t, i, name, P)
  PROVE  Sees(u, t, i, name, q)
<1>1. Sees(u, t, i, name, q - 1)
  BY SeesLull
<1>2. PICK j \in 1..q - 1 : Declared(j, name) /\ Steady(j, q - 1) /\ InTree(u, t, j, q - 1) /\ Around(u, t, i, j)
  BY <1>1 DEF Sees
<1>3. j \in 1..q /\ j \in Nat /\ q - 1 \in j..q - 1
  BY <1>2
<1>4. Depth(q - 1) = Depth(P)
  <2>1. q - 1 = P \/ q - 1 \in P + 1..q - 1
    OBVIOUS
  <2> QED BY <2>1 DEF Lull
<1>5. Depth(P) \in Int /\ Depth(j) \in Int /\ Depth(P) >= Depth(j)
  <2>1. Depth(P) \in Int /\ Depth(j) \in Int
    BY <1>3, DepthNext
  <2> QED BY <1>2, <1>3, <1>4, <2>1 DEF Steady
<1>6. \A m \in j..q : m = q \/ m \in j..q - 1
  BY <1>3
<1>7. Steady(j, q)
  <2>1. Depth(q) >= Depth(j)
    BY <1>5
  <2> QED BY <1>2, <1>6, <2>1 DEF Steady
<1>8. InTree(u, t, j, q)
  <2> SUFFICES ASSUME NEW b \in j..q, Opens(b), input[b].typ = "right", Steady(b, q)
               PROVE  \E x \in 1..Len(u) : u[x].op = "treeList" /\ TreeOf(u, x) >= t /\ Depth(b) >= Level(u, x)
    BY DEF InTree
  <2>1. CASE b = q
    BY <2>1
  <2>2. CASE b \in j..q - 1
    <3>1. Steady(b, q - 1)
      <4>1. \A m \in b..q - 1 : m \in b..q
        BY <1>3, <2>2
      <4> QED BY <4>1 DEF Steady
    <3> QED BY <1>2, <2>2, <3>1 DEF InTree
  <2> QED BY <1>6, <2>1, <2>2
<1> QED
  BY <1>2, <1>3, <1>7, <1>8 DEF Sees

\* New frames in place of the top one.
LEMMA SeesGrow ==
  ASSUME NEW s, StackInv(s), NEW u, Len(u) \in Nat, Len(u) >= Len(s), Upto(s, u, Len(s) - 1), Last(s).op # "treeList",
         NEW t, NEW i, NEW name, NEW P \in Nat, Sees(s, t, i, name, P),
         \A x \in Len(s)..Len(u) : Bounds(u, x, t, i) => Stands(u, s, x) \/ Depth(P) <= Outside(u, x)
  PROVE  Sees(u, t, i, name, P)
<1>1. Len(s) \in Nat /\ Len(s) > 0 /\ Last(s) = s[Len(s)] /\ Len(s) - 1 \in Nat /\ Len(s) - 1 <= Len(s) /\ Len(s) - 1 <= Len(u)
  BY TopFacts
<1>2. \A x \in 1..Len(s) - 1 : Stands(s, u, x) /\ Stands(u, s, x)
  BY <1>1, StandsUpto
<1>3. \A x \in 1..Len(s) : x = Len(s) \/ x \in 1..Len(s) - 1
  BY <1>1
<1>4. \A x \in 1..Len(u) : x \in Len(s)..Len(u) \/ x \in 1..Len(s) - 1
  BY <1>1
<1>5. \A x \in 1..Len(s) : s[x].op = "treeList" /\ TreeOf(s, x) >= t => Stands(s, u, x)
  BY <1>1, <1>2, <1>3
<1>6. \A x \in 1..Len(u) : Bounds(u, x, t, i) => Stands(u, s, x) \/ Depth(P) <= Outside(u, x)
  BY <1>2, <1>4
<1> QED
  BY <1>5, <1>6, SeesNew

LEMMA MarksGrow ==
  ASSUME NEW s, StackInv(s), NEW u, Len(u) \in Nat, Len(u) >= Len(s) - 1, Upto(s, u, Len(s) - 1),
         \A x \in Len(s)..Len(u) : u[x].op \notin ControlOp,
         NEW ts, NEW us, Len(ts) = TreesIn(s) + 1, Marks(s, ts), \A t \in 1..Len(ts) : us[t].vars = ts[t].vars
  PROVE  Marks(u, us)
<1>1. Len(s) \in Nat /\ Len(s) > 0 /\ Len(s) - 1 \in Nat /\ Len(s) - 1 <= Len(s) /\ Len(s) - 1 <= Len(u)
  BY TopFacts
<1>2. \A x \in 1..Len(s) - 1 : Stands(u, s, x)
  BY <1>1, StandsUpto
<1>3. \A x \in 1..Len(u) : x \in Len(s)..Len(u) \/ x \in 1..Len(s) - 1
  BY <1>1
<1>4. ASSUME NEW x \in 1..Len(u), u[x].op \in ControlOp
      PROVE  Stands(u, s, x) /\ us[TreeOf(u, x)].vars = ts[TreeOf(u, x)].vars
  <2>1. Stands(u, s, x)
    BY <1>2, <1>3, <1>4
  <2>2. TreeOf(u, x) \in 1..TreesIn(s) + 1
    BY <2>1, TreeOfIn DEF Stands
  <2> QED BY <2>1, <2>2
<1> QED
  BY <1>4, MarksStand

\* A new control on top remembers the variables there are.
LEMMA MarksNew ==
  ASSUME NEW s, StackInv(s), NEW u, Len(u) \in Nat, \A x \in 1..Len(u) - 1 : u[x].op \in ControlOp => Stands(u, s, x),
         NEW ts, NEW us, Len(ts) = TreesIn(s) + 1, Marks(s, ts), SameVars(ts, us),
         u[Len(u)].mark = Len(ts[Len(ts)].vars), Len(ts[Len(ts)].vars) \in Nat, TreeOf(u, Len(u)) = Len(ts)
  PROVE  Marks(u, us)
<1> DEFINE l == Len(u)
           n == Len(ts)
<1>1. TreesIn(s) \in Nat /\ n \in Nat /\ n > 0 /\ l \in Nat
  BY TopFacts
<1>2. ASSUME NEW x \in 1..l - 1, u[x].op \in ControlOp
      PROVE  Stands(u, s, x) /\ TreeOf(u, x) \in 1..n /\ us[TreeOf(u, x)].vars = ts[TreeOf(u, x)].vars
  <2>1. Stands(u, s, x)
    BY <1>2
  <2>2. TreeOf(u, x) \in 1..TreesIn(s) + 1
    BY <2>1, TreeOfIn DEF Stands
  <2> QED BY <2>1, <2>2 DEF SameVars
<1>3. us[n].vars = ts[n].vars
  BY <1>1 DEF SameVars
<1>4. u[l].mark = Len(us[n].vars) /\ TreeOf(u, l) = n
  BY <1>3
<1> HIDE DEF l, n
<1>5. ASSUME NEW x \in 1..l, u[x].op \in ControlOp PROVE u[x].mark <= Len(us[TreeOf(u, x)].vars)
  <2>1. CASE x = l
    <3>1. Len(us[n].vars) \in Nat
      BY <1>3 DEF n
    <3> QED BY <1>4, <2>1, <3>1
  <2>2. CASE x \in 1..l - 1
    BY <1>2, <1>5, <2>2 DEF Marks, Stands
  <2> QED BY <1>1, <2>1, <2>2
<1>6. ASSUME NEW x \in 1..l, NEW y \in 1..l, x < y, u[x].op \in ControlOp, u[y].op \in ControlOp, TreeOf(u, x) = TreeOf(u, y)
      PROVE  u[x].mark <= u[y].mark
  <2>1. x \in 1..l - 1
    BY <1>1, <1>6
  <2>2. Stands(u, s, x)
    BY <1>2, <1>6, <2>1
  <2>3. CASE y = l
    BY <1>4, <1>5, <1>6, <2>3
  <2>4. CASE y \in 1..l - 1
    <3>1. Stands(u, s, y)
      BY <1>2, <1>6, <2>4
    <3> QED BY <1>6, <2>2, <3>1 DEF Marks, Stands
  <2> QED BY <1>1, <2>3, <2>4
<1> QED
  BY <1>5, <1>6 DEF Marks, l

LEMMA ScopeIntro ==
  ASSUME NEW r, r = Reached(taken'), r \in Nat, NEW P \in Nat, P <= r, Spot(Last(stack').op, ret'.kind, r, P),
         VarsAt(stack', trees', P), Marks(stack', trees'), Scoped(r), Last(stack').op \notin {"defineName", "defineDelim"}
  PROVE  ScopeThen
<1>1. P \in 0..r
  OBVIOUS
<1>2. Bare(Last(stack').op, Last(trees').vars)
  BY DEF Bare
<1> QED
  BY <1>1, <1>2 DEF ScopeThen, Scope
-----------------------------------------------------------------------------
\* The steps that open a text or a control.
LEMMA FrontFacts ==
  ASSUME NEW S, NEW s \in Seq(S), Len(s) \in Nat, Len(s) > 0
  PROVE  Front(s) \in Seq(S) /\ Len(Front(s)) = Len(s) - 1 /\ \A i \in 1..Len(s) - 1 : Front(s)[i] = s[i]
<1> DEFINE k == Len(s) - 1
<1>1. k \in Nat /\ k <= Len(s)
  OBVIOUS
<1> HIDE DEF k
<1>2. SubSeq(s, 1, k) \in Seq(S)
  BY <1>1
<1>3. Len(SubSeq(s, 1, k)) = k /\ \A i \in 1..k : SubSeq(s, 1, k)[i] = s[i]
  BY <1>1
<1> QED
  BY <1>2, <1>3 DEF Front, k

LEMMA CalledAt ==
  ASSUME NEW s, StackInv(s), NEW g \in FrameRec, NEW f \in FrameRec, NEW u, u = Calling(s, g, f)
  PROVE  /\ Len(u) = Len(s) + 1 /\ Len(u) \in Nat /\ u[Len(s)] = g /\ u[Len(s) + 1] = f /\ Last(u) = f
         /\ Upto(s, u, Len(s) - 1)
<1>1. s \in Seq(FrameRec) /\ Len(s) \in Nat /\ Len(s) > 0
  BY TopFacts DEF StackInv
<1>2. Front(s) \in Seq(FrameRec) /\ Len(Front(s)) = Len(s) - 1 /\ \A i \in 1..Len(s) - 1 : Front(s)[i] = s[i]
  BY <1>1, FrontFacts
<1>3. u = Front(s) \o <<g, f>>
  BY DEF Calling
<1> DEFINE w == Front(s)
<1>4. w \in Seq(FrameRec) /\ Len(w) = Len(s) - 1 /\ (\A i \in 1..Len(s) - 1 : w[i] = s[i]) /\ u = w \o <<g, f>>
  BY <1>2, <1>3
<1> HIDE DEF w
<1>5. Len(u) = Len(w) + 2 /\ (\A i \in 1..Len(w) : u[i] = w[i]) /\ u[Len(w) + 1] = g /\ u[Len(w) + 2] = f
  BY ONLY <1>4
<1>6. Len(u) = Len(s) + 1 /\ u[Len(s)] = g /\ u[Len(s) + 1] = f /\ \A i \in 1..Len(s) - 1 : u[i] = s[i]
  BY ONLY <1>1, <1>4, <1>5
<1> QED
  BY ONLY <1>1, <1>6 DEF Upto, Last

LEMMA ReplacedAt ==
  ASSUME NEW s, StackInv(s), NEW f \in FrameRec, NEW u, u = Append(Front(s), f)
  PROVE  Len(u) = Len(s) /\ u[Len(s)] = f /\ Last(u) = f /\ Upto(s, u, Len(s) - 1)
<1>1. s \in Seq(FrameRec) /\ Len(s) \in Nat /\ Len(s) > 0
  BY TopFacts DEF StackInv
<1>2. Front(s) \in Seq(FrameRec) /\ Len(Front(s)) = Len(s) - 1 /\ \A i \in 1..Len(s) - 1 : Front(s)[i] = s[i]
  BY <1>1, FrontFacts
<1>3. Len(u) = Len(s) /\ u[Len(s)] = f /\ \A i \in 1..Len(s) - 1 : u[i] = s[i]
  BY <1>1, <1>2
<1> QED
  BY <1>1, <1>3 DEF Upto, Last

LEMMA PoppedAt ==
  ASSUME NEW s, StackInv(s), Last(s).op \notin Root, NEW u, u = Front(s)
  PROVE  Len(u) = Len(s) - 1 /\ Len(u) > 0 /\ Upto(s, u, Len(s) - 1) /\ Last(u) = s[Len(s) - 1]
<1>1. s \in Seq(FrameRec) /\ Len(s) \in Nat /\ Len(s) > 1
  <2>1. Len(s) # 1
    BY TopFacts
  <2> QED BY <2>1, TopFacts DEF StackInv
<1>2. Len(u) = Len(s) - 1 /\ \A i \in 1..Len(s) - 1 : u[i] = s[i]
  BY <1>1 DEF Front
<1> QED
  BY <1>1, <1>2 DEF Upto, Last

\* The top of the stack: its level and its tree.
LEMMA TopLevel ==
  ASSUME NEW s, StackInv(s)
  PROVE  /\ Len(s) \in Nat /\ Len(s) > 0 /\ Len(s) - 1 \in Nat /\ Level(s, Len(s) - 1) \in Nat
         /\ Level(s, Len(s)) = Level(s, Len(s) - 1) + DeepAt(Last(s).op)
         /\ Outside(s, Len(s)) \in Nat /\ Level(s, Len(s) - 1) <= Outside(s, Len(s))
         /\ TreeOf(s, Len(s)) = IF Last(s).op \in Tree THEN TreesIn(s) ELSE TreesIn(s) + 1
<1> DEFINE k == Len(s) - 1
<1>1. Len(s) \in Nat /\ Len(s) > 0 /\ k \in Nat /\ k + 1 = Len(s) /\ Last(s) = s[k + 1] /\ TreesIn(s) \in Nat
  BY TopFacts
<1> HIDE DEF k
<1>2. Upto(s, s, k)
  BY DEF Upto
<1>3. Level(s, k) \in Nat /\ Level(s, k + 1) = Level(s, k) + DeepAt(s[k + 1].op)
  BY <1>1, <1>2, LevelTop
<1>4. /\ Among(s, k) \in Nat
      /\ s[k + 1].op \in Tree => Among(s, k + 1) = Among(s, k) + 1
      /\ s[k + 1].op \notin Tree => Among(s, k + 1) = Among(s, k)
  BY <1>1, AmongNext
<1>5. Among(s, k + 1) = TreesIn(s)
  BY <1>1 DEF Among, TreesIn
<1>6. TreeOf(s, k + 1) = IF Last(s).op \in Tree THEN TreesIn(s) ELSE TreesIn(s) + 1
  <2>1. TreeOf(s, k + 1) = Among(s, k) + 1
    BY <1>1 DEF TreeOf
  <2> QED BY <1>1, <1>4, <1>5, <2>1
<1>7. Outside(s, k + 1) \in Nat /\ Level(s, k) <= Outside(s, k + 1)
  <2>1. Outside(s, k + 1) = Level(s, k) \/ Outside(s, k + 1) = Level(s, k) + 1
    BY <1>1, <1>3 DEF Outside
  <2> QED BY <1>3, <2>1
<1> QED
  BY <1>1, <1>3, <1>6, <1>7 DEF k

LEMMA ExceptSeq ==
  ASSUME NEW s, IsSeq(s), NEW k, NEW x, NEW u, u = [s EXCEPT ![k] = x]
  PROVE  IsSeq(u)
<1> DEFINE S == {u[i] : i \in DOMAIN u}
           n == Len(s)
<1>1. n \in Nat /\ DOMAIN s = 1..n
  BY DEF IsSeq
<1> HIDE DEF n
<1>2. u = [i \in 1..n |-> u[i]] /\ DOMAIN u = 1..n
  BY <1>1
<1>3. u \in [1..n -> S]
  BY <1>2
<1> HIDE DEF S
<1>4. u \in Seq(S)
  BY <1>1, <1>3, AsSequence
<1> QED
  BY <1>4 DEF IsSeq, S

\* A tree is begun, with no variable but $.
LEMMA TreeAdded ==
  ASSUME NEW ts, IsSeq(ts), NEW name, NEW us, us = Append(ts, New(name))
  PROVE  Len(us) = Len(ts) + 1 /\ (\A t \in 1..Len(ts) : us[t] = ts[t]) /\ us[Len(us)].vars = <<"$">>
<1> DEFINE x == New(name)
<1>1. x.vars = <<"$">>
  BY DEF New
<1> HIDE DEF x
<1>2. us = Append(ts, x) /\ Len(ts) \in Nat
  BY DEF x, IsSeq
<1>3. Len(us) = Len(ts) + 1 /\ (\A t \in 1..Len(ts) : us[t] = ts[t]) /\ us[Len(ts) + 1] = x
  BY ONLY <1>2, IsSeq(ts) DEF IsSeq
<1> QED
  BY <1>1, <1>2, <1>3
-----------------------------------------------------------------------------
LEMMA DefineScope ==
  ASSUME AtWork, ScopeNow, parseDelim, token.typ = "define"
  PROVE  ScopeThen
<1> USE DEF AtWork
<1> DEFINE p == Reached(taken)
           h == Top.v.at
           q == token.at
           n == Len(trees)
           g == [Top EXCEPT !.op = "parse"]
           f == Frame("defineName", "")
           w == [trees EXCEPT ![Len(trees)] = next]
<1>1. /\ NestThen /\ UsedBoth /\ Top.v.typ = "left" /\ Settled(Top.op, ret.kind)
      /\ stack' = Calling(stack, g, f) /\ trees' = Append(w, New("definition")) /\ ~Opens(q)
  BY DefineNest
<1>2. /\ Last(stack) = Top /\ Last(trees) = Cur /\ p \in Nat /\ Len(stack) \in Nat /\ Len(stack') \in Nat
      /\ StackInv(stack) /\ StackInv(stack') /\ n = TreesIn(stack) + 1 /\ n \in Nat /\ n > 0
      /\ Marks(stack, trees) /\ Scoped(p) /\ VarsAt(stack, trees, p)
  BY <1>1, ScopeFacts, CurFacts
<1>3. Top.op = "parseDelim"
  BY DEF parseDelim, At
<1>4. g \in FrameRec /\ g.op = "parse" /\ f \in FrameRec /\ f.op = "defineName"
  <2>1. g \in FrameRec /\ g.op = "parse"
    BY CurFacts, OpFrame DEF Op, Root
  <2>2. f \in FrameRec /\ f.op = "defineName"
    BY NewFrame DEF Op, Tree, Context
  <2> QED BY <2>1, <2>2
<1>5. SameVars(trees, w) /\ IsSeq(w)
  <2>1. next.vars = Cur.vars
    BY CurFacts DEF next, IsTree, TreeRec
  <2>2. SameVars(trees, w)
    BY <2>1, SameVarsFacts DEF SameVars, Cur, Last
  <2>3. IsSeq(w)
    BY CurFacts, ExceptSeq
  <2> QED BY <2>2, <2>3
<1> HIDE DEF w, g, f, p, h, q
<1>6. /\ Len(stack') = Len(stack) + 1 /\ stack'[Len(stack)] = g /\ stack'[Len(stack) + 1] = f /\ Last(stack') = f
      /\ Upto(stack, stack', Len(stack) - 1)
  BY <1>1, <1>2, <1>4, CalledAt
<1>7. /\ Len(trees') = n + 1 /\ (\A t \in 1..n : trees'[t].vars = trees[t].vars) /\ trees'[n + 1].vars = <<"$">>
  BY <1>1, <1>5, TreeAdded DEF SameVars
<1>8. Follows(p, h) /\ Follows(h, q) /\ input[h].typ = "left" /\ input[q].typ = "define" /\ Reached(taken') = q
  BY <1>1 DEF UsedBoth, p, h, q
<1>9. Lull(p, q) /\ q \in Nat
  <2>1. ~Opens(h)
    BY <1>8, OpensAt DEF Control
  <2>2. Lull(p, h) /\ Lull(h, q)
    BY <1>1, <1>8, <2>1, LullStep
  <2> QED BY <1>8, <2>2, LullLull, Between
<1>10. \A x \in Len(stack)..Len(stack') : stack'[x].op \in {"parse", "defineName"}
  <2>1. \A x \in Len(stack)..Len(stack') : x = Len(stack) \/ x = Len(stack) + 1
    BY <1>2, <1>6
  <2> QED BY <1>4, <1>6, <2>1
<1>11. VarsAt(stack', trees', q)
  <2>1. VarsAt(stack, trees, q)
    BY <1>2, <1>9, VarsLull
  <2>2. ASSUME NEW t, NEW i, NEW name, Sees(stack, t, i, name, q) PROVE Sees(stack', t, i, name, q)
    <3>1. \A x \in Len(stack)..Len(stack') : ~Bounds(stack', x, t, i)
      BY <1>10 DEF Bounds, ControlOp
    <3>2. Last(stack).op # "treeList" /\ Len(stack') >= Len(stack)
      BY <1>2, <1>3, <1>6
    <3> QED BY <1>2, <1>6, <1>9, <2>2, <3>1, <3>2, SeesGrow
  <2> SUFFICES ASSUME NEW t \in 1..Len(trees'), NEW i \in 1..Len(trees'[t].vars)
               PROVE  trees'[t].vars[i] = "$" \/ Sees(stack', t, i, trees'[t].vars[i], q)
    BY DEF VarsAt
  <2>3. CASE t \in 1..n
    <3>1. trees'[t].vars = trees[t].vars
      BY <1>7, <2>3
    <3>2. trees[t].vars[i] = "$" \/ Sees(stack, t, i, trees[t].vars[i], q)
      BY <2>1, <2>3, <3>1 DEF VarsAt
    <3> QED BY <2>2, <3>1, <3>2
  <2>4. CASE t = n + 1
    <3>1. i \in 1..Len(<<"$">>)
      BY <1>7, <2>4
    <3> QED BY <1>7, <2>4, <3>1
  <2> QED BY <1>2, <1>7, <2>3, <2>4
<1>12. Marks(stack', trees')
  <2>1. \A x \in Len(stack)..Len(stack') : stack'[x].op \notin ControlOp
    BY <1>10 DEF ControlOp
  <2>2. Len(stack') >= Len(stack) - 1
    BY <1>2, <1>6
  <2> QED BY <1>2, <1>6, <1>7, <2>1, <2>2, MarksGrow
<1>13. Scoped(q)
  <2>1. Scoped(h)
    BY <1>2, <1>8, ScopedOther
  <2> QED BY <1>8, <2>1, ScopedOther
<1>14. Bare(Last(stack').op, Last(trees').vars)
  <2>1. Last(trees').vars = <<"$">>
    BY <1>2, <1>7 DEF Last
  <2>2. \A i \in 1..Len(Last(trees').vars) : Last(trees').vars[i] = "$"
    BY <2>1
  <2> QED BY <2>2 DEF Bare
<1>15. Spot(Last(stack').op, ret'.kind, q, q) /\ q \in 0..q
  BY <1>4, <1>6, <1>9, SpotHere
<1> QED
  BY <1>8, <1>11, <1>12, <1>13, <1>14, <1>15 DEF ScopeThen, Scope

\* The text of a definition or a block: one deeper, in the tree at its top.
LEMMA SeesText ==
  ASSUME NEW s, StackInv(s), Last(s).op \in {"defineDelim", "blockPipe"},
         NEW g \in FrameRec, NEW f \in FrameRec, g.op = "treeList", f.op = "list", NEW u, u = Calling(s, g, f),
         NEW P \in Nat, NEW q \in Nat, P < q, Lull(P, q - 1), Depth(q) = Depth(P) + 1, Depth(P) = Level(s, Len(s)),
         NEW t, t \in Nat, t <= TreeOf(s, Len(s)), NEW i, NEW name, Sees(s, t, i, name, P)
  PROVE  Sees(u, t, i, name, q)
<1> DEFINE m == Len(s)
<1>1. /\ m \in Nat /\ m > 0 /\ m - 1 \in Nat /\ Level(s, m - 1) \in Nat /\ Level(s, m) = Level(s, m - 1) + DeepAt(Last(s).op)
      /\ Outside(s, m) \in Nat /\ Level(s, m - 1) <= Outside(s, m)
  BY TopLevel
<1>2. /\ Len(u) = m + 1 /\ Len(u) \in Nat /\ u[m] = g /\ u[m + 1] = f /\ Upto(s, u, m - 1)
  BY CalledAt
<1> HIDE DEF m
<1>3. TreeOf(u, (m - 1) + 1) = TreeOf(s, (m - 1) + 1) /\ Outside(u, (m - 1) + 1) = Outside(s, (m - 1) + 1)
  BY <1>1, <1>2, StandsUpto DEF m
<1>4. Level(u, (m - 1) + 1) = Level(s, m - 1) + DeepAt(u[(m - 1) + 1].op)
  BY <1>1, <1>2, LevelTop
<1>5. TreeOf(u, m) = TreeOf(s, m) /\ Outside(u, m) = Outside(s, m) /\ Level(u, m) = Level(s, m - 1) + DeepAt(g.op)
  BY <1>1, <1>2, <1>3, <1>4
<1>6. DeepAt(g.op) = 1 /\ DeepAt(Last(s).op) = 0
  BY DEF DeepAt, Deepens
<1>7. Depth(P) <= Outside(u, m) /\ Depth(q) >= Level(u, m)
  <2>1. Depth(P) = Level(s, m - 1) /\ Depth(P) \in Nat
    BY <1>1, <1>6 DEF m
  <2> QED BY <1>1, <1>5, <1>6, <2>1
<1>8. Sees(u, t, i, name, P)
  <2>1. \A x \in m..Len(u) : x = m \/ x = m + 1
    BY <1>1, <1>2
  <2>2. ~Bounds(u, m + 1, t, i)
    BY <1>2 DEF Bounds, ControlOp
  <2>3. \A x \in m..Len(u) : Bounds(u, x, t, i) => Stands(u, s, x) \/ Depth(P) <= Outside(u, x)
    BY <1>7, <2>1, <2>2
  <2>4. Len(u) >= m /\ Last(s).op # "treeList"
    BY <1>1, <1>2
  <2> QED BY <1>2, <2>3, <2>4, SeesGrow DEF m
<1>9. \E x \in 1..Len(u) : u[x].op = "treeList" /\ TreeOf(u, x) >= t /\ Depth(q) >= Level(u, x)
  <2>1. m \in 1..Len(u) /\ u[m].op = "treeList"
    BY <1>1, <1>2
  <2>2. TreeOf(u, m) >= t
    BY <1>5 DEF m
  <2> QED BY <1>7, <2>1, <2>2
<1> QED
  BY <1>8, <1>9, SeesRise
-----------------------------------------------------------------------------
LEMMA DefineDelimScope ==
  ASSUME AtWork, ScopeNow, parseDefinition, Top.op = "defineDelim"
  PROVE  ScopeThen
<1> USE DEF AtWork
<1> DEFINE p == Reached(taken)
           q == token.at
           n == Len(trees)
           m == Len(stack)
           g == [Top EXCEPT !.op = "treeList"]
           f == Frame("list", "root")
<1>1. /\ NestThen /\ Used /\ Opens(q) /\ token.typ = "right" /\ SameVars(trees, trees')
      /\ stack' = Calling(stack, g, f) /\ Settled(Top.op, ret.kind) /\ Last(stack').op = "list"
  BY DefineDelimNest
<1>2. /\ Last(stack) = Top /\ Last(trees) = Cur /\ p \in Nat /\ m \in Nat /\ Len(stack') \in Nat
      /\ StackInv(stack) /\ StackInv(stack') /\ n = TreesIn(stack) + 1 /\ TreesIn(stack) \in Nat /\ n \in Nat /\ n > 0
      /\ Marks(stack, trees) /\ Scoped(p) /\ VarsAt(stack, trees, p) /\ Bare(Top.op, Cur.vars)
  BY <1>1, ScopeFacts, CurFacts
<1>3. g \in FrameRec /\ g.op = "treeList" /\ f \in FrameRec /\ f.op = "list"
  <2>1. g \in FrameRec /\ g.op = "treeList"
    BY CurFacts, OpFrame DEF Op, Tree
  <2>2. f \in FrameRec /\ f.op = "list"
    BY NewFrame DEF Op, List, Context
  <2> QED BY <2>1, <2>2
<1>4. Depth(p) = Level(stack, Len(stack)) + Adj(Top.op, ret.kind) /\ Level(stack, Len(stack)) \in Nat
  BY LevelFacts DEF NestNow, Nest, Top
<1>5. Follows(p, q) /\ input[q].typ = "right" /\ Reached(taken') = q /\ Cur = trees[n]
  BY <1>1, ReachedAppend, CurFacts DEF Used
<1> HIDE DEF g, f, p, q, n
<1>6. Len(stack') = m + 1 /\ stack'[m] = g /\ stack'[m + 1] = f /\ Upto(stack, stack', m - 1)
  BY <1>1, <1>2, <1>3, CalledAt
<1>7. Depth(p) = Level(stack, Len(stack)) /\ Depth(p) \in Nat
  BY <1>4 DEF Adj, Closing, Closers
<1>8. Lull(p, q - 1) /\ p < q /\ q \in Nat /\ Depth(q) = Depth(p) + 1
  <2>1. Lull(p, q - 1) /\ p < q /\ q \in Nat /\ Depth(q) = Depth(p) + OpeningAt(q) - EndingAt(q)
    BY <1>5, LullStep, Between
  <2>2. OpeningAt(q) = 1 /\ EndingAt(q) = 0
    BY <1>1, <1>5 DEF OpeningAt, EndingAt
  <2> QED BY <1>7, <2>1, <2>2
<1>9. VarsAt(stack', trees', q)
  <2> SUFFICES ASSUME NEW t \in 1..Len(trees'), NEW i \in 1..Len(trees'[t].vars)
               PROVE  trees'[t].vars[i] = "$" \/ Sees(stack', t, i, trees'[t].vars[i], q)
    BY DEF VarsAt
  <2>1. t \in 1..n /\ trees'[t].vars = trees[t].vars
    BY <1>1 DEF SameVars, n
  <2>2. CASE t = n
    BY <1>2, <1>5, <2>1, <2>2 DEF Bare
  <2>3. CASE t # n
    <3>1. t \in Nat /\ t <= TreeOf(stack, m)
      <4>1. TreeOf(stack, m) = TreesIn(stack)
        BY <1>2, TopLevel DEF Tree
      <4> QED BY <1>2, <2>1, <2>3, <4>1
    <3>2. trees[t].vars[i] = "$" \/ Sees(stack, t, i, trees[t].vars[i], p)
      BY <1>2, <2>1 DEF VarsAt, n
    <3>3. Last(stack).op \in {"defineDelim", "blockPipe"}
      BY <1>2
    <3>4. ASSUME NEW name, Sees(stack, t, i, name, p) PROVE Sees(stack', t, i, name, q)
      BY <1>1, <1>2, <1>3, <1>7, <1>8, <3>1, <3>3, <3>4, SeesText
    <3> QED BY <2>1, <3>2, <3>4
  <2> QED BY <2>2, <2>3
<1>10. Marks(stack', trees')
  <2>1. \A x \in m..Len(stack') : x = m \/ x = m + 1
    BY <1>2, <1>6
  <2>2. \A x \in m..Len(stack') : stack'[x].op \notin ControlOp
    BY <1>3, <1>6, <2>1 DEF ControlOp
  <2>3. Len(stack') >= m - 1
    BY <1>2, <1>6
  <2>4. \A t \in 1..n : trees'[t].vars = trees[t].vars
    BY <1>1 DEF SameVars, n
  <2> QED BY <1>2, <1>6, <2>2, <2>3, <2>4, MarksGrow DEF n
<1>11. Scoped(q)
  BY <1>2, <1>5, ScopedOther
<1>12. Spot(Last(stack').op, ret'.kind, q, q)
  BY <1>1, <1>8, SpotHere
<1> QED
  BY <1>1, <1>5, <1>8, <1>9, <1>10, <1>11, <1>12, ScopeIntro

LEMMA BlockControlScope ==
  ASSUME AtWork, ScopeNow, blockControl
  PROVE  ScopeThen
<1> USE DEF AtWork
<1> DEFINE p == Reached(taken)
           n == Len(trees)
           m == Len(stack)
           g == [Top EXCEPT !.op = "treeList"]
           f == Frame("list", "root")
<1>1. /\ NestThen /\ taken' = taken /\ trees' = Append(trees, New(Top.name)) /\ Top.op = "blockPipe"
      /\ stack' = Calling(stack, g, f) /\ Last(stack').op = "list" /\ ret' = ret
  BY BlockControlNest
<1>2. /\ Last(stack) = Top /\ Last(trees) = Cur /\ p \in Nat /\ m \in Nat /\ Len(stack') \in Nat
      /\ StackInv(stack) /\ StackInv(stack') /\ n = TreesIn(stack) + 1 /\ TreesIn(stack) \in Nat /\ n \in Nat /\ n > 0
      /\ Marks(stack, trees) /\ Scoped(p) /\ IsSeq(trees)
  BY ScopeFacts, CurFacts
<1>3. g \in FrameRec /\ g.op = "treeList" /\ f \in FrameRec /\ f.op = "list"
  <2>1. g \in FrameRec /\ g.op = "treeList"
    BY CurFacts, OpFrame DEF Op, Tree
  <2>2. f \in FrameRec /\ f.op = "list"
    BY NewFrame DEF Op, List, Context
  <2> QED BY <2>1, <2>2
<1>4. Depth(p) = Level(stack, Len(stack)) + Adj(Top.op, ret.kind) /\ Level(stack, Len(stack)) \in Nat
  BY LevelFacts DEF NestNow, Nest, Top
<1>5. PICK P \in 0..p : Spot(Top.op, ret.kind, p, P) /\ VarsAt(stack, trees, P)
  BY ScopeFacts
<1>6. ~Closing(Top.op, ret.kind)
  BY <1>1 DEF Closing, Closers
<1>7. P \in Nat /\ P < p /\ Depth(p) = Depth(P) + 1 /\ Lull(P, p - 1) /\ Depth(P) \in Int
  <2>1. P \in Nat /\ P < p /\ Depth(p) = Depth(P) + 1 /\ Lull(P, p - 1)
    BY <1>1, <1>5, <1>6 DEF Spot, Unsettled
  <2> QED BY <2>1, DepthNext
<1>8. Depth(P) = Level(stack, Len(stack))
  <2>1. Adj(Top.op, ret.kind) = 1
    BY <1>1, <1>6 DEF Adj
  <2> QED BY <1>4, <1>7, <2>1
<1> HIDE DEF g, f, p, n
<1>9. Len(stack') = m + 1 /\ stack'[m] = g /\ stack'[m + 1] = f /\ Upto(stack, stack', m - 1)
  BY <1>1, <1>2, <1>3, CalledAt
<1>10. Len(trees') = n + 1 /\ (\A t \in 1..n : trees'[t].vars = trees[t].vars) /\ trees'[n + 1].vars = <<"$">>
  BY <1>1, <1>2, TreeAdded DEF n
<1>11. VarsAt(stack', trees', p)
  <2> SUFFICES ASSUME NEW t \in 1..Len(trees'), NEW i \in 1..Len(trees'[t].vars)
               PROVE  trees'[t].vars[i] = "$" \/ Sees(stack', t, i, trees'[t].vars[i], p)
    BY DEF VarsAt
  <2>1. CASE t \in 1..n
    <3>1. t \in Nat /\ t <= TreeOf(stack, m) /\ trees'[t].vars = trees[t].vars
      <4>1. TreeOf(stack, m) = TreesIn(stack) + 1
        BY <1>1, <1>2, TopLevel DEF Tree
      <4> QED BY <1>2, <1>10, <2>1, <4>1
    <3>2. trees[t].vars[i] = "$" \/ Sees(stack, t, i, trees[t].vars[i], P)
      BY <1>5, <2>1, <3>1 DEF VarsAt, n
    <3>3. Last(stack).op \in {"defineDelim", "blockPipe"}
      BY <1>1, <1>2
    <3>4. ASSUME NEW name, Sees(stack, t, i, name, P) PROVE Sees(stack', t, i, name, p)
      BY <1>1, <1>2, <1>3, <1>7, <1>8, <3>1, <3>3, <3>4, SeesText
    <3> QED BY <3>1, <3>2, <3>4
  <2>2. CASE t = n + 1
    <3>1. i \in 1..Len(<<"$">>)
      BY <1>10, <2>2
    <3> QED BY <1>10, <2>2, <3>1
  <2> QED BY <1>2, <1>10, <2>1, <2>2
<1>12. Marks(stack', trees')
  <2>1. \A x \in m..Len(stack') : x = m \/ x = m + 1
    BY <1>2, <1>9
  <2>2. \A x \in m..Len(stack') : stack'[x].op \notin ControlOp
    BY <1>3, <1>9, <2>1 DEF ControlOp
  <2>3. Len(stack') >= m - 1
    BY <1>2, <1>9
  <2> QED BY <1>2, <1>9, <1>10, <2>2, <2>3, MarksGrow DEF n
<1>13. Spot(Last(stack').op, ret'.kind, p, p)
  BY <1>1, <1>2, SpotHere
<1>14. p = Reached(taken')
  BY <1>1 DEF p
<1> QED
  BY <1>1, <1>2, <1>11, <1>12, <1>13, <1>14, ScopeIntro
-----------------------------------------------------------------------------
LEMMA ControlScope ==
  ASSUME AtWork, ScopeNow, Top.op = "action", Use(Control), Become([Frame("control", token.typ) EXCEPT !.mark = Len(Cur.vars)])
  PROVE  ScopeThen
<1> USE DEF AtWork
<1> DEFINE p == Reached(taken)
           q == token.at
           n == Len(trees)
           m == Len(stack)
<1>0. PICK f : f = [Frame("control", token.typ) EXCEPT !.mark = Len(Cur.vars)]
  OBVIOUS
<1>1. /\ NestThen /\ Used /\ token.typ \in Control /\ Opens(q) /\ SameVars(trees, trees') /\ Settled(Top.op, ret.kind)
      /\ stack' = Append(Front(stack), f) /\ Last(stack') = f /\ f.op = "control" /\ f.mark = Len(Cur.vars) /\ f \in FrameRec
  BY <1>0, ControlNest
<1>2. /\ Last(stack) = Top /\ Last(trees) = Cur /\ p \in Nat /\ m \in Nat /\ Len(stack') \in Nat
      /\ StackInv(stack) /\ StackInv(stack') /\ n = TreesIn(stack) + 1 /\ TreesIn(stack) \in Nat /\ n \in Nat /\ n > 0
      /\ Marks(stack, trees) /\ Scoped(p) /\ VarsAt(stack, trees, p)
  BY <1>1, ScopeFacts, CurFacts
<1>3. Depth(p) = Level(stack, Len(stack)) + Adj(Top.op, ret.kind) /\ Level(stack, Len(stack)) \in Nat
  BY LevelFacts DEF NestNow, Nest, Top
<1>4. Follows(p, q) /\ input[q].typ \in Control /\ Reached(taken') = q /\ Cur = trees[n] /\ Len(Cur.vars) \in Nat
  <2>1. Follows(p, q) /\ input[q].typ \in Control /\ Reached(taken') = q
    BY <1>1, ReachedAppend DEF Used
  <2> QED BY <2>1, CurFacts DEF IsTree, IsSeq
<1> HIDE DEF p, q, n
<1>5. Len(stack') = m /\ stack'[m] = f /\ Upto(stack, stack', m - 1)
  <2>1. StackInv(stack) /\ f \in FrameRec /\ stack' = Append(Front(stack), f)
    BY ONLY <1>1, <1>2
  <2> QED BY ONLY <2>1, ReplacedAt
<1>6. /\ m > 0 /\ m - 1 \in Nat /\ Level(stack, m - 1) \in Nat /\ Outside(stack, m) \in Nat
      /\ Level(stack, m) = Level(stack, m - 1) + DeepAt(Last(stack).op)
      /\ Level(stack, m - 1) <= Outside(stack, m) /\ TreeOf(stack, m) = n
  <2>1. Last(stack).op \notin Tree
    BY <1>2 DEF Tree
  <2> QED BY <1>2, <2>1, TopLevel
<1>7. Depth(p) = Level(stack, m - 1) /\ Depth(p) \in Nat
  <2>1. DeepAt(Last(stack).op) = 0 /\ Adj(Top.op, ret.kind) = 0
    BY <1>2 DEF DeepAt, Deepens, Adj, Closing, Closers
  <2> QED BY <1>3, <1>6, <2>1
<1>8. /\ \A x \in 1..m - 1 : Stands(stack, stack', x) /\ Stands(stack', stack, x)
      /\ TreeOf(stack', (m - 1) + 1) = TreeOf(stack, (m - 1) + 1) /\ Outside(stack', (m - 1) + 1) = Outside(stack, (m - 1) + 1)
  <2>1. m - 1 \in Nat /\ m - 1 <= Len(stack) /\ m - 1 <= Len(stack') /\ Len(stack) \in Nat /\ Len(stack') \in Nat
    BY <1>2, <1>5, <1>6
  <2>2. Upto(stack, stack', m - 1)
    BY <1>5
  <2> HIDE DEF m
  <2> QED BY ONLY <2>1, <2>2, StandsUpto
<1>9. TreeOf(stack', m) = n /\ Depth(p) <= Outside(stack', m)
  BY <1>6, <1>7, <1>8
<1>10. Lull(p, q - 1) /\ p < q /\ q \in Nat /\ Depth(q) = Depth(p) + 1
  <2>1. Lull(p, q - 1) /\ p < q /\ q \in Nat /\ Depth(q) = Depth(p) + OpeningAt(q) - EndingAt(q)
    BY <1>4, LullStep, Between
  <2>2. OpeningAt(q) = 1 /\ EndingAt(q) = 0
    BY <1>1, <1>4 DEF OpeningAt, EndingAt, Control
  <2> QED BY <1>7, <2>1, <2>2
<1>11. ASSUME NEW t, NEW i, NEW name, Sees(stack, t, i, name, p) PROVE Sees(stack', t, i, name, q)
  <2>1. \A x \in m..Len(stack') : x = m
    BY <1>2, <1>5
  <2>2. \A x \in m..Len(stack') : Bounds(stack', x, t, i) => Stands(stack', stack, x) \/ Depth(p) <= Outside(stack', x)
    BY <1>9, <2>1
  <2>3. Last(stack).op # "treeList" /\ Len(stack') >= m
    BY <1>2, <1>5
  <2>4. Sees(stack', t, i, name, p)
    <3> HIDE DEF m
    <3> QED BY <1>2, <1>5, <1>11, <2>2, <2>3, SeesGrow DEF m
  <2>5. input[q].typ # "right"
    BY <1>4 DEF Control
  <2> QED BY <1>2, <1>10, <2>4, <2>5, SeesRise
<1>12. VarsAt(stack', trees', q)
  BY <1>1, <1>2, <1>11 DEF VarsAt, SameVars
<1>13. Marks(stack', trees')
  <2>1. \A x \in 1..Len(stack') - 1 : stack'[x].op \in ControlOp => Stands(stack', stack, x)
    BY <1>5, <1>8
  <2>2. /\ stack'[Len(stack')].mark = Len(trees[Len(trees)].vars) /\ Len(trees[Len(trees)].vars) \in Nat
        /\ TreeOf(stack', Len(stack')) = Len(trees)
    BY <1>1, <1>4, <1>5, <1>9 DEF n
  <2>3. Len(trees) = TreesIn(stack) + 1
    BY <1>2 DEF n
  <2> QED BY <1>1, <1>2, <2>1, <2>2, <2>3, MarksNew
<1>14. Scoped(q)
  <2>1. input[q].typ # "variable"
    BY <1>4 DEF Control
  <2> QED BY <1>2, <1>4, <2>1, ScopedOther
<1>15. Spot(Last(stack').op, ret'.kind, q, q) /\ Last(stack').op \notin {"defineName", "defineDelim"}
  BY <1>1, <1>10, SpotHere
<1> QED
  BY <1>4, <1>10, <1>12, <1>13, <1>14, <1>15, ScopeIntro

LEMMA ChainedScope ==
  ASSUME AtWork, ScopeNow, parseControl, Top.op = "controlList", Chained
  PROVE  ScopeThen
<1> USE DEF AtWork
<1> DEFINE p == Reached(taken)
           q == token.at
           n == Len(trees)
           m == Len(stack)
<1>0. PICK f : f = [Frame("control", Top.ctx) EXCEPT !.mark = Len(Cur.vars)]
  OBVIOUS
<1>a. PICK g : g = [Top EXCEPT !.op = "controlEnd"]
  OBVIOUS
<1>1. /\ NestThen /\ Used /\ token.typ \in {"if", "with"} /\ ~Opens(q) /\ SameVars(trees, trees') /\ Settled(Top.op, ret.kind)
      /\ stack' = Calling(stack, g, f) /\ Last(stack') = f /\ f.op = "control" /\ f.mark = Len(Cur.vars)
      /\ f \in FrameRec /\ g \in FrameRec
  BY <1>0, <1>a, ChainedNest
<1>b. g.op = "controlEnd" /\ g.mark = Top.mark
  BY <1>a, CurFacts DEF FrameRec
<1>2. /\ Last(stack) = Top /\ Last(trees) = Cur /\ p \in Nat /\ m \in Nat /\ Len(stack') \in Nat /\ stack[m] = Top
      /\ StackInv(stack) /\ StackInv(stack') /\ n = TreesIn(stack) + 1 /\ TreesIn(stack) \in Nat /\ n \in Nat /\ n > 0
      /\ Marks(stack, trees) /\ Scoped(p) /\ VarsAt(stack, trees, p)
  BY <1>1, ScopeFacts, CurFacts, TopFacts
<1>3. Depth(p) = Level(stack, Len(stack)) + Adj(Top.op, ret.kind) /\ Level(stack, Len(stack)) \in Nat
  BY LevelFacts DEF NestNow, Nest, Top
<1>4. Follows(p, q) /\ input[q].typ \in {"if", "with"} /\ Reached(taken') = q /\ Cur = trees[n] /\ Len(Cur.vars) \in Nat
  <2>1. Follows(p, q) /\ input[q].typ \in {"if", "with"} /\ Reached(taken') = q
    BY <1>1, ReachedAppend DEF Used
  <2> QED BY <2>1, CurFacts DEF IsTree, IsSeq
<1> HIDE DEF p, q, n
<1>5. Len(stack') = m + 1 /\ stack'[m] = g /\ stack'[m + 1] = f /\ Upto(stack, stack', m - 1)
  BY ONLY <1>1, <1>2, CalledAt
<1>6. /\ m > 0 /\ m - 1 \in Nat /\ Level(stack, m - 1) \in Nat
      /\ Level(stack, m) = Level(stack, m - 1) + DeepAt(Last(stack).op) /\ TreeOf(stack, m) = n
  <2>1. Last(stack).op \notin Tree
    BY <1>2 DEF Tree
  <2> QED BY <1>2, <2>1, TopLevel
<1>7. Depth(p) = Level(stack, m - 1) + 1
  <2>1. DeepAt(Last(stack).op) = 1 /\ Adj(Top.op, ret.kind) = 0
    BY <1>1, <1>2 DEF DeepAt, Deepens, Adj, Settled
  <2> QED BY <1>3, <1>6, <2>1
<1>8. /\ \A x \in 1..m - 1 : Stands(stack, stack', x) /\ Stands(stack', stack, x)
      /\ TreeOf(stack', (m - 1) + 1) = TreeOf(stack, (m - 1) + 1) /\ Outside(stack', (m - 1) + 1) = Outside(stack, (m - 1) + 1)
  <2>1. m - 1 \in Nat /\ m - 1 <= Len(stack) /\ m - 1 <= Len(stack') /\ Len(stack) \in Nat /\ Len(stack') \in Nat
    BY <1>2, <1>5, <1>6
  <2>2. Upto(stack, stack', m - 1)
    BY <1>5
  <2> HIDE DEF m
  <2> QED BY ONLY <2>1, <2>2, StandsUpto
<1>9. Stands(stack', stack, m)
  <2>1. m \in 1..Len(stack) /\ m \in 1..Len(stack')
    BY <1>2, <1>5, <1>6
  <2>2. TreeOf(stack', m) = TreeOf(stack, m) /\ Outside(stack', m) = Outside(stack, m)
    BY <1>6, <1>8
  <2>3. stack'[m].op = "controlEnd" /\ stack[m].op = "controlList" /\ stack'[m].mark = stack[m].mark
    BY <1>2, <1>5, <1>b
  <2> HIDE DEF m
  <2> QED BY <2>1, <2>2, <2>3 DEF Stands, ControlOp
<1>10. TreeOf(stack', m + 1) = n /\ Depth(p) <= Outside(stack', m + 1)
  <2>1. stack'[(m - 1) + 1].op = "controlEnd" /\ (m - 1) + 1 = m /\ (m + 1) - 1 = m
    BY <1>5, <1>6, <1>b
  <2>2. Among(stack', (m - 1) + 1) = Among(stack', m - 1)
    BY <1>6, <2>1, AmongNext DEF Tree
  <2>3. TreeOf(stack', m) = n
    BY <1>6, <1>9 DEF Stands
  <2>4. TreeOf(stack', m + 1) = n
    BY <2>1, <2>2, <2>3 DEF TreeOf
  <2>5. Level(stack', (m - 1) + 1) = Level(stack, m - 1) + DeepAt("controlEnd")
    BY <1>5, <1>6, <2>1, LevelTop
  <2>6. Level(stack', m) = Level(stack, m - 1)
    BY <1>6, <2>1, <2>5 DEF DeepAt, Deepens
  <2>7. Outside(stack', m + 1) = Level(stack, m - 1) + 1
    BY <1>6, <2>1, <2>6 DEF Outside
  <2> QED BY <1>6, <1>7, <2>4, <2>7
<1>11. Lull(p, q) /\ p < q /\ q \in Nat
  <2>1. input[q].typ # "end"
    BY <1>4
  <2> QED BY <1>1, <1>4, <2>1, LullStep, Between
<1>12. ASSUME NEW t, NEW i, NEW name, Sees(stack, t, i, name, p) PROVE Sees(stack', t, i, name, q)
  <2>1. \A x \in m..Len(stack') : x = m \/ x = m + 1
    BY <1>2, <1>5
  <2>2. \A x \in m..Len(stack') : Bounds(stack', x, t, i) => Stands(stack', stack, x) \/ Depth(p) <= Outside(stack', x)
    BY <1>9, <1>10, <2>1
  <2>3. Last(stack).op # "treeList" /\ Len(stack') >= m
    BY <1>2, <1>5
  <2>4. Sees(stack', t, i, name, p)
    <3> HIDE DEF m
    <3> QED BY <1>2, <1>5, <1>12, <2>2, <2>3, SeesGrow DEF m
  <2> QED BY <1>11, <2>4, SeesLull
<1>13. VarsAt(stack', trees', q)
  BY <1>1, <1>2, <1>12 DEF VarsAt, SameVars
<1>14. Marks(stack', trees')
  <2>1. \A x \in 1..Len(stack') - 1 : stack'[x].op \in ControlOp => Stands(stack', stack, x)
    <3>1. \A x \in 1..Len(stack') - 1 : x = m \/ x \in 1..m - 1
      BY <1>2, <1>5
    <3> QED BY <1>8, <1>9, <3>1
  <2>2. /\ stack'[Len(stack')].mark = Len(trees[Len(trees)].vars) /\ Len(trees[Len(trees)].vars) \in Nat
        /\ TreeOf(stack', Len(stack')) = Len(trees)
    BY <1>1, <1>4, <1>5, <1>10 DEF n
  <2>3. Len(trees) = TreesIn(stack) + 1
    BY <1>2 DEF n
  <2> QED BY <1>1, <1>2, <2>1, <2>2, <2>3, MarksNew
<1>15. Scoped(q)
  <2>1. input[q].typ # "variable"
    BY <1>4
  <2> QED BY <1>2, <1>4, <2>1, ScopedOther
<1>16. Spot(Last(stack').op, ret'.kind, q, q) /\ Last(stack').op \notin {"defineName", "defineDelim"}
  BY <1>1, <1>11, SpotHere
<1> QED
  BY <1>4, <1>11, <1>13, <1>14, <1>15, <1>16, ScopeIntro
-----------------------------------------------------------------------------
\* The steps that close a text or a control.
Fall(P, p) == P \in Nat /\ p \in Nat /\ P <= p /\ \A k \in P + 1..p : Depth(k) = Depth(p) /\ ~Opens(k)

\* Where the top call returns, all that was seen below it is seen.
LEMMA SeesPop ==
  ASSUME NEW s, StackInv(s), Last(s).op \notin Root, Last(s).op # "treeList", NEW u, u = Front(s),
         NEW t, NEW i, NEW name, NEW P \in Nat, Sees(s, t, i, name, P)
  PROVE  Sees(u, t, i, name, P)
<1> DEFINE k == Len(s) - 1
<1>1. Len(s) \in Nat /\ Len(s) > 0 /\ Last(s) = s[k + 1] /\ Len(s) = k + 1 /\ k \in Nat
  BY TopFacts
<1>2. Len(u) = k /\ Upto(s, u, k)
  BY PoppedAt
<1> HIDE DEF k
<1>3. \A x \in 1..k : Stands(s, u, x) /\ Stands(u, s, x)
  <2>1. Len(s) \in Nat /\ Len(u) \in Nat /\ k <= Len(s) /\ k <= Len(u)
    BY <1>1, <1>2
  <2> QED BY ONLY <1>1, <1>2, <2>1, StandsUpto
<1>4. \A x \in 1..Len(s) : x = k + 1 \/ x \in 1..k
  BY <1>1
<1>5. \A x \in 1..Len(s) : s[x].op = "treeList" /\ TreeOf(s, x) >= t => Stands(s, u, x)
  BY <1>1, <1>3, <1>4
<1>6. \A x \in 1..Len(u) : Bounds(u, x, t, i) => Stands(u, s, x) \/ Depth(P) <= Outside(u, x)
  BY <1>2, <1>3
<1>7. Len(u) \in Nat
  BY <1>1, <1>2
<1> QED
  BY <1>5, <1>6, <1>7, SeesNew

LEMMA SeesFall ==
  ASSUME NEW s, StackInv(s), Last(s).op \notin Root, NEW u, u = Front(s),
         NEW P, NEW p, Fall(P, p), NEW t, NEW i, Bounds(s, Len(s), t, i), Outside(s, Len(s)) <= Depth(p),
         Last(s).op = "treeList" => Depth(p) < Level(s, Len(s)), NEW name, Sees(s, t, i, name, P)
  PROVE  Sees(u, t, i, name, p)
<1> DEFINE k == Len(s) - 1
<1>1. /\ Len(s) \in Nat /\ Len(s) > 0 /\ Last(s) = s[k + 1] /\ Len(s) = k + 1 /\ k \in Nat
      /\ Level(s, Len(s)) \in Nat /\ Outside(s, Len(s)) \in Nat
  BY TopFacts, TopLevel, LevelNext
<1>2. Len(u) = k /\ Upto(s, u, k)
  BY PoppedAt
<1> HIDE DEF k
<1>3. \A x \in 1..k : Stands(s, u, x) /\ Stands(u, s, x)
  <2>1. Len(s) \in Nat /\ Len(u) \in Nat /\ k <= Len(s) /\ k <= Len(u)
    BY <1>1, <1>2
  <2> QED BY ONLY <1>1, <1>2, <2>1, StandsUpto
<1>4. \A x \in 1..Len(s) : x = k + 1 \/ x \in 1..k
  BY <1>1
<1>5. P \in Nat /\ p \in Nat /\ P <= p /\ \A b \in P + 1..p : Depth(b) = Depth(p) /\ ~Opens(b)
  BY DEF Fall
<1>6. PICK j \in 1..P : Declared(j, name) /\ Steady(j, P) /\ InTree(s, t, j, P) /\ Around(s, t, i, j)
  BY DEF Sees
<1>7. j \in Nat /\ j \in 1..p /\ Depth(j) \in Int /\ Depth(p) \in Int
  <2>1. j \in Nat /\ j \in 1..p
    BY <1>5, <1>6
  <2> QED BY <1>5, <2>1, DepthNext
<1>8. Depth(j) <= Depth(p)
  <2>1. Len(s) \in 1..Len(s)
    BY <1>1
  <2>2. Depth(j) <= Outside(s, Len(s))
    BY <1>6, <2>1 DEF Around
  <2> QED BY <1>1, <1>7, <2>2
<1>9. \A b \in j..p : b \in j..P \/ b \in P + 1..p
  BY <1>5, <1>7
<1>10. Steady(j, p)
  <2>1. \A b \in P + 1..p : Depth(b) >= Depth(j)
    BY <1>5, <1>7, <1>8
  <2> QED BY <1>6, <1>9, <2>1 DEF Steady
<1>11. InTree(u, t, j, p)
  <2> SUFFICES ASSUME NEW b \in j..p, Opens(b), input[b].typ = "right", Steady(b, p)
               PROVE  \E x \in 1..Len(u) : u[x].op = "treeList" /\ TreeOf(u, x) >= t /\ Depth(b) >= Level(u, x)
    BY DEF InTree
  <2>1. b \in j..P
    BY <1>5, <1>9
  <2>2. Steady(b, P)
    <3>1. \A c \in b..P : c \in b..p
      BY <1>5, <2>1
    <3> QED BY <3>1 DEF Steady
  <2>3. PICK x \in 1..Len(s) : s[x].op = "treeList" /\ TreeOf(s, x) >= t /\ Depth(b) >= Level(s, x)
    BY <1>6, <2>1, <2>2 DEF InTree
  <2>4. x # k + 1
    <3> SUFFICES ASSUME x = k + 1 PROVE FALSE
      OBVIOUS
    <3>1. Depth(p) < Level(s, Len(s)) /\ Depth(b) >= Level(s, Len(s))
      BY <1>1, <2>3
    <3>2. b \in Nat /\ p \in b..p
      BY <1>5, <1>7, <2>1
    <3>3. Depth(p) >= Depth(b) /\ Depth(b) \in Int
      BY <3>2, DepthNext DEF Steady
    <3> QED BY <1>1, <1>7, <3>1, <3>3
  <2>5. x \in 1..k
    BY <1>4, <2>4
  <2>6. Stands(s, u, x)
    BY <1>3, <2>5
  <2> QED BY <2>3, <2>6 DEF Stands
<1>12. Around(u, t, i, j)
  <2>1. \A x \in 1..Len(u) : Bounds(u, x, t, i) => Stands(u, s, x) \/ Depth(j) <= Outside(u, x)
    BY <1>2, <1>3
  <2> QED BY <1>6, <2>1, AroundMove
<1> QED
  BY <1>6, <1>7, <1>10, <1>11, <1>12 DEF Sees

LEMMA EndTreeScope ==
  ASSUME AtWork, ScopeNow, EndTree
  PROVE  ScopeThen
<1> USE DEF AtWork
<1> DEFINE p == Reached(taken)
           n == Len(trees)
           m == Len(stack)
<1>1. /\ NestThen /\ taken' = taken /\ trees' = Front(trees) /\ stack' = Front(stack) /\ ret' = Node
      /\ Top.op = "treeList" /\ ret.kind = "end" /\ Last(stack').op \in {"parsed", "listed", "parse"}
  BY EndTreeNest
<1>2. /\ Last(stack) = Top /\ p \in Nat /\ m \in Nat /\ m > 0 /\ Len(stack') \in Nat
      /\ StackInv(stack) /\ StackInv(stack') /\ n = TreesIn(stack) + 1 /\ TreesIn(stack) \in Nat /\ n \in Nat /\ n > 0
      /\ Marks(stack, trees) /\ Scoped(p) /\ IsSeq(trees)
  BY ScopeFacts, CurFacts, TopFacts
<1>3. Depth(p) = Level(stack, Len(stack)) + Adj(Top.op, ret.kind) /\ Level(stack, Len(stack)) \in Nat
  BY LevelFacts DEF NestNow, Nest, Top
<1>4. PICK P \in 0..p : Spot(Top.op, ret.kind, p, P) /\ VarsAt(stack, trees, P)
  BY ScopeFacts
<1>5. Fall(P, p)
  BY <1>1, <1>2, <1>4 DEF Spot, Fall
<1>6. Top.op \notin Root /\ Top.op \in Tree /\ p = Reached(taken')
  BY <1>1 DEF Root, Tree
<1> HIDE DEF p, n
<1>7. Len(stack') = m - 1 /\ Upto(stack, stack', m - 1) /\ Last(stack') = stack[m - 1] /\ m - 1 > 0
  BY ONLY <1>1, <1>2, <1>6, PoppedAt
<1>8. /\ Level(stack, m - 1) \in Nat /\ Level(stack, m) = Level(stack, m - 1) + DeepAt(Last(stack).op)
      /\ TreeOf(stack, m) = TreesIn(stack)
  BY <1>2, <1>6, TopLevel
<1>9. Outside(stack, m) = Level(stack, m - 1)
  BY <1>1, <1>7, <1>8 DEF Outside
<1>10. Depth(p) = Level(stack, m - 1) /\ Level(stack, m) = Level(stack, m - 1) + 1
  <2>1. DeepAt(Last(stack).op) = 1 /\ Adj(Top.op, ret.kind) = -1
    BY <1>1, <1>2 DEF DeepAt, Deepens, Adj, Closing, Closers
  <2> QED BY <1>3, <1>8, <2>1
<1>11. Len(trees') = n - 1 /\ \A t \in 1..n - 1 : trees'[t] = trees[t]
  BY <1>1, <1>2, FrontFacts DEF IsSeq, n
<1>12. VarsAt(stack', trees', p)
  <2> SUFFICES ASSUME NEW t \in 1..Len(trees'), NEW i \in 1..Len(trees'[t].vars)
               PROVE  trees'[t].vars[i] = "$" \/ Sees(stack', t, i, trees'[t].vars[i], p)
    BY DEF VarsAt
  <2>1. t \in 1..n /\ t \in Nat /\ t <= n - 1 /\ trees'[t].vars = trees[t].vars
    BY <1>2, <1>11
  <2>2. trees[t].vars[i] = "$" \/ Sees(stack, t, i, trees[t].vars[i], P)
    BY <1>4, <2>1 DEF VarsAt, n
  <2>3. Bounds(stack, Len(stack), t, i)
    <3>1. stack[m].op = "treeList" /\ t <= TreeOf(stack, m)
      BY <1>1, <1>2, <1>8, <2>1, TopFacts
    <3> QED BY <3>1 DEF Bounds
  <2>4. ASSUME NEW name, Sees(stack, t, i, name, P) PROVE Sees(stack', t, i, name, p)
    <3>1. Outside(stack, Len(stack)) <= Depth(p) /\ Depth(p) < Level(stack, Len(stack))
      BY <1>8, <1>9, <1>10
    <3>2. StackInv(stack) /\ Last(stack).op \notin Root /\ stack' = Front(stack)
      BY <1>1, <1>2, <1>6
    <3> QED BY ONLY <1>5, <2>3, <2>4, <3>1, <3>2, SeesFall
  <2> QED BY <2>1, <2>2, <2>4
<1>13. Marks(stack', trees')
  <2>1. ASSUME NEW x \in 1..Len(stack') PROVE Stands(stack', stack, x) /\ TreeOf(stack', x) \in 1..n - 1
    <3>1. Len(stack') <= Len(stack) /\ Upto(stack, stack', Len(stack'))
      BY <1>2, <1>7
    <3>2. Stands(stack', stack, x)
      BY <1>2, <3>1, StandsUpto
    <3>3. TreesIn(stack') = TreesIn(stack) - 1
      BY <1>1, <1>2, <1>6, Popped
    <3>4. TreeOf(stack', x) \in 1..TreesIn(stack') + 1
      BY <1>2, TreeOfIn
    <3>5. TreesIn(stack') + 1 = n - 1
      BY <1>2, <3>3
    <3> QED BY <3>2, <3>4, <3>5
  <2>2. \A x \in 1..Len(stack') : stack'[x].op \in ControlOp =>
          Stands(stack', stack, x) /\ trees'[TreeOf(stack', x)].vars = trees[TreeOf(stack', x)].vars
    BY <1>11, <2>1
  <2> QED BY <1>2, <2>2, MarksStand
<1>14. Spot(Last(stack').op, ret'.kind, p, p) /\ Last(stack').op \notin {"defineName", "defineDelim"}
  BY <1>1, <1>2, SpotHere
<1> QED
  BY <1>2, <1>6, <1>12, <1>13, <1>14, ScopeIntro
-----------------------------------------------------------------------------
\* The variables a control leaves: those there were before it.
LEMMA VarsCut ==
  ASSUME AtWork, popVars, Top.op \in ControlOp, Marks(stack, trees)
  PROVE  /\ Len(trees') = Len(trees)
         /\ \A t \in 1..Len(trees) - 1 : trees'[t].vars = trees[t].vars
         /\ Len(trees'[Len(trees)].vars) = Top.mark /\ Top.mark \in Nat /\ Top.mark <= Len(trees[Len(trees)].vars)
         /\ Len(trees[Len(trees)].vars) \in Nat
         /\ \A i \in 1..Top.mark : trees'[Len(trees)].vars[i] = trees[Len(trees)].vars[i]
<1> USE DEF AtWork
<1> DEFINE n == Len(trees)
           v == trees[n].vars
           k == Top.mark
           w == SubSeq(v, 1, k)
<1>1. /\ Last(stack) = Top /\ Len(stack) \in Nat /\ Len(stack) > 0 /\ stack[Len(stack)] = Top /\ StackInv(stack) /\ k \in Nat
      /\ n = TreesIn(stack) + 1 /\ TreesIn(stack) \in Nat /\ IsSeq(trees) /\ DOMAIN trees = 1..n /\ n > 0 /\ n \in Nat
      /\ IsTree(trees[n])
  BY CurFacts, TopFacts DEF FrameRec
<1>2. IsSeq(v) /\ Len(v) \in Nat /\ trees[n] = [trees[n] EXCEPT !.vars = v] /\ DOMAIN v = 1..Len(v)
  <2>1. IsSeq(v)
    BY <1>1 DEF IsTree
  <2>2. trees[n] = [trees[n] EXCEPT !.vars = v]
    BY <1>1 DEF IsTree, TreeRec
  <2> QED BY <2>1, <2>2 DEF IsSeq
<1>3. k <= Len(v)
  <2>1. TreeOf(stack, Len(stack)) = n
    BY <1>1, TopLevel DEF Tree, ControlOp
  <2> QED BY <1>1, <2>1 DEF Marks
<1>4. trees' = [trees EXCEPT ![n].vars = w]
  BY DEF popVars
<1>5. Len(trees') = n /\ trees'[n].vars = w /\ \A t \in 1..n - 1 : trees'[t] = trees[t]
  <2>1. trees' = [trees EXCEPT ![n] = [trees[n] EXCEPT !.vars = w]]
    BY <1>4
  <2> DEFINE x == [trees[n] EXCEPT !.vars = w]
  <2>2. x.vars = w
    BY <1>1 DEF IsTree, TreeRec
  <2>3. trees' = [trees EXCEPT ![n] = x]
    BY <2>1
  <2> HIDE DEF x, w, v
  <2>4. DOMAIN trees' = 1..n /\ trees'[n] = x /\ \A t \in 1..n - 1 : trees'[t] = trees[t]
    BY <1>1, <2>3
  <2>5. IsSeq(trees')
    BY <1>1, <2>3, ExceptSeq
  <2>6. Len(trees') = n
    BY <1>1, <2>4, <2>5 DEF IsSeq
  <2> QED BY <2>2, <2>4, <2>6
<1>6. Len(w) = k /\ \A i \in 1..k : w[i] = v[i]
  <2> HIDE DEF v
  <2>1. v \in Seq({v[i] : i \in DOMAIN v})
    BY <1>2 DEF IsSeq
  <2> HIDE DEF k
  <2> DEFINE S == {v[i] : i \in DOMAIN v}
  <2>2. v \in Seq(S)
    BY <2>1
  <2> HIDE DEF S
  <2> QED BY ONLY <1>1, <1>2, <1>3, <2>2 DEF w
<1> QED
  BY <1>1, <1>2, <1>3, <1>5, <1>6

LEMMA EndControlScope ==
  ASSUME AtWork, ScopeNow, EndControl
  PROVE  ScopeThen
<1> USE DEF AtWork
<1> DEFINE p == Reached(taken)
           n == Len(trees)
           m == Len(stack)
<1>1. /\ NestThen /\ taken' = taken /\ popVars /\ stack' = Front(stack) /\ ret' = Node
      /\ Top.op \in {"controlEnd", "controlList", "controlElse"} /\ Last(stack').op \in {"parsed", "listed", "controlEnd"}
      /\ Unsettled(Top.op, ret.kind)
  <2>1. Top.op = "controlEnd" \/ (ret.kind = "end" /\ Top.op \in {"controlList", "controlElse"})
    BY DEF EndControl, At
  <2>2. Unsettled(Top.op, ret.kind)
    BY <2>1 DEF Unsettled, Closing, Closers
  <2> QED BY <2>2, EndControlNest
<1>2. /\ Last(stack) = Top /\ p \in Nat /\ m \in Nat /\ m > 0 /\ Len(stack') \in Nat /\ stack[m] = Top
      /\ StackInv(stack) /\ StackInv(stack') /\ n = TreesIn(stack) + 1 /\ TreesIn(stack) \in Nat /\ n \in Nat /\ n > 0
      /\ Marks(stack, trees) /\ Scoped(p) /\ IsSeq(trees)
  BY ScopeFacts, CurFacts, TopFacts
<1>3. Depth(p) = Level(stack, Len(stack)) + Adj(Top.op, ret.kind) /\ Level(stack, Len(stack)) \in Nat
  BY LevelFacts DEF NestNow, Nest, Top
<1>4. PICK P \in 0..p : Spot(Top.op, ret.kind, p, P) /\ VarsAt(stack, trees, P)
  BY ScopeFacts
<1>5. Fall(P, p)
  BY <1>1, <1>2, <1>4 DEF Spot, Fall
<1>6. Top.op \notin Root /\ Top.op \notin Tree /\ Top.op \in ControlOp /\ p = Reached(taken') /\ Top.op # "treeList"
  BY <1>1 DEF Root, Tree, ControlOp
<1>7. /\ Len(trees') = n
      /\ \A t \in 1..n - 1 : trees'[t].vars = trees[t].vars
      /\ Len(trees'[n].vars) = Top.mark /\ Top.mark \in Nat /\ Top.mark <= Len(trees[n].vars) /\ Len(trees[n].vars) \in Nat
      /\ \A i \in 1..Top.mark : trees'[n].vars[i] = trees[n].vars[i]
  BY <1>1, <1>2, <1>6, VarsCut
<1> HIDE DEF p, n
<1>8. Len(stack') = m - 1 /\ Upto(stack, stack', m - 1) /\ Last(stack') = stack[m - 1] /\ m - 1 > 0
  BY ONLY <1>1, <1>2, <1>6, PoppedAt
<1>9. /\ Level(stack, m - 1) \in Nat /\ Level(stack, m) = Level(stack, m - 1) + DeepAt(Last(stack).op)
      /\ TreeOf(stack, m) = n
  BY <1>2, <1>6, TopLevel
<1>10. Depth(p) = Level(stack, m - 1)
  <2>1. Adj(Top.op, ret.kind) = 0 - DeepAt(Top.op)
    BY <1>1 DEF DeepAt, Deepens, Adj, Unsettled, Closing, Closers
  <2>2. DeepAt(Top.op) \in Nat
    BY DEF DeepAt
  <2> QED BY <1>2, <1>3, <1>9, <2>1, <2>2
<1>11. ASSUME NEW t \in 1..Len(trees'), NEW i \in 1..Len(trees'[t].vars)
       PROVE  /\ t \in 1..n /\ i \in 1..Len(trees[t].vars) /\ trees'[t].vars[i] = trees[t].vars[i]
              /\ Bounds(stack, Len(stack), t, i)
  <2>1. CASE t = n
    <3>1. i \in 1..Len(trees[t].vars) /\ i <= Top.mark /\ trees'[t].vars[i] = trees[t].vars[i]
      BY <1>7, <1>11, <2>1
    <3> QED BY <1>2, <1>6, <1>9, <2>1, <3>1 DEF Bounds
  <2>2. CASE t # n
    <3>1. t \in 1..n - 1 /\ t < n
      BY <1>2, <1>7, <1>11, <2>2
    <3> QED BY <1>2, <1>6, <1>7, <1>9, <1>11, <3>1 DEF Bounds
  <2> QED BY <2>1, <2>2
<1>12. ASSUME NEW P2 \in Nat, P2 <= p, \A t, i, name : Bounds(stack, Len(stack), t, i) /\ Sees(stack, t, i, name, P) => Sees(stack', t, i, name, P2)
       PROVE  VarsAt(stack', trees', P2)
  <2> SUFFICES ASSUME NEW t \in 1..Len(trees'), NEW i \in 1..Len(trees'[t].vars)
               PROVE  trees'[t].vars[i] = "$" \/ Sees(stack', t, i, trees'[t].vars[i], P2)
    BY DEF VarsAt
  <2>1. /\ t \in 1..n /\ i \in 1..Len(trees[t].vars) /\ trees'[t].vars[i] = trees[t].vars[i]
        /\ Bounds(stack, Len(stack), t, i)
    BY <1>11
  <2>2. trees[t].vars[i] = "$" \/ Sees(stack, t, i, trees[t].vars[i], P)
    BY <1>4, <2>1 DEF VarsAt, n
  <2> QED BY <1>12, <2>1, <2>2
<1>13. Marks(stack', trees')
  <2>1. ASSUME NEW x \in 1..Len(stack'), stack'[x].op \in ControlOp
        PROVE  Stands(stack', stack, x) /\ TreeOf(stack', x) \in 1..n /\ x \in 1..m - 1
    <3>1. Len(stack') <= Len(stack) /\ Upto(stack, stack', Len(stack')) /\ x \in 1..m - 1
      BY <1>2, <1>8
    <3>2. Stands(stack', stack, x)
      BY <1>2, <3>1, StandsUpto
    <3>3. TreesIn(stack') = TreesIn(stack)
      BY <1>1, <1>2, <1>6, Popped
    <3>4. TreeOf(stack', x) \in 1..TreesIn(stack') + 1
      BY <1>2, TreeOfIn
    <3> QED BY <1>2, <3>1, <3>2, <3>3, <3>4
  <2>2. ASSUME NEW x \in 1..Len(stack'), stack'[x].op \in ControlOp PROVE stack'[x].mark <= Len(trees'[TreeOf(stack', x)].vars)
    <3>1. Stands(stack', stack, x) /\ TreeOf(stack', x) \in 1..n /\ x \in 1..m - 1
      BY <2>1, <2>2
    <3>2. x \in 1..Len(stack) /\ stack[x].op \in ControlOp /\ stack'[x].mark = stack[x].mark /\ TreeOf(stack', x) = TreeOf(stack, x)
      BY <2>2, <3>1 DEF Stands
    <3>3. CASE TreeOf(stack, x) = n
      <4>1. m \in 1..Len(stack) /\ x < m /\ stack[m].op \in ControlOp
        BY <1>2, <1>6, <3>1
      <4>2. stack[x].mark <= stack[m].mark
        BY <1>2, <1>9, <3>2, <3>3, <4>1 DEF Marks
      <4> QED BY <1>2, <1>7, <3>2, <3>3, <4>2
    <3>4. CASE TreeOf(stack, x) # n
      <4>1. TreeOf(stack, x) \in 1..n - 1
        BY <1>2, <3>1, <3>2, <3>4
      <4>2. stack[x].mark <= Len(trees[TreeOf(stack, x)].vars)
        BY <1>2, <3>2 DEF Marks
      <4> QED BY <1>7, <3>2, <4>1, <4>2
    <3> QED BY <3>3, <3>4
  <2>3. ASSUME NEW x \in 1..Len(stack'), NEW y \in 1..Len(stack'), x < y, stack'[x].op \in ControlOp, stack'[y].op \in ControlOp,
               TreeOf(stack', x) = TreeOf(stack', y)
        PROVE  stack'[x].mark <= stack'[y].mark
    <3>1. Stands(stack', stack, x) /\ Stands(stack', stack, y)
      BY <2>1, <2>3
    <3> QED BY <1>2, <2>3, <3>1 DEF Marks, Stands
  <2> QED BY <2>2, <2>3 DEF Marks
<1>14. Last(stack').op \notin {"defineName", "defineDelim"}
  BY <1>1
<1>15. StackInv(stack) /\ Last(stack).op \notin Root /\ Last(stack).op # "treeList" /\ stack' = Front(stack)
  BY <1>1, <1>2, <1>6
<1>16. CASE Last(stack').op = "controlEnd"
  <2>1. P \in Nat /\ P <= p
    BY <1>5 DEF Fall
  <2>2. VarsAt(stack', trees', P)
    <3>1. ASSUME NEW t, NEW i, NEW name, Sees(stack, t, i, name, P) PROVE Sees(stack', t, i, name, P)
      BY ONLY <1>15, <2>1, <3>1, SeesPop
    <3> QED BY <1>12, <2>1, <3>1
  <2>3. Spot(Last(stack').op, ret'.kind, p, P)
    BY <1>5, <1>16 DEF Fall, Spot, Unsettled
  <2> QED BY <1>2, <1>6, <1>13, <1>14, <2>1, <2>2, <2>3, ScopeIntro
<1>17. CASE Last(stack').op # "controlEnd"
  <2>1. Outside(stack, Len(stack)) = Level(stack, m - 1)
    BY <1>8, <1>9, <1>17 DEF Outside
  <2>2. Outside(stack, Len(stack)) <= Depth(p)
    BY <1>9, <1>10, <2>1
  <2>3. VarsAt(stack', trees', p)
    <3>1. ASSUME NEW t, NEW i, NEW name, Bounds(stack, Len(stack), t, i), Sees(stack, t, i, name, P) PROVE Sees(stack', t, i, name, p)
      BY ONLY <1>5, <1>15, <2>2, <3>1, SeesFall
    <3> QED BY <1>2, <1>12, <3>1
  <2>4. Spot(Last(stack').op, ret'.kind, p, p)
    BY <1>1, <1>2, SpotHere
  <2> QED BY <1>2, <1>6, <1>13, <1>14, <2>3, <2>4, ScopeIntro
<1> QED
  BY <1>16, <1>17
-----------------------------------------------------------------------------
\* A declaration: the variable is seen from now on.
LEMMA VarsGrown ==
  ASSUME AtWork, NEW name, trees' = [trees EXCEPT ![Len(trees)] = [next EXCEPT !.vars = Append(@, name)]]
  PROVE  /\ Len(trees') = Len(trees) /\ Len(trees[Len(trees)].vars) \in Nat
         /\ \A t \in 1..Len(trees) - 1 : trees'[t].vars = trees[t].vars
         /\ Len(trees'[Len(trees)].vars) = Len(trees[Len(trees)].vars) + 1
         /\ \A i \in 1..Len(trees[Len(trees)].vars) : trees'[Len(trees)].vars[i] = trees[Len(trees)].vars[i]
         /\ trees'[Len(trees)].vars[Len(trees[Len(trees)].vars) + 1] = name
<1> USE DEF AtWork
<1> DEFINE n == Len(trees)
           v == trees[n].vars
           w == Append(v, name)
           x == [next EXCEPT !.vars = w]
<1>1. IsSeq(trees) /\ DOMAIN trees = 1..n /\ n > 0 /\ n \in Nat /\ IsTree(Cur) /\ Cur = trees[n]
  BY CurFacts
<1>2. next.vars = v /\ x.vars = w
  BY <1>1 DEF next, IsTree, TreeRec
<1>3. trees' = [trees EXCEPT ![n] = x]
  BY <1>2
<1>4. IsSeq(v) /\ DOMAIN v = 1..Len(v) /\ Len(v) \in Nat
  <2>1. IsSeq(v)
    BY <1>1 DEF IsTree
  <2> QED BY <2>1 DEF IsSeq
<1> HIDE DEF x
<1>5. Len(trees') = n /\ trees'[n] = x /\ \A t \in 1..n - 1 : trees'[t] = trees[t]
  <2> HIDE DEF v, w
  <2>1. DOMAIN trees' = 1..n /\ trees'[n] = x /\ \A t \in 1..n - 1 : trees'[t] = trees[t]
    BY <1>1, <1>3
  <2>2. IsSeq(trees')
    BY <1>1, <1>3, ExceptSeq
  <2>3. Len(trees') = n
    BY <1>1, <2>1, <2>2 DEF IsSeq
  <2> QED BY <2>1, <2>3
<1>6. Len(w) = Len(v) + 1 /\ (\A i \in 1..Len(v) : w[i] = v[i]) /\ w[Len(v) + 1] = name
  <2> DEFINE S == {v[i] : i \in DOMAIN v} \cup {name}
  <2>1. v \in Seq(S) /\ name \in S
    <3>1. v \in Seq({v[i] : i \in DOMAIN v})
      BY <1>4 DEF IsSeq
    <3>2. v \in [1..Len(v) -> S]
      BY <1>4, <3>1
    <3> HIDE DEF v
    <3>3. name \in S
      OBVIOUS
    <3> HIDE DEF S
    <3> QED BY <1>4, <3>2, <3>3, AsSequence
  <2> HIDE DEF S, v
  <2> QED BY ONLY <1>4, <2>1 DEF w
<1> QED
  BY <1>2, <1>4, <1>5, <1>6

LEMMA DeclareScope ==
  ASSUME AtWork, ScopeNow, declarations, taken' # taken
  PROVE  ScopeThen
<1> USE DEF AtWork
<1> DEFINE p == Reached(taken)
           h == Top.v.at
           q == token.at
           n == Len(trees)
           l == Len(trees[n].vars)
<1>1. /\ NestThen /\ UsedBoth /\ ~Opens(q) /\ token.typ \in {"assign", "declare", "comma"} /\ Top.v.typ = "variable"
      /\ Shifted /\ Last(stack').op \in Pipe /\ Settled(Top.op, ret.kind)
      /\ trees' = [trees EXCEPT ![Len(trees)] = [next EXCEPT !.vars = Append(@, Top.v.name)]]
  BY DeclareNest
<1>2. /\ p \in Nat /\ Len(stack) \in Nat /\ Len(stack') \in Nat
      /\ StackInv(stack) /\ StackInv(stack') /\ n = TreesIn(stack) + 1 /\ TreesIn(stack) \in Nat /\ n \in Nat /\ n > 0
      /\ Marks(stack, trees) /\ Scoped(p) /\ VarsAt(stack, trees, p)
  BY <1>1, ScopeFacts, CurFacts
<1>3. /\ Follows(p, h) /\ Follows(h, q) /\ input[h].typ = "variable" /\ input[h].name = Top.v.name
      /\ input[q].typ \in {"assign", "declare", "comma"} /\ Reached(taken') = q
  BY <1>1 DEF UsedBoth
<1>4. /\ Len(trees') = n /\ l \in Nat
      /\ \A t \in 1..n - 1 : trees'[t].vars = trees[t].vars
      /\ Len(trees'[n].vars) = l + 1
      /\ \A i \in 1..l : trees'[n].vars[i] = trees[n].vars[i]
      /\ trees'[n].vars[l + 1] = Top.v.name
  BY <1>1, VarsGrown
<1>5. Kept(stack, stack')
  BY <1>1 DEF Shifted
<1>6. TreesIn(stack') = TreesIn(stack)
  BY <1>2, <1>5, KeptLevel
<1> HIDE DEF p, h, q, n, l
<1>7. Lull(p, h) /\ Lull(h, q) /\ Lull(p, q) /\ h \in Nat /\ q \in Nat /\ h < q /\ h > 0 /\ ~Opens(h)
  <2>1. ~Opens(h)
    BY <1>3, OpensAt DEF Control
  <2>2. Lull(p, h) /\ Lull(h, q)
    BY <1>1, <1>3, <2>1, LullStep
  <2> QED BY <1>3, <2>1, <2>2, LullLull, Between
<1>8. SameVars(trees, trees)
  BY DEF SameVars
<1>9. VarsAt(stack', trees, q)
  <2>1. VarsAt(stack', trees, p)
    BY <1>2, <1>5, <1>8, VarsKept
  <2> QED BY <1>7, <2>1, VarsLull
<1>10. Marks(stack', trees)
  BY <1>2, <1>5, <1>8, MarksKept DEF n
<1>11. Declares(h) /\ Declared(h, Top.v.name)
  <2>1. q \in {h + 1, h + 2} /\ q <= Len(input) /\ (q = h + 2 => input[h + 1].typ = "space")
    <3>1. q = h + 1 \/ (q = h + 2 /\ IsSpace(h + 1))
      BY <1>3 DEF Follows
    <3>2. q \in DOMAIN input /\ DOMAIN input = 1..Len(input)
      BY <1>3, InputFacts DEF Follows, Working
    <3> QED BY <1>7, <3>1, <3>2 DEF IsSpace
  <2>2. Declares(h)
    BY <1>3, <2>1 DEF Declares
  <2> QED BY <1>3, <2>2 DEF Declared
<1>12. Sees(stack', n, l + 1, Top.v.name, q)
  <2>1. h \in 1..q /\ h \in 1..h
    BY <1>7
  <2>2. Steady(h, q)
    <3>1. \A m \in h..h : m = h
      BY <1>7
    <3>2. Depth(h) \in Int
      BY <1>7, DepthNext
    <3>3. Steady(h, h)
      BY <3>1, <3>2 DEF Steady
    <3> QED BY <1>7, <2>1, <3>3, SteadyLull
  <2>3. InTree(stack', n, h, q)
    <3>1. \A b \in h..q : b = h \/ b \in h + 1..q
      BY <1>7
    <3>2. \A b \in h..q : ~Opens(b)
      BY <1>7, <3>1 DEF Lull
    <3> QED BY <3>2 DEF InTree
  <2>4. Around(stack', n, l + 1, h)
    <3>1. ASSUME NEW x \in 1..Len(stack') PROVE ~Bounds(stack', x, n, l + 1)
      <4>1. /\ TreeOf(stack', x) \in 1..n
            /\ stack'[x].op \in Tree => TreeOf(stack', x) <= n - 1
        <5>1. /\ TreeOf(stack', x) \in 1..TreesIn(stack') + 1
              /\ stack'[x].op \in Tree => TreeOf(stack', x) <= TreesIn(stack')
          BY <1>2, TreeOfIn
        <5> QED BY <1>2, <1>6, <5>1
      <4>2. stack'[x].op = "treeList" => ~(n <= TreeOf(stack', x))
        BY <1>2, <4>1 DEF Tree
      <4>3. stack'[x].op \in ControlOp /\ TreeOf(stack', x) = n => ~(l + 1 <= stack'[x].mark)
        <5>1. stack'[x].mark \in Nat
          <6>1. stack' \in Seq(FrameRec)
            BY <1>2 DEF StackInv
          <6>2. stack'[x] \in FrameRec
            BY <1>2, <6>1
          <6> QED BY <6>2 DEF FrameRec
        <5>2. stack'[x].op \in ControlOp /\ TreeOf(stack', x) = n => stack'[x].mark <= l
          BY <1>10 DEF Marks, l
        <5> QED BY <1>4, <5>1, <5>2
      <4>4. ~(n < TreeOf(stack', x))
        BY <1>2, <4>1
      <4> QED BY <4>2, <4>3, <4>4 DEF Bounds
    <3> QED BY <3>1 DEF Around
  <2> QED BY <1>11, <2>1, <2>2, <2>3, <2>4 DEF Sees
<1>13. VarsAt(stack', trees', q)
  <2> SUFFICES ASSUME NEW t \in 1..Len(trees'), NEW i \in 1..Len(trees'[t].vars)
               PROVE  trees'[t].vars[i] = "$" \/ Sees(stack', t, i, trees'[t].vars[i], q)
    BY DEF VarsAt
  <2>1. CASE t = n /\ i = l + 1
    BY <1>4, <1>12, <2>1
  <2>2. CASE ~(t = n /\ i = l + 1)
    <3>1. t \in 1..n /\ i \in 1..Len(trees[t].vars) /\ trees'[t].vars[i] = trees[t].vars[i]
      <4>1. CASE t = n
        <5>1. i \in 1..l
          BY <1>4, <2>2, <4>1
        <5> QED BY <1>2, <1>4, <4>1, <5>1 DEF l
      <4>2. CASE t # n
        <5>1. t \in 1..n - 1
          BY <1>2, <1>4, <4>2
        <5> QED BY <1>4, <5>1
      <4> QED BY <4>1, <4>2
    <3>2. trees[t].vars[i] = "$" \/ Sees(stack', t, i, trees[t].vars[i], q)
      BY <1>9, <3>1 DEF VarsAt, n
    <3> QED BY <3>1, <3>2
  <2> QED BY <2>1, <2>2
<1>14. Marks(stack', trees')
  <2>1. ASSUME NEW x \in 1..Len(stack'), stack'[x].op \in ControlOp PROVE stack'[x].mark <= Len(trees'[TreeOf(stack', x)].vars)
    <3>1. TreeOf(stack', x) \in 1..n
      BY <1>2, <1>6, TreeOfIn
    <3>2. stack'[x].mark <= Len(trees[TreeOf(stack', x)].vars)
      BY <1>10, <2>1 DEF Marks
    <3>3. stack'[x].mark \in Nat
      <4>1. stack' \in Seq(FrameRec)
        BY <1>2 DEF StackInv
      <4>2. stack'[x] \in FrameRec
        BY <1>2, <4>1
      <4> QED BY <4>2 DEF FrameRec
    <3>4. CASE TreeOf(stack', x) = n
      BY <1>4, <3>2, <3>3, <3>4 DEF l
    <3>5. CASE TreeOf(stack', x) # n
      <4>1. TreeOf(stack', x) \in 1..n - 1
        BY <1>2, <3>1, <3>5
      <4> QED BY <1>4, <3>2, <4>1
    <3> QED BY <3>4, <3>5
  <2> QED BY <1>10, <2>1 DEF Marks
<1>15. Scoped(q)
  <2>1. Scoped(h)
    BY <1>2, <1>3, <1>11, ScopedOn
  <2>2. input[q].typ # "variable"
    BY <1>3
  <2> QED BY <1>3, <2>1, <2>2, ScopedOther
<1>16. Spot(Last(stack').op, ret'.kind, q, q) /\ Last(stack').op \notin {"defineName", "defineDelim"}
  BY <1>1, <1>7, SpotHere DEF Pipe
<1> QED
  BY <1>3, <1>7, <1>13, <1>14, <1>15, <1>16, ScopeIntro
-----------------------------------------------------------------------------
\* Every step.
LEMMA ScopeKept ==
  ASSUME AtWork, ScopeNow, Parse
  PROVE  ScopeThen
<1>1. CASE nextNonSpace \/ parse \/ parsed \/ itemList \/ textOrAction \/ done \/ endControl \/ elseControl
  BY <1>1, NextNonSpaceNest, ParseNest, ParsedNest, ItemListNest, TextOrActionNest, DoneNest, EndControlOpNest, ElseControlNest,
     SlightScope
<1>2. CASE parseDelim
  BY <1>2, ParseDelimNest, SlightScope, DefineScope
<1>3. CASE parseDefinition
  BY <1>3, DefineNameNest, SlightScope, DefineDelimScope DEF parseDefinition, At
<1>4. CASE action
  BY <1>4, ActionNest, SlightScope, ControlScope
<1>5. CASE parseControl
  BY <1>5, ParseControlNest, SlightScope, ChainedScope
<1>6. CASE templateControl \/ pipeline \/ operand \/ command
  BY <1>6, TemplateControlNest, PipelineNest, OperandNest, CommandsNest, SlightScope
<1>7. CASE declarations
  BY <1>7, DeclarationsNest, SlightScope, DeclareScope
<1>8. CASE EndTree \/ EndControl \/ blockControl
  BY <1>8, EndTreeScope, EndControlScope, BlockControlScope
<1> QED
  BY <1>1, <1>2, <1>3, <1>4, <1>5, <1>6, <1>7, <1>8 DEF Parse

\* The text stays: what is in scope is so after the step.
LEMMA ScopeNext ==
  ASSUME input' = input, ScopeThen
  PROVE  ScopeNow'
<1>1. ASSUME NEW k PROVE Depth(k)' = Depth(k) /\ (Opens(k)' <=> Opens(k)) /\ (Declares(k)' <=> Declares(k))
  BY SameText
<1>2. Depth(Reached(taken))' = Depth(Reached(taken'))
  BY DEF Depth, Opens, Before, Reached
<1>3. ASSUME NEW j, NEW k PROVE (Steady(j, k)' <=> Steady(j, k)) /\ (Lull(j, k)' <=> Lull(j, k)) /\ (InScope(j, k)' <=> InScope(j, k))
  BY <1>1 DEF Steady, Lull, InScope
<1>4. ASSUME NEW P, Spot(Last(stack').op, ret'.kind, Reached(taken'), P)
      PROVE  Spot(Last(stack).op, ret.kind, Reached(taken), P)'
  BY <1>1, <1>2, <1>3, <1>4 DEF Spot
<1>5. ASSUME NEW P, VarsAt(stack', trees', P)
      PROVE  VarsAt(stack, trees, P)'
  BY <1>1, <1>3, <1>5 DEF VarsAt, Sees, InTree, Around, Declared
<1>6. Scoped(Reached(taken'))=> Scoped(Reached(taken))'
  BY <1>1, <1>3 DEF Scoped, Declared
<1>7. Marks(stack', trees') => Marks(stack, trees)'
  BY DEF Marks
<1>8. Bare(Last(stack').op, Last(trees').vars) => Bare(Last(stack).op, Last(trees).vars)'
  BY DEF Bare
<1> QED
  BY <1>4, <1>5, <1>6, <1>7, <1>8 DEF ScopeThen, ScopeNow, Scope

ScopeInv == status = "parsing" => ScopeNow

LEMMA ScopeStep ==
  ASSUME Inv, NestInv, ScopeInv, [Next]_vars
  PROVE  ScopeInv'
<1> SUFFICES ASSUME status' = "parsing" PROVE ScopeNow'
  BY DEF ScopeInv
<1>1. Inv'
  BY InvNext
<1>2. CASE Parse
  <2>1. AtWork /\ ScopeNow /\ input' = input
    BY <1>1, <1>2, WhileParsing DEF AtWork, Working, NestInv, ScopeInv
  <2> QED BY <1>2, <2>1, ScopeKept, ScopeNext
<1>3. CASE UNCHANGED vars
  <2>1. ScopeThen /\ input' = input
    <3>1. stack' = stack /\ trees' = trees /\ ret' = ret /\ taken' = taken /\ status' = status /\ input' = input
      BY <1>3 DEF vars
    <3> QED BY <3>1 DEF ScopeInv, ScopeNow, ScopeThen
  <2> QED BY <2>1, ScopeNext
<1> QED
  BY <1>2, <1>3 DEF Next, Fail, errorf, Finished

LEMMA ScopeInit ==
  ASSUME Init
  PROVE  ScopeInv
<1> DEFINE f == Frame("parse", "root")
           t == New(Main)
<1>1. stack = <<f>> /\ taken = <<>> /\ trees = <<t>>
  BY DEF Init
<1>2. f.op = "parse" /\ t.vars = <<"$">>
  BY NewFrame DEF Op, Root, Context, New
<1> HIDE DEF f, t
<1>3. /\ Len(stack) = 1 /\ stack[1] = f /\ Last(stack) = f /\ Reached(taken) = 0
      /\ Len(trees) = 1 /\ trees[1] = t
  BY <1>1 DEF Last, Reached
<1>4. VarsAt(stack, trees, 0)
  <2>1. \A i \in 1..Len(<<"$">>) : <<"$">>[i] = "$"
    OBVIOUS
  <2> QED BY <1>2, <1>3, <2>1 DEF VarsAt
<1>5. Marks(stack, trees) /\ Scoped(0) /\ Bare(Last(stack).op, Last(trees).vars)
  BY <1>2, <1>3 DEF Marks, Scoped, Bare, ControlOp
<1>6. Spot(Last(stack).op, ret.kind, 0, 0) /\ 0 \in 0..0
  BY <1>2, <1>3, SpotHere
<1> QED
  BY <1>3, <1>4, <1>5, <1>6 DEF ScopeInv, ScopeNow, Scope

\* A text is accepted: all its variables have been used in the scope of a declaration.
LEMMA AcceptedIsScoped ==
  ASSUME Working, ScopeNow, Top.op = "parse", token.typ = "eof"
  PROVE  Scoped(Len(input))
<1> DEFINE p == Reached(taken)
<1>1. Scoped(p)
  BY DEF ScopeNow, Scope
<1>2. p \in 0..Len(input) /\ Len(input) \in Nat /\ \A m \in p + 1..Len(input) : IsSpace(m)
  BY TextEnds
<1> HIDE DEF p
<1> SUFFICES ASSUME NEW k \in 1..Len(input), input[k].typ = "variable", input[k].name # "$", ~Declares(k)
             PROVE  \E j \in 1..k : Declared(j, input[k].name) /\ InScope(j, k)
  BY DEF Scoped
<1>3. k \in 1..p \/ k \in p + 1..Len(input)
  BY <1>2
<1>4. k \in 1..p
  BY <1>2, <1>3 DEF IsSpace
<1> QED
  BY <1>1, <1>4 DEF Scoped

LEMMA ScopeRespectedStep ==
  ASSUME Inv, ScopeInv, ScopeRespected, [Next]_vars
  PROVE  ScopeRespected'
<1> SUFFICES ASSUME status' = "ok" PROVE ScopeRespected'
  BY DEF ScopeRespected
<1>1. input' = input /\ (status = "ok" \/ (status = "parsing" /\ Top.op = "parse" /\ token.typ = "eof"))
  BY Accepts
<1>2. DOMAIN input = 1..Len(input)
  BY InputFacts
<1>3. Scoped(Len(input))
  <2>1. CASE status = "ok"
    BY <1>2, <2>1 DEF ScopeRespected, Scoped, Declared
  <2>2. CASE status = "parsing" /\ Top.op = "parse" /\ token.typ = "eof"
    BY <2>2, AcceptedIsScoped DEF Working, ScopeInv
  <2> QED BY <1>1, <2>1, <2>2
<1>4. ASSUME NEW k PROVE Declares(k)' <=> Declares(k)
  BY <1>1, SameText
<1>5. ASSUME NEW j, NEW k PROVE InScope(j, k)' <=> InScope(j, k)
  <2>1. ASSUME NEW m PROVE Depth(m)' = Depth(m) /\ (Opens(m)' <=> Opens(m))
    BY <1>1, SameText
  <2> QED BY <1>1, <2>1 DEF InScope
<1> QED
  BY <1>1, <1>2, <1>3, <1>4, <1>5 DEF ScopeRespected, Scoped, Declared

\* Parser!ScopeRespected: a text that is accepted uses every variable in the scope of a declaration:
\* not past the {end} of the control it is declared in, nor in the text of another template.
THEOREM ScopesRespected == Spec => []ScopeRespected
<1>1. Init => Inv /\ NestInv /\ ScopeInv /\ ScopeRespected
  BY InvInit, NestInit, ScopeInit DEF Init, ScopeRespected
<1>2. Inv /\ NestInv /\ ScopeInv /\ ScopeRespected /\ [Next]_vars => (Inv /\ NestInv /\ ScopeInv /\ ScopeRespected)'
  BY InvNext, NestStep, ScopeStep, ScopeRespectedStep
<1> QED
  BY <1>1, <1>2, PTL DEF Spec
=============================================================================
