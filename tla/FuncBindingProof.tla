-------------------------- MODULE FuncBindingProof --------------------------
(***************************************************************************)
(* The functions InitDBFunc puts into a struct are those of the statements *)
(* loaded for it: for any struct types, files and programs.                *)
(*                                                                         *)
(* The statements of a type are dealt with in order, and the trees of each *)
(* enter the set in any order, an empty one never in the place of another: *)
(* what the invariant says of the set is, for every name, which tree it    *)
(* has by then (Content).  That a function called after a whole            *)
(* initialisation runs follows, with the statements served as witnesses.   *)
(*                                                                         *)
(* What the registry has is compared with the files read one after another *)
(* (FlattenSeq): every load adds to the end of what the loads before it    *)
(* took, and the comments of a type in two files are those of the one and  *)
(* then those of the other.                                                *)
(***************************************************************************)
EXTENDS FuncBinding, SequenceTheorems, WellFoundedInduction, TLAPS

Named(infos, k, f) == {t \in Trees(infos[k]) : t.name = f}

\* The tree t is the one that has the name f after the first m statements: the last of those
\* that are not empty, or the first when all are.
IsLatest(t, infos, m, f) ==
  \E k \in 1 .. m :
    /\ t \in Named(infos, k, f)
    /\ \A j \in 1 .. m : \A u \in Named(infos, j, f) :
         IF IsEmptyTree(t) THEN IsEmptyTree(u) /\ k <= j ELSE IsEmptyTree(u) \/ j <= k

Content(set, infos, m, f) ==
  IF \E k \in 1 .. m : Named(infos, k, f) # {} THEN f \in DOMAIN set /\ IsLatest(set[f], infos, m, f)
  ELSE f \notin DOMAIN set

\* Where the program is.
StepInv ==
  /\ at.step # "start" => Running("init") /\ Len(sets) >= 1 /\ at.entry <= Len(Infos) + 1
  /\ at.step \in {"add", "bind"} => at.entry <= Len(Infos)
  /\ at.step = "start" /\ ~Running("loadDir") => at.entry = 1
  /\ at.step = "add" => pending \subseteq Trees(Info)
DirInv ==
  dirName # <<>> => Running("loadDir") /\ \E e \in ToSet(Op.entries) : dirName = <<e.name>>

\* What the set of the initialisation has.
SetInv == at.step # "start" => \A f \in Name : Content(sets[Len(sets)], Infos, Entered(f), f)

\* A function comes from a statement of its name, and another struct's is not in the set
\* being filled.
BoundInv ==
  \A T \in Types : \A f \in Functions(T) : bound[T][f] # Nil =>
    /\ \E k \in DOMAIN registry[T] : registry[T][k].name = f
    /\ at.step # "start" /\ T # Op.type => bound[T][f].set < Len(sets)

\* Once a struct is initialised its functions are there, with all that was served then.
Settled ==
  \A T \in Types : Initialised(T) => \A f \in Functions(T) :
    bound[T][f] # Nil /\ Known(served[T]) \subseteq DOMAIN sets[bound[T][f].set]

Inv == TypeOK /\ StepInv /\ DirInv /\ SetInv /\ BoundInv /\ BoundTrue /\ Settled /\ SettledRuns
-----------------------------------------------------------------------------
(* The least and the greatest number of a set.                             *)
LEMMA MaxIs ==
  ASSUME NEW S, S \subseteq Nat, NEW x \in S, \A y \in S : y <= x
  PROVE  Max(S) = x
<1>1. \A z \in S : (\A y \in S : z >= y) => z = x
  OBVIOUS
<1> QED
  BY <1>1 DEF Max

LEMMA MinIs ==
  ASSUME NEW S, S \subseteq Nat, NEW x \in S, \A y \in S : x <= y
  PROVE  Min(S) = x
<1>1. \A z \in S : (\A y \in S : z <= y) => z = x
  OBVIOUS
<1> QED
  BY <1>1 DEF Min

LEMMA CommentFacts ==
  ASSUME NEW c \in Comment
  PROVE  /\ c.type \in Types /\ c.name \in Name /\ c.text \in Text
         /\ c.text.parses \in BOOLEAN
         /\ Trees(c) \subseteq AnyTree /\ \E t \in Trees(c) : t.name = c.name
         /\ \A t, u \in Trees(c) : t.name = u.name => t = u
<1>1. c.type \in Types /\ c.name \in Name /\ c.text \in Text
  BY DEF Comment
<1>2. /\ c.text.parses \in BOOLEAN /\ c.text.body \in Body
      /\ c.text.calls \subseteq Name /\ c.text.defines \subseteq AnyTree
  BY <1>1 DEF Text
<1>3. Tree(c.name, c.text.body, c.text.calls) \in AnyTree
  BY <1>1, <1>2 DEF Tree, AnyTree
<1>4. Trees(c) \subseteq AnyTree
  BY <1>2, <1>3 DEF Trees
<1>5. Tree(c.name, c.text.body, c.text.calls).name = c.name
  BY DEF Tree
<1>6. \E t \in Trees(c) : t.name = c.name
  BY <1>5 DEF Trees
<1>7. \A t, u \in Trees(c) : t.name = u.name => t = u
  BY DEF Comment
<1> QED
  BY <1>1, <1>2, <1>4, <1>6, <1>7

LEMMA NamedOne ==
  ASSUME NEW infos \in Seq(Comment), NEW k \in DOMAIN infos, NEW f, NEW t \in Named(infos, k, f)
  PROVE  Named(infos, k, f) = {t}
<1>1. infos[k] \in Comment
  OBVIOUS
<1> QED
  BY <1>1, CommentFacts DEF Named

(* IsLatest says what Latest chooses.                                      *)
LEMMA LatestIs ==
  ASSUME NEW infos \in Seq(Comment), NEW m \in 0 .. Len(infos), NEW f, NEW t, IsLatest(t, infos, m, f)
  PROVE  t = Latest(SubSeq(infos, 1, m), f)
<1> DEFINE s == SubSeq(infos, 1, m)
           N(k) == {u \in Trees(s[k]) : u.name = f}
           all == {k \in DOMAIN s : N(k) # {}}
           full == {k \in all : \E u \in N(k) : ~IsEmptyTree(u)}
<1>0. Latest(s, f) = CHOOSE u \in N(IF full = {} THEN Min(all) ELSE Max(full)) : TRUE
  BY Zenon DEF Latest
<1>1. DOMAIN s = 1 .. m /\ \A k \in 1 .. m : s[k] = infos[k] /\ N(k) = Named(infos, k, f)
  BY DEF Named
<1>2. PICK k \in 1 .. m :
        /\ t \in Named(infos, k, f)
        /\ \A j \in 1 .. m : \A u \in Named(infos, j, f) :
             IF IsEmptyTree(t) THEN IsEmptyTree(u) /\ k <= j ELSE IsEmptyTree(u) \/ j <= k
  BY DEF IsLatest
<1>3. all \subseteq Nat /\ full \subseteq Nat /\ k \in all
  BY <1>1, <1>2
<1>4. N(k) = {t}
  BY <1>1, <1>2, NamedOne
<1> SUFFICES t = Latest(s, f)
  OBVIOUS
<1>5. CASE IsEmptyTree(t)
  <2>1. full = {}
    BY <1>1, <1>2, <1>5
  <2>2. \A j \in all : k <= j
    BY <1>1, <1>2, <1>5
  <2>3. Min(all) = k
    <3> HIDE DEF all, full
    <3> QED BY <1>3, <2>2, MinIs
  <2> QED
    <3> HIDE DEF all, full, s, N
    <3> QED BY <2>1, <2>3, <1>0, <1>4
<1>6. CASE ~IsEmptyTree(t)
  <2>1. k \in full
    BY <1>3, <1>4, <1>6
  <2>2. \A j \in full : j <= k
    BY <1>1, <1>2, <1>6
  <2>3. Max(full) = k
    <3> HIDE DEF all, full
    <3> QED BY <1>3, <2>1, <2>2, MaxIs
  <2> QED
    <3> HIDE DEF all, full, s, N
    <3> QED BY <2>1, <2>3, <1>0, <1>4
<1> QED
  BY <1>5, <1>6

(* What the set has for a name is what Latest chooses.                     *)
LEMMA ContentIs ==
  ASSUME NEW set, NEW infos \in Seq(Comment), NEW m \in 0 .. Len(infos), NEW f, Content(set, infos, m, f),
         NEW k \in 1 .. m, infos[k].name = f
  PROVE  f \in DOMAIN set /\ set[f] = Latest(SubSeq(infos, 1, m), f)
<1>1. Named(infos, k, f) # {}
  <2>1. infos[k] \in Comment
    OBVIOUS
  <2> QED BY <2>1, CommentFacts DEF Named
<1>2. f \in DOMAIN set /\ IsLatest(set[f], infos, m, f)
  BY <1>1 DEF Content
<1> QED
  BY <1>2, LatestIs

(* A statement without a tree of a name leaves what the name has.          *)
LEMMA ContentSkip ==
  ASSUME NEW set, NEW infos, NEW m \in Nat, NEW f, Content(set, infos, m, f), Named(infos, m + 1, f) = {}
  PROVE  Content(set, infos, m + 1, f)
<1>1. \A k \in 1 .. m + 1 : k \in 1 .. m \/ k = m + 1
  OBVIOUS
<1>2. (\E k \in 1 .. m : Named(infos, k, f) # {}) <=> \E k \in 1 .. m + 1 : Named(infos, k, f) # {}
  BY <1>1
<1>3. IsLatest(set[f], infos, m, f) => IsLatest(set[f], infos, m + 1, f)
  <2> SUFFICES ASSUME IsLatest(set[f], infos, m, f) PROVE IsLatest(set[f], infos, m + 1, f)
    OBVIOUS
  <2> DEFINE Later(u, j, k) == IF IsEmptyTree(set[f]) THEN IsEmptyTree(u) /\ k <= j ELSE IsEmptyTree(u) \/ j <= k
  <2>1. PICK k \in 1 .. m :
          set[f] \in Named(infos, k, f) /\ \A j \in 1 .. m : \A u \in Named(infos, j, f) : Later(u, j, k)
    BY DEF IsLatest
  <2>2. \A j \in 1 .. m + 1 : \A u \in Named(infos, j, f) : Later(u, j, k)
    BY <1>1, <2>1
  <2> QED
    BY <2>1, <2>2 DEF IsLatest
<1> QED
  BY <1>2, <1>3 DEF Content

(* A tree enters the set under its name, and leaves the other names alone. *)
LEMMA ContentOther ==
  ASSUME NEW set, NEW infos, NEW m, NEW f, NEW tree, f # tree.name, Content(set, infos, m, f)
  PROVE  Content(AddParseTree(set, tree), infos, m, f)
<1> DEFINE new == AddParseTree(set, tree)
<1>1. (f \in DOMAIN new <=> f \in DOMAIN set) /\ (f \in DOMAIN set => new[f] = set[f])
  BY DEF AddParseTree
<1> QED
  BY <1>1 DEF Content

LEMMA ContentAdd ==
  ASSUME NEW set, NEW infos \in Seq(Comment), NEW m \in Nat, m + 1 \in DOMAIN infos,
         NEW tree \in Trees(infos[m + 1]), Content(set, infos, m, tree.name)
  PROVE  Content(AddParseTree(set, tree), infos, m + 1, tree.name)
<1> DEFINE f == tree.name
           new == AddParseTree(set, tree)
           Later(t, u, j, k) == IF IsEmptyTree(t) THEN IsEmptyTree(u) /\ k <= j ELSE IsEmptyTree(u) \/ j <= k
<1>1. \A k \in 1 .. m + 1 : k \in 1 .. m \/ k = m + 1
  OBVIOUS
<1>2. tree \in Named(infos, m + 1, f) /\ Named(infos, m + 1, f) = {tree}
  <2>1. tree \in Named(infos, m + 1, f)
    BY DEF Named
  <2> QED BY <2>1, NamedOne
<1>3. (\E k \in 1 .. m + 1 : Named(infos, k, f) # {}) /\ f \in DOMAIN new
  BY <1>2 DEF AddParseTree
<1>4. CASE f \in DOMAIN set /\ IsEmptyTree(tree)
  <2>1. new[f] = set[f] /\ IsLatest(set[f], infos, m, f)
    BY <1>4 DEF Content, AddParseTree
  <2>2. PICK k \in 1 .. m :
          set[f] \in Named(infos, k, f) /\ \A j \in 1 .. m : \A u \in Named(infos, j, f) : Later(set[f], u, j, k)
    BY <2>1 DEF IsLatest
  <2>3. \A j \in 1 .. m + 1 : \A u \in Named(infos, j, f) : Later(set[f], u, j, k)
    BY <1>1, <1>2, <1>4, <2>2
  <2>4. IsLatest(set[f], infos, m + 1, f)
    BY <2>2, <2>3 DEF IsLatest
  <2> QED
    BY <1>3, <2>1, <2>4 DEF Content
<1>5. CASE ~(f \in DOMAIN set /\ IsEmptyTree(tree))
  <2>1. new[f] = tree
    BY <1>5 DEF AddParseTree
  <2>2. \A j \in 1 .. m + 1 : \A u \in Named(infos, j, f) : Later(tree, u, j, m + 1)
    <3>1. CASE f \in DOMAIN set
      BY <1>1, <1>2, <1>5, <3>1
    <3>2. CASE f \notin DOMAIN set
      <4>1. \A j \in 1 .. m : Named(infos, j, f) = {}
        BY <3>2 DEF Content
      <4> QED BY <1>1, <1>2, <4>1
    <3> QED BY <3>1, <3>2
  <2>3. IsLatest(tree, infos, m + 1, f)
    BY <1>2, <2>2 DEF IsLatest
  <2> QED
    BY <1>3, <2>1, <2>3 DEF Content
<1> QED
  BY <1>4, <1>5

LEMMA LeastNat ==
  ASSUME NEW S, S \subseteq Nat, S # {}
  PROVE  \E x \in S : \A y \in S : x <= y
<1> DEFINE R == OpToRel(<, Nat)
<1>1. IsWellFoundedOn(R, Nat)
  BY NatLessThanWellFounded
<1>2. \A x, y \in Nat : x < y => <<x, y>> \in R
  BY DEF OpToRel
<1> HIDE DEF R
<1>3. PICK x \in S : \A y \in S : ~ (<<y, x>> \in R)
  BY <1>1, WFMin
<1>4. \A y \in S : ~(y < x)
  BY <1>2, <1>3
<1> QED
  BY <1>3, <1>4

(* The comments of a type are all in the file, in the order of the file.   *)
\* The recursive function of OfType, up to n.
Picks(g, n, T, comments) ==
  g = [i \in 0 .. n |-> IF i = 0 THEN <<>>
                        ELSE IF comments[i].type = T THEN Append(g[i - 1], comments[i]) ELSE g[i - 1]]

LEMMA PicksExists ==
  ASSUME NEW n \in Nat, NEW T, NEW comments
  PROVE  \E g : Picks(g, n, T, comments)
<1> DEFINE S == {m \in Nat : ~ \E g : Picks(g, m, T, comments)}
<1>1. SUFFICES ASSUME S # {} PROVE FALSE
  BY <1>1
<1>2. PICK m \in S : \A y \in S : m <= y
  <2> HIDE DEF S
  <2>1. S \subseteq Nat
    BY DEF S
  <2> QED BY <1>1, <2>1, LeastNat
<1>3. CASE m = 0
  <2> DEFINE g == [i \in 0 .. 0 |-> <<>>]
  <2>1. Picks(g, 0, T, comments)
    BY DEF Picks
  <2> QED BY <1>3, <2>1
<1>4. CASE m # 0
  <2>1. m - 1 \in Nat /\ m - 1 \notin S
    BY <1>2, <1>4
  <2>2. PICK g : Picks(g, m - 1, T, comments)
    BY <2>1
  <2> DEFINE last == IF comments[m].type = T THEN Append(g[m - 1], comments[m]) ELSE g[m - 1]
             h == [i \in 0 .. m |-> IF i = m THEN last ELSE g[i]]
  <2>3. \A i \in 0 .. m : i = m \/ i \in 0 .. m - 1
    OBVIOUS
  <2>4. \A i \in 0 .. m - 1 :
          g[i] = IF i = 0 THEN <<>> ELSE IF comments[i].type = T THEN Append(g[i - 1], comments[i]) ELSE g[i - 1]
    BY <2>2 DEF Picks
  <2>5. \A i \in 0 .. m - 1 : h[i] = g[i] /\ (i # 0 => h[i - 1] = g[i - 1])
    BY <2>3
  <2>6. h[m] = last /\ h[m - 1] = g[m - 1]
    BY <1>4
  <2> HIDE DEF last, h
  <2>7. \A i \in 0 .. m :
          h[i] = IF i = 0 THEN <<>> ELSE IF comments[i].type = T THEN Append(h[i - 1], comments[i]) ELSE h[i - 1]
    BY <1>4, <2>3, <2>4, <2>5, <2>6 DEF last
  <2>8. h = [i \in 0 .. m |-> h[i]]
    BY DEF h
  <2>9. Picks(h, m, T, comments)
    BY <2>7, <2>8 DEF Picks
  <2> QED BY <2>9
<1> QED
  BY <1>3, <1>4

LEMMA OfTypeFacts ==
  ASSUME NEW comments \in Seq(Comment), NEW T
  PROVE  /\ OfType(T, comments) \in Seq(Comment)
         /\ \A k \in DOMAIN OfType(T, comments) : OfType(T, comments)[k].type = T
<1> DEFINE n == Len(comments)
           g == CHOOSE g : Picks(g, n, T, comments)
<1>1. OfType(T, comments) = g[n]
  BY DEF OfType, Picks
<1>2. Picks(g, n, T, comments)
  <2>1. n \in Nat
    OBVIOUS
  <2> HIDE DEF n
  <2> QED BY <2>1, PicksExists
<1> HIDE DEF g
<1> DEFINE Right(s) == s \in Seq(Comment) /\ \A k \in DOMAIN s : s[k].type = T
           S == {m \in 0 .. n : ~Right(g[m])}
<1>3. SUFFICES ASSUME S # {} PROVE FALSE
  <2>1. n \in 0 .. n
    OBVIOUS
  <2>2. Right(g[n])
    BY <1>3, <2>1
  <2> QED BY <1>1, <2>2
<1>4. PICK m \in S : \A y \in S : m <= y
  <2> HIDE DEF S
  <2>1. S \subseteq Nat
    BY DEF S
  <2> QED BY <1>3, <2>1, LeastNat
<1>5. g[m] = IF m = 0 THEN <<>> ELSE IF comments[m].type = T THEN Append(g[m - 1], comments[m]) ELSE g[m - 1]
  BY <1>2 DEF Picks
<1>6. m # 0
  <2>1. Right(<<>>)
    OBVIOUS
  <2> QED BY <1>4, <1>5, <2>1
<1>7. m \in 1 .. n /\ m - 1 \in 0 .. n /\ m - 1 \notin S
  BY <1>4, <1>6
<1>8. Right(g[m - 1]) /\ comments[m] \in Comment
  BY <1>7
<1>9. comments[m].type = T => Right(Append(g[m - 1], comments[m]))
  <2> DEFINE s == g[m - 1]
  <2>1. ASSUME NEW k \in DOMAIN Append(s, comments[m]), comments[m].type = T
        PROVE  Append(s, comments[m])[k].type = T
    <3>1. s \in Seq(Comment) /\ \A j \in DOMAIN s : s[j].type = T
      BY <1>8
    <3> HIDE DEF s
    <3>2. Len(s) \in Nat /\ DOMAIN s = 1 .. Len(s) /\ k \in 1 .. Len(s) + 1
      BY <3>1, <2>1, <1>8
    <3>3. CASE k = Len(s) + 1
      BY <3>1, <3>3, <1>8, <2>1
    <3>4. CASE k \in 1 .. Len(s)
      BY <3>1, <3>2, <3>4, <1>8
    <3> QED BY <3>2, <3>3, <3>4
  <2> QED BY <1>8, <2>1
<1>10. Right(g[m])
  BY <1>5, <1>6, <1>8, <1>9
<1> QED
  BY <1>10
-----------------------------------------------------------------------------
LEMMA OpIs ==
  ASSUME TypeOK, NEW op, Running(op)
  PROVE  /\ at.call \in 1 .. Len(program) /\ at.call + 1 \in 1 .. Len(program) + 1
         /\ Op.op = op /\ IsCall(Op)
<1>1. program \in Programs /\ program \in Seq(ToSet(program)) /\ at.call \in 1 .. Len(program) + 1
  BY ProgramsAssumption DEF TypeOK
<1>2. at.call \in 1 .. Len(program) /\ at.call \in DOMAIN program /\ Op.op = op
  BY <1>1 DEF Running
<1> QED
  BY <1>1, <1>2, ProgramsAssumption DEF Op

LEMMA LayoutFacts == ASSUME NEW T \in Types PROVE Functions(T) \subseteq Name
<1>1. Layout[T] \in Seq(Name \union {Handle})
  BY LayoutAssumption
<1> QED
  BY <1>1 DEF Functions, ToSet

(* A call that is over: the program is at the start of the next one.       *)
LEMMA ReturnFacts ==
  ASSUME TypeOK, NEW op, Running(op), NEW o \in {"ok", "error"}, Return(o), program' = program
  PROVE  /\ at' \in [call : 1 .. Len(program') + 1, step : {"start", "parse", "add", "bind"}, entry : Nat \ {0}]
         /\ outcomes' \in Seq({"ok", "error"}) /\ Len(outcomes') = at'.call - 1
         /\ at'.call = at.call + 1 /\ at'.step = "start" /\ at'.entry = 1
<1>1. at.call + 1 \in 1 .. Len(program) + 1 /\ at.call \in Nat
  BY OpIs
<1>2. outcomes \in Seq({"ok", "error"}) /\ Len(outcomes) = at.call - 1
  BY DEF TypeOK
<1> QED
  BY <1>1, <1>2 DEF Return

LEMMA AppendedFacts ==
  ASSUME TypeOK, NEW file \in File
  PROVE  /\ Appended(file) \in [Types -> Seq(Comment)]
         /\ \A T \in Types : \A k \in DOMAIN Appended(file)[T] : Appended(file)[T][k].type = T
         /\ \A T \in Types : \A k \in DOMAIN registry[T] :
              k \in DOMAIN Appended(file)[T] /\ Appended(file)[T][k] = registry[T][k]
<1>1. file.comments \in Seq(Comment)
  BY DEF File
<1> SUFFICES ASSUME NEW T \in Types
             PROVE  /\ Appended(file)[T] \in Seq(Comment)
                    /\ \A k \in DOMAIN Appended(file)[T] : Appended(file)[T][k].type = T
                    /\ \A k \in DOMAIN registry[T] :
                         k \in DOMAIN Appended(file)[T] /\ Appended(file)[T][k] = registry[T][k]
  BY DEF Appended
<1> DEFINE a == registry[T]
           b == OfType(T, file.comments)
<1>2. a \in Seq(Comment) /\ (\A k \in DOMAIN a : a[k].type = T)
  BY DEF TypeOK
<1>3. b \in Seq(Comment) /\ (\A k \in DOMAIN b : b[k].type = T)
  BY <1>1, OfTypeFacts
<1>4. Appended(file)[T] = a \o b
  BY DEF Appended
<1> HIDE DEF a, b
<1>5. a \o b \in Seq(Comment) /\ \A k \in DOMAIN a : k \in DOMAIN (a \o b) /\ (a \o b)[k] = a[k]
  BY <1>2, <1>3
<1>6. \A k \in DOMAIN (a \o b) : (a \o b)[k].type = T
  BY <1>2, <1>3
<1> QED
  BY <1>4, <1>5, <1>6 DEF a

LEMMA GreatestNat ==
  ASSUME NEW n \in Nat, NEW S, S \subseteq 0 .. n, S # {}
  PROVE  \E x \in S : \A y \in S : y <= x
<1> DEFINE U == {y \in Nat : \E x \in S : y = n - x}
<1>1. \A x \in S : n - x \in Nat
  OBVIOUS
<1>2. U \subseteq Nat /\ U # {} /\ \A x \in S : n - x \in U
  BY <1>1
<1>3. PICK u \in U : \A v \in U : u <= v
  <2> HIDE DEF U
  <2> QED BY <1>2, LeastNat
<1>4. PICK x \in S : u = n - x
  OBVIOUS
<1>5. \A y \in S : n - x <= n - y
  BY <1>2, <1>3, <1>4
<1>6. \A y \in S : y <= x
  BY <1>5
<1> QED
  BY <1>6

(* An initialisation under way is not over, and when a call ends the       *)
(* initialisations that are over are those that were, or the call itself.  *)
LEMMA Underway ==
  ASSUME TypeOK, NEW T, Running("init"), Op.type = T
  PROVE  ~Initialised(T)
<1>1. at.call \in 1 .. Len(program) /\ at.call \in Nat
  BY OpIs
<1>2. at.call \in Inits(T) /\ Inits(T) \subseteq Nat /\ \A k \in Inits(T) : k <= at.call
  BY <1>1 DEF Inits, Running, Op
<1>3. Max(Inits(T)) = at.call
  BY <1>2, MaxIs
<1> QED
  BY <1>1, <1>3 DEF Initialised

LEMMA SameCall ==
  ASSUME program' = program, at'.call = at.call, outcomes' = outcomes, NEW T
  PROVE  Initialised(T)' <=> Initialised(T)
<1>1. Inits(T)' = Inits(T)
  BY DEF Inits
<1>2. Max(Inits(T))' = Max(Inits(T))
  BY <1>1 DEF Max
<1> QED
  BY <1>1, <1>2 DEF Initialised

LEMMA NextCall ==
  ASSUME TypeOK, NEW op, Running(op), NEW o \in {"ok", "error"}, Return(o), program' = program,
         NEW T, Initialised(T)'
  PROVE  IF Running("init") /\ Op.type = T THEN o = "ok" ELSE Initialised(T)
<1> DEFINE I == Inits(T)'
<1>1. at.call \in 1 .. Len(program) /\ at'.call = at.call + 1 /\ Len(program) \in Nat
  <2>1. program \in Seq(ToSet(program))
    BY ProgramsAssumption DEF TypeOK
  <2> QED BY OpIs, ReturnFacts, <2>1
<1>2. outcomes \in Seq({"ok", "error"}) /\ Len(outcomes) = at.call - 1 /\ outcomes' = Append(outcomes, o)
  BY DEF TypeOK, Return
<1>3. I = {k \in 1 .. at.call + 1 : k <= Len(program) /\ program[k].op = "init" /\ program[k].type = T}
  BY <1>1 DEF Inits
<1>4. I # {} /\ I \subseteq 0 .. at.call + 1
  BY <1>1, <1>3 DEF Initialised
<1>5. PICK x \in I : \A y \in I : y <= x
  <2>1. at.call + 1 \in Nat
    BY <1>1
  <2> HIDE DEF I
  <2> QED BY <1>4, <2>1, GreatestNat
<1>6. Max(I) = x
  <2>1. I \subseteq Nat
    BY <1>4
  <2> HIDE DEF I
  <2> QED BY <1>5, <2>1, MaxIs
<1>7. x < at.call + 1 /\ outcomes'[x] = "ok"
  <2>1. Max(Inits(T))' = Max(I)
    OBVIOUS
  <2> QED BY <1>1, <1>6, <2>1 DEF Initialised
<1>8. CASE Running("init") /\ Op.type = T
  <2>1. at.call \in I
    BY <1>1, <1>3, <1>8 DEF Running, Op
  <2>2. x = at.call
    BY <1>1, <1>3, <1>5, <1>7, <2>1
  <2>3. outcomes'[at.call] = o
    BY <1>1, <1>2
  <2> QED BY <1>7, <1>8, <2>2, <2>3
<1>9. CASE ~(Running("init") /\ Op.type = T)
  <2>1. at.call \notin I
    BY <1>1, <1>3, <1>9 DEF Running, Op
  <2>2. at.call + 1 \notin I
    <3> HIDE DEF I
    <3> QED BY <1>1, <1>4, <1>5, <1>7
  <2>3. I = Inits(T)
    BY <1>1, <1>3, <2>1, <2>2 DEF Inits
  <2>4. x \in 1 .. at.call - 1
    BY <1>1, <1>3, <1>5, <1>7, <2>1
  <2>5. outcomes'[x] = outcomes[x]
    BY <1>1, <1>2, <2>4
  <2>6. Max(Inits(T)) = x
    BY <1>6, <2>3
  <2> HIDE DEF I
  <2> QED BY <1>1, <1>4, <1>7, <1>9, <2>3, <2>4, <2>5, <2>6 DEF Initialised
<1> QED
  BY <1>8, <1>9
-----------------------------------------------------------------------------
(* A load leaves the functions and the sets alone, and only adds           *)
(* statements.                                                             *)
LEMMA LoadKeeps ==
  ASSUME Inv, NEW op, Running(op), op # "init", at'.step = "start",
         UNCHANGED <<program, sets, pending, bound, handle, run, served>>,
         \/ registry' = registry
         \/ \E file \in File : registry' = Appended(file),
         \/ \E o \in {"ok", "error"} : Return(o)
         \/ at'.call = at.call /\ outcomes' = outcomes
  PROVE  SetInv' /\ BoundInv' /\ BoundTrue' /\ Settled' /\ SettledRuns'
<1> USE DEF Inv
<1>1. \A T \in Types : \A k \in DOMAIN registry[T] :
        k \in DOMAIN registry'[T] /\ registry'[T][k] = registry[T][k]
  BY AppendedFacts
<1>2. at.step = "start" /\ ~Running("init")
  BY DEF StepInv, Running
<1>3. SetInv' /\ BoundTrue'
  BY DEF SetInv, BoundTrue
<1>4. BoundInv'
  BY <1>1 DEF BoundInv
<1>5. Settled'
  <2> SUFFICES ASSUME NEW T \in Types, Initialised(T)' PROVE Initialised(T)
    BY DEF Settled
  <2>1. CASE at'.call = at.call /\ outcomes' = outcomes
    BY <2>1, SameCall
  <2>2. ASSUME NEW o \in {"ok", "error"}, Return(o) PROVE Initialised(T)
    BY <1>2, <2>2, NextCall
  <2> QED BY <2>1, <2>2
<1>6. SettledRuns'
  BY DEF SettledRuns
<1> QED
  BY <1>3, <1>4, <1>5, <1>6

LEMMA LoadTyped ==
  ASSUME TypeOK, UNCHANGED <<program, sets, pending, bound, handle, run, served>>,
         \/ registry' = registry
         \/ \E file \in File : registry' = Appended(file),
         at' \in [call : 1 .. Len(program') + 1, step : {"start", "parse", "add", "bind"}, entry : Nat \ {0}],
         outcomes' \in Seq({"ok", "error"}), Len(outcomes') = at'.call - 1, at'.step = at.step
  PROVE  TypeOK'
<1>1. registry' \in [Types -> Seq(Comment)] /\ \A T \in Types : \A k \in DOMAIN registry'[T] : registry'[T][k].type = T
  <2>1. CASE registry' = registry
    BY <2>1 DEF TypeOK
  <2>2. CASE \E file \in File : registry' = Appended(file)
    BY <2>2, AppendedFacts
  <2> QED BY <2>1, <2>2
<1>2. (\A T \in Types : bound[T] \in [Functions(T) -> {Nil} \union [set : DOMAIN sets, tree : AnyTree]])'
  BY DEF TypeOK
<1> QED
  BY <1>1, <1>2 DEF TypeOK

LEMMA BytesStep == ASSUME Inv, LoadFuncDataInfoBytes PROVE Inv'
<1>1. Running("loadBytes") /\ Op.file \in File
  BY OpIs DEF LoadFuncDataInfoBytes, IsCall, Inv
<1>2. PICK o \in {"ok", "error"} : Return(o)
  BY DEF LoadFuncDataInfoBytes
<1>3. UNCHANGED <<program, dirName, sets, pending, bound, handle, run, served>>
  BY DEF LoadFuncDataInfoBytes
<1>4. registry' = registry \/ \E file \in File : registry' = Appended(file)
  BY <1>1 DEF LoadFuncDataInfoBytes
<1>5. /\ at' \in [call : 1 .. Len(program') + 1, step : {"start", "parse", "add", "bind"}, entry : Nat \ {0}]
      /\ outcomes' \in Seq({"ok", "error"}) /\ Len(outcomes') = at'.call - 1
      /\ at'.call = at.call + 1 /\ at'.step = "start" /\ at'.entry = 1
  BY <1>1, <1>2, <1>3, ReturnFacts DEF Inv
<1>6. at.step = "start" /\ dirName = <<>>
  BY <1>1 DEF Inv, StepInv, DirInv, Running
<1>7. TypeOK'
  BY <1>3, <1>4, <1>5, <1>6, LoadTyped DEF Inv
<1>8. StepInv' /\ DirInv'
  BY <1>3, <1>5, <1>6 DEF StepInv, DirInv
<1>9. SetInv' /\ BoundInv' /\ BoundTrue' /\ Settled' /\ SettledRuns'
  BY <1>1, <1>2, <1>3, <1>4, <1>5, LoadKeeps
<1> QED
  BY <1>7, <1>8, <1>9 DEF Inv

LEMMA DirStep == ASSUME Inv, LoadDir PROVE Inv'
<1> DEFINE entries == Op.entries
           e == entries[at.entry]
           file == ReadFile(entries, e)
<1>1. Running("loadDir") /\ at.entry <= Len(entries) /\ IsCall(Op) /\ Op.op = "loadDir"
  BY OpIs DEF LoadDir, Inv
<1>2. at.call \in Nat /\ at.entry \in Nat \ {0} /\ at.step = "start" /\ outcomes \in Seq({"ok", "error"})
  BY <1>1 DEF Inv, TypeOK, StepInv, Running
<1>3. /\ entries \in Seq(ToSet(entries))
      /\ \A x \in ToSet(entries) : /\ x.dir \/ x.file \in File
                                   /\ \A n \in DOMAIN x.inside : x.inside[n] \in File
  BY <1>1 DEF IsCall
<1>4. e \in ToSet(entries)
  <2>1. at.entry \in DOMAIN entries
    BY <1>1, <1>2, <1>3
  <2> QED BY <2>1 DEF ToSet
<1>5. ~e.dir /\ loadable(file) => file \in File
  <2>1. CASE dirName = <<>>
    BY <1>3, <1>4, <2>1 DEF ReadFile
  <2>2. CASE dirName # <<>>
    <3> DEFINE d == CHOOSE x \in ToSet(entries) : x.name = dirName[1]
    <3>1. \E x \in ToSet(entries) : x.name = dirName[1]
      BY <2>2 DEF Inv, DirInv
    <3>2. d \in ToSet(entries)
      BY <3>1
    <3>3. file = IF e.name \in DOMAIN d.inside THEN d.inside[e.name] ELSE NoFile
      BY <2>2 DEF ReadFile
    <3> HIDE DEF d, file
    <3> QED BY <1>3, <3>2, <3>3 DEF loadable
  <2> QED BY <2>1, <2>2
<1>6. UNCHANGED <<program, sets, pending, bound, handle, run, served>>
  BY DEF LoadDir
<1>7. registry' = registry \/ \E f \in File : registry' = Appended(f)
  BY <1>5 DEF LoadDir
<1>8. CASE at' = [at EXCEPT !.entry = @ + 1] /\ UNCHANGED outcomes
  <2>1. /\ at' \in [call : 1 .. Len(program') + 1, step : {"start", "parse", "add", "bind"}, entry : Nat \ {0}]
        /\ outcomes' \in Seq({"ok", "error"}) /\ Len(outcomes') = at'.call - 1
        /\ at'.call = at.call /\ at'.step = "start" /\ Op' = Op /\ Running("loadDir")' /\ ~Running("init")'
    <3>1. /\ at \in [call : 1 .. Len(program) + 1, step : {"start", "parse", "add", "bind"}, entry : Nat \ {0}]
          /\ outcomes \in Seq({"ok", "error"}) /\ Len(outcomes) = at.call - 1
      BY DEF Inv, TypeOK
    <3>2. at' = [call |-> at.call, step |-> "start", entry |-> at.entry + 1] /\ at.entry + 1 \in Nat \ {0}
      BY <1>2, <1>8, <3>1
    <3>3. Op' = Op
      BY <1>6, <3>2 DEF Op
    <3> QED BY <1>1, <1>2, <1>6, <1>8, <3>1, <3>2, <3>3 DEF Running
  <2>2. TypeOK'
    BY <1>2, <1>6, <1>7, <2>1, LoadTyped DEF Inv
  <2>3. dirName' = dirName \/ dirName' = <<e.name>>
    <3>1. ~Return("error")
      BY <1>2, <2>1 DEF Return
    <3> QED BY <3>1 DEF LoadDir
  <2>4. StepInv' /\ DirInv'
    BY <1>4, <2>1, <2>3 DEF StepInv, DirInv, Inv
  <2>5. SetInv' /\ BoundInv' /\ BoundTrue' /\ Settled' /\ SettledRuns'
    BY <1>1, <1>6, <1>7, <1>8, <2>1, LoadKeeps
  <2> QED BY <2>2, <2>4, <2>5 DEF Inv
<1>9. CASE Return("error") /\ dirName' = <<>>
  <2>1. /\ at' \in [call : 1 .. Len(program') + 1, step : {"start", "parse", "add", "bind"}, entry : Nat \ {0}]
        /\ outcomes' \in Seq({"ok", "error"}) /\ Len(outcomes') = at'.call - 1
        /\ at'.call = at.call + 1 /\ at'.step = "start" /\ at'.entry = 1
    BY <1>1, <1>6, <1>9, ReturnFacts DEF Inv
  <2>2. TypeOK'
    BY <1>2, <1>6, <1>7, <2>1, LoadTyped DEF Inv
  <2>3. StepInv' /\ DirInv'
    BY <1>9, <2>1 DEF StepInv, DirInv
  <2>4. SetInv' /\ BoundInv' /\ BoundTrue' /\ Settled' /\ SettledRuns'
    BY <1>1, <1>6, <1>7, <1>9, <2>1, LoadKeeps
  <2> QED BY <2>2, <2>3, <2>4 DEF Inv
<1> QED
  BY <1>8, <1>9 DEF LoadDir

LEMMA DirEndStep == ASSUME Inv, LoadDirEnd PROVE Inv'
<1>1. /\ Running("loadDir") /\ Return("ok") /\ dirName' = <<>>
      /\ UNCHANGED <<program, registry, sets, pending, bound, handle, run, served>>
  BY DEF LoadDirEnd
<1>2. /\ at' \in [call : 1 .. Len(program') + 1, step : {"start", "parse", "add", "bind"}, entry : Nat \ {0}]
      /\ outcomes' \in Seq({"ok", "error"}) /\ Len(outcomes') = at'.call - 1
      /\ at'.call = at.call + 1 /\ at'.step = "start" /\ at'.entry = 1
  BY <1>1, ReturnFacts DEF Inv
<1>3. at.step = "start"
  BY <1>1 DEF Inv, StepInv, Running
<1>4. TypeOK'
  BY <1>1, <1>2, <1>3, LoadTyped DEF Inv
<1>5. StepInv' /\ DirInv'
  BY <1>1, <1>2 DEF StepInv, DirInv
<1>6. SetInv' /\ BoundInv' /\ BoundTrue' /\ Settled' /\ SettledRuns'
  BY <1>1, <1>2, LoadKeeps
<1> QED
  BY <1>4, <1>5, <1>6 DEF Inv
-----------------------------------------------------------------------------
LEMMA InitFacts ==
  ASSUME TypeOK, DirInv, Running("init")
  PROVE  /\ Op.type \in Types /\ Infos \in Seq(Comment) /\ Len(Infos) \in Nat /\ DOMAIN Infos = 1 .. Len(Infos)
         /\ \A k \in 1 .. Len(Infos) : Infos[k] \in Comment /\ Infos[k].name \in Name
         /\ Len(sets) \in Nat /\ DOMAIN sets = 1 .. Len(sets)
         /\ at.call \in 1 .. Len(program) /\ at.call \in Nat /\ at.entry \in Nat \ {0}
         /\ dirName = <<>>
<1>1. at.call \in 1 .. Len(program) /\ Op.type \in Types /\ Op.op = "init"
  BY OpIs DEF IsCall
<1>2. Infos \in Seq(Comment)
  BY <1>1 DEF TypeOK, Infos
<1>3. sets \in Seq({sets[s] : s \in DOMAIN sets}) /\ at.entry \in Nat \ {0}
  BY DEF TypeOK
<1>4. dirName = <<>>
  BY <1>1 DEF DirInv, Running
<1>5. \A k \in 1 .. Len(Infos) : Infos[k] \in Comment
  BY <1>2
<1> QED
  BY <1>1, <1>2, <1>3, <1>4, <1>5, CommentFacts

(* An initialisation that fails.                                           *)
LEMMA FailStep ==
  ASSUME Inv, Running("init"), Fail, pending = {},
         UNCHANGED <<program, dirName, registry, sets, pending, bound, handle, run, served>>
  PROVE  Inv'
<1>1. /\ at' \in [call : 1 .. Len(program') + 1, step : {"start", "parse", "add", "bind"}, entry : Nat \ {0}]
      /\ outcomes' \in Seq({"ok", "error"}) /\ Len(outcomes') = at'.call - 1
      /\ at'.call = at.call + 1 /\ at'.step = "start" /\ at'.entry = 1
  BY ReturnFacts DEF Inv, Fail
<1>2. dirName = <<>>
  BY InitFacts DEF Inv
<1>3. TypeOK'
  <2>1. (\A T \in Types : bound[T] \in [Functions(T) -> {Nil} \union [set : DOMAIN sets, tree : AnyTree]])'
    BY DEF Inv, TypeOK
  <2> QED BY <1>1, <2>1 DEF Inv, TypeOK
<1>4. StepInv' /\ DirInv'
  BY <1>1, <1>2 DEF StepInv, DirInv
<1>5. SetInv' /\ BoundTrue'
  BY <1>1 DEF SetInv, BoundTrue
<1>6. BoundInv'
  BY <1>1 DEF Inv, BoundInv
<1>7. Settled'
  <2> SUFFICES ASSUME NEW T \in Types, Initialised(T)' PROVE Initialised(T)
    BY DEF Settled, Inv
  <2> QED BY NextCall DEF Inv, Fail
<1>8. SettledRuns'
  BY DEF Inv, SettledRuns
<1> QED
  BY <1>3, <1>4, <1>5, <1>6, <1>7, <1>8 DEF Inv

(* A step within an initialisation.                                        *)
Within(step, entry) ==
  /\ Running("init") /\ at' = [call |-> at.call, step |-> step, entry |-> entry]
  /\ UNCHANGED <<program, outcomes, dirName, registry, handle, run, served>>

LEMMA WithinFacts ==
  ASSUME TypeOK, NEW step \in {"parse", "add", "bind"}, NEW entry \in Nat \ {0}, Within(step, entry)
  PROVE  /\ Running("init")' /\ ~Running("loadDir")' /\ Op' = Op /\ Infos' = Infos
         /\ at'.call = at.call /\ at'.step = step /\ at'.entry = entry
         /\ at' \in [call : 1 .. Len(program') + 1, step : {"start", "parse", "add", "bind"}, entry : Nat \ {0}]
         /\ outcomes' \in Seq({"ok", "error"}) /\ Len(outcomes') = at'.call - 1
         /\ \A T : Initialised(T)' <=> Initialised(T)
<1>1. /\ at' = [call |-> at.call, step |-> step, entry |-> entry]
      /\ program' = program /\ outcomes' = outcomes /\ registry' = registry
  BY DEF Within
<1>2. at.call \in 1 .. Len(program) + 1 /\ outcomes \in Seq({"ok", "error"}) /\ Len(outcomes) = at.call - 1
  BY DEF TypeOK
<1>3. Op' = Op
  BY <1>1 DEF Op
<1>4. Infos' = Infos
  BY <1>1, <1>3 DEF Infos
<1>5. Running("init")' /\ ~Running("loadDir")'
  BY <1>1, <1>3 DEF Within, Running
<1>6. \A T : Initialised(T)' <=> Initialised(T)
  BY <1>1, SameCall
<1> QED
  BY <1>1, <1>2, <1>3, <1>4, <1>5, <1>6

\* What a set that grows keeps.
LEMMA SettledKept ==
  ASSUME Inv, served' = served, \A T : Initialised(T)' <=> Initialised(T),
         \A T \in Types : \A f \in Functions(T) : Initialised(T) => bound'[T][f] = bound[T][f],
         DOMAIN sets \subseteq DOMAIN sets', \A s \in DOMAIN sets : DOMAIN sets[s] \subseteq DOMAIN sets'[s]
  PROVE  Settled'
<1> SUFFICES ASSUME NEW T \in Types, Initialised(T), NEW f \in Functions(T)
             PROVE  bound'[T][f] # Nil /\ Known(served[T]) \subseteq DOMAIN sets'[bound'[T][f].set]
  BY DEF Settled
<1>1. bound[T][f] # Nil /\ Known(served[T]) \subseteq DOMAIN sets[bound[T][f].set]
  BY DEF Inv, Settled
<1>2. bound[T][f].set \in DOMAIN sets
  BY <1>1 DEF Inv, TypeOK
<1>3. bound'[T][f] = bound[T][f]
  OBVIOUS
<1> QED
  BY <1>1, <1>2, <1>3

LEMMA OwnElements ==
  ASSUME NEW S, NEW s \in Seq(S)
  PROVE  s \in Seq({s[k] : k \in DOMAIN s})
<1>1. Len(s) \in Nat /\ DOMAIN s = 1 .. Len(s) /\ s = [k \in 1 .. Len(s) |-> s[k]]
  OBVIOUS
<1> DEFINE R == {s[k] : k \in DOMAIN s}
<1>2. \A k \in 1 .. Len(s) : s[k] \in R
  BY <1>1
<1> HIDE DEF R
<1> QED
  BY <1>1, <1>2

LEMMA BeginStep == ASSUME Inv, Begin PROVE Inv'
<1>1. Running("init") /\ at.step = "start" /\ pending = {} /\ at.entry = 1
  BY DEF Begin, Inv, TypeOK, StepInv, Running
<1>2. CASE Fail /\ UNCHANGED sets
  BY <1>1, <1>2, FailStep DEF Begin
<1>3. CASE Infos # <<>> /\ To("parse") /\ sets' = Append(sets, <<>>)
  <2>1. Within("parse", 1) /\ UNCHANGED <<pending, bound>>
    <3>1. at = [call |-> at.call, step |-> "start", entry |-> 1]
      BY <1>1 DEF Inv, TypeOK
    <3>2. at' = [call |-> at.call, step |-> "parse", entry |-> 1]
      BY <1>3, <3>1 DEF To
    <3> QED BY <1>1, <1>3, <3>2 DEF Within, To, Begin
  <2>2. /\ Running("init")' /\ ~Running("loadDir")' /\ Op' = Op /\ Infos' = Infos
        /\ at'.step = "parse" /\ at'.entry = 1
        /\ at' \in [call : 1 .. Len(program') + 1, step : {"start", "parse", "add", "bind"}, entry : Nat \ {0}]
        /\ outcomes' \in Seq({"ok", "error"}) /\ Len(outcomes') = at'.call - 1
        /\ \A T : Initialised(T)' <=> Initialised(T)
    BY <2>1, WithinFacts DEF Inv
  <2>3. /\ Op.type \in Types /\ Infos \in Seq(Comment) /\ Len(Infos) \in Nat
        /\ Len(sets) \in Nat /\ DOMAIN sets = 1 .. Len(sets) /\ dirName = <<>>
    BY <1>1, InitFacts DEF Inv
  <2> DEFINE n == Len(sets)
  <2>4. /\ DOMAIN sets' = 1 .. n + 1 /\ Len(sets') = n + 1 /\ sets'[n + 1] = <<>>
        /\ \A s \in 1 .. n : sets'[s] = sets[s]
    <3>1. sets \in Seq({sets[s] : s \in DOMAIN sets})
      BY DEF Inv, TypeOK
    <3>2. sets \in Seq({sets[s] : s \in DOMAIN sets} \union {<<>>})
      BY <3>1, SeqMonotonic
    <3> QED BY <1>3, <3>2, <2>3
  <2>5. sets' \in Seq({sets'[s] : s \in DOMAIN sets'})
    <3>1. sets \in Seq({sets[s] : s \in DOMAIN sets})
      BY DEF Inv, TypeOK
    <3>2. sets \in Seq({sets[s] : s \in DOMAIN sets} \union {<<>>})
      BY <3>1, SeqMonotonic
    <3>3. sets' \in Seq({sets[s] : s \in DOMAIN sets} \union {<<>>})
      BY <1>3, <3>2
    <3> QED BY <3>3, OwnElements
  <2>6. (\A s \in DOMAIN sets : /\ DOMAIN sets[s] \subseteq Name /\ sets[s] \in [DOMAIN sets[s] -> AnyTree]
                                /\ \A k \in DOMAIN sets[s] : sets[s][k].name = k)'
    <3>1. \A s \in 1 .. n : /\ DOMAIN sets[s] \subseteq Name /\ sets[s] \in [DOMAIN sets[s] -> AnyTree]
                            /\ \A k \in DOMAIN sets[s] : sets[s][k].name = k
      BY <2>3 DEF Inv, TypeOK
    <3>2. DOMAIN <<>> = {} /\ <<>> \in [{} -> AnyTree]
      OBVIOUS
    <3>3. \A s \in DOMAIN sets' : s \in 1 .. n \/ s = n + 1
      BY <2>3, <2>4
    <3>4. \A s \in DOMAIN sets' : s \in 1 .. n => sets'[s] = sets[s]
      BY <2>4
    <3> HIDE DEF n
    <3> QED BY <3>1, <3>2, <3>3, <3>4, <2>4
  <2>7. \A T \in Types : bound[T] \in [Functions(T) -> {Nil} \union [set : DOMAIN sets', tree : AnyTree]]
    <3>1. DOMAIN sets \subseteq DOMAIN sets'
      BY <2>3, <2>4
    <3> QED BY <3>1 DEF Inv, TypeOK
  <2>8. TypeOK'
    BY <1>1, <2>1, <2>2, <2>5, <2>6, <2>7 DEF Inv, TypeOK, Within
  <2>9. StepInv' /\ DirInv'
    BY <2>1, <2>2, <2>3, <2>4 DEF StepInv, DirInv, Within
  <2>10. SetInv'
    <3> SUFFICES ASSUME NEW f \in Name PROVE Content(sets'[n + 1], Infos, 0, f)
      BY <2>2, <2>4 DEF SetInv, Entered
    <3>1. DOMAIN <<>> = {}
      OBVIOUS
    <3> QED BY <2>4, <3>1 DEF Content
  <2>11. \A T \in Types : \A f \in Functions(T) : bound[T][f] # Nil => bound[T][f].set < n + 1
    BY <2>3 DEF Inv, TypeOK
  <2>12. BoundInv'
    BY <2>1, <2>4, <2>11 DEF Inv, BoundInv, Within
  <2>13. BoundTrue'
    <3>1. \A f \in Functions(Op.type) : {k \in 1 .. 0 : Infos[k].name = f} = {}
      OBVIOUS
    <3>2. \A f \in Functions(Op.type) : bound[Op.type][f] # Nil => bound[Op.type][f].set < n + 1
      BY <2>3, <2>11
    <3> HIDE DEF n
    <3>3. 1 - 1 = 0
      OBVIOUS
    <3> QED BY <2>1, <2>2, <2>4, <3>1, <3>2, <3>3 DEF BoundTrue
  <2>14. Settled'
    <3>1. DOMAIN sets \subseteq DOMAIN sets' /\ \A s \in DOMAIN sets : DOMAIN sets[s] \subseteq DOMAIN sets'[s]
      BY <2>3, <2>4
    <3> QED BY <2>1, <2>2, <3>1, SettledKept DEF Within
  <2>15. SettledRuns'
    BY <2>1 DEF Inv, SettledRuns, Within
  <2> QED BY <2>8, <2>9, <2>10, <2>12, <2>13, <2>14, <2>15 DEF Inv
<1> QED
  BY <1>2, <1>3 DEF Begin

(* A function named like its struct type, once bound, has the tree its set *)
(* has.                                                                    *)
LEMMA OwnTree ==
  ASSUME Inv, Running("init"), at.step # "start", NEW g \in Functions(Op.type), g = Root,
         {k \in 1 .. at.entry - 1 : Infos[k].name = g} # {}
  PROVE  /\ bound[Op.type][g] # Nil /\ bound[Op.type][g].set = Len(sets) /\ g \in DOMAIN sets[Len(sets)]
         /\ bound[Op.type][g] = [set |-> Len(sets), tree |-> sets[Len(sets)][g]]
<1> DEFINE T == Op.type
           n == Len(sets)
           e == at.entry
           numbers == {k \in 1 .. e - 1 : Infos[k].name = g}
<1>1. /\ T \in Types /\ Infos \in Seq(Comment) /\ Len(Infos) \in Nat /\ DOMAIN Infos = 1 .. Len(Infos)
      /\ n \in DOMAIN sets /\ n \in Nat /\ e \in Nat \ {0} /\ e <= Len(Infos) + 1
  BY InitFacts DEF Inv, StepInv
<1>2. bound[T][g] = [set |-> n, tree |-> Latest(SubSeq(Infos, 1, Entered(g)), g)]
  <2>1. bound[T][g] = [set |-> n, tree |-> Latest(SubSeq(Infos, 1, Followed(g, numbers)), g)]
    BY DEF Inv, BoundTrue
  <2>2. Followed(g, numbers) = Entered(g)
    BY DEF Followed
  <2> HIDE DEF numbers
  <2> QED BY <2>1, <2>2
<1>3. PICK k \in 1 .. e - 1 : Infos[k].name = g
  OBVIOUS
<1>4. Entered(g) \in {e - 1, e} /\ Entered(g) \in 0 .. Len(Infos)
  BY <1>1 DEF Entered, Inv, StepInv
<1>5. k \in 1 .. Entered(g)
  BY <1>1, <1>4
<1>6. Content(sets[n], Infos, Entered(g), g)
  <2>1. g \in Name
    BY <1>1, LayoutFacts
  <2> QED BY <2>1 DEF Inv, SetInv
<1>7. g \in DOMAIN sets[n] /\ sets[n][g] = Latest(SubSeq(Infos, 1, Entered(g)), g)
  <2>1. Infos \in Seq(Comment) /\ Entered(g) \in 0 .. Len(Infos) /\ k \in 1 .. Entered(g) /\ Infos[k].name = g
    BY <1>1, <1>3, <1>4, <1>5
  <2> HIDE DEF e, n
  <2> QED BY <1>6, <2>1, ContentIs
<1>8. [set |-> n, tree |-> sets[n][g]] \in [set : Nat, tree : AnyTree]
  BY <1>1, <1>7 DEF Inv, TypeOK
<1> QED
  BY <1>2, <1>7, <1>8, NilAssumption

LEMMA CurrentOwn ==
  ASSUME Inv, Running("init"), at.step # "start", NEW g \in Functions(Op.type), g = Root,
         bound[Op.type][g] # Nil, bound[Op.type][g].set = Len(sets)
  PROVE  g \in DOMAIN sets[Len(sets)] /\ bound[Op.type][g] = [set |-> Len(sets), tree |-> sets[Len(sets)][g]]
<1> DEFINE numbers == {k \in 1 .. at.entry - 1 : Infos[k].name = g}
<1>1. CASE numbers = {}
  <2>1. bound[Op.type][g].set < Len(sets)
    BY <1>1 DEF Inv, BoundTrue
  <2>2. Len(sets) \in Nat
    BY InitFacts DEF Inv
  <2> QED BY <2>1, <2>2
<1>2. CASE numbers # {}
  BY <1>2, OwnTree
<1> QED
  BY <1>1, <1>2

(* A step that deals with no further statement leaves the functions as     *)
(* they are, except that the one with the template of the set's own name   *)
(* has the tree the set has.                                               *)
LEMMA BoundKept ==
  ASSUME Inv, Running("init"), at.step # "start", Running("init")', Op' = Op, Infos' = Infos, at'.entry = at.entry,
         Len(sets') = Len(sets), registry' = registry, at'.step # "start", SetInv', StepInv',
         \A S \in Types : \A g \in Functions(S) : ~(S = Op.type /\ g = Root) => bound'[S][g] = bound[S][g],
         \A g \in Functions(Op.type) : g = Root =>
           IF bound[Op.type][g] # Nil /\ bound[Op.type][g].set = Len(sets)
           THEN bound'[Op.type][g] = [set |-> Len(sets), tree |-> sets'[Len(sets)][g]]
           ELSE bound'[Op.type][g] = bound[Op.type][g]
  PROVE  BoundTrue' /\ BoundInv'
<1> DEFINE T == Op.type
           n == Len(sets)
           e == at.entry
           Numbers(g) == {k \in 1 .. e - 1 : Infos[k].name = g}
<1>1. /\ T \in Types /\ Infos \in Seq(Comment) /\ Len(Infos) \in Nat /\ DOMAIN Infos = 1 .. Len(Infos)
      /\ n \in Nat /\ e \in Nat \ {0} /\ e <= Len(Infos) + 1
  BY InitFacts DEF Inv, StepInv
<1>2. ASSUME NEW g \in Functions(T)
      PROVE  IF Numbers(g) = {} THEN bound[T][g] # Nil => bound[T][g].set < n
             ELSE bound[T][g] = [set |-> n, tree |-> Latest(SubSeq(Infos, 1, Followed(g, Numbers(g))), g)]
  BY DEF Inv, BoundTrue
<1>3. /\ TypeOK /\ n \in Nat
      /\ \A S \in Types : \A g \in Functions(S) : bound[S][g] \in {Nil} \union [set : 1 .. n, tree : AnyTree]
  BY InitFacts DEF Inv, TypeOK
<1>4. ASSUME NEW g \in Functions(T)
      PROVE  IF Numbers(g) = {} THEN bound'[T][g] # Nil => bound'[T][g].set < n
             ELSE bound'[T][g] = [set |-> n, tree |-> Latest(SubSeq(Infos, 1, Followed(g, Numbers(g))'), g)]
  <2>1. CASE g # Root
    <3>1. bound'[T][g] = bound[T][g]
      BY <1>1, <2>1
    <3>2. Followed(g, Numbers(g)) = Max(Numbers(g)) /\ Followed(g, Numbers(g))' = Max(Numbers(g))
      <4>1. Numbers(g)' = Numbers(g) /\ Root' = Root
        BY DEF Root
      <4>2. Max(Numbers(g))' = Max(Numbers(g))
        BY <4>1 DEF Max
      <4> HIDE DEF Numbers
      <4> QED BY <2>1, <4>1, <4>2 DEF Followed
    <3> HIDE DEF Numbers
    <3> QED BY <1>2, <3>1, <3>2
  <2>2. CASE g = Root /\ Numbers(g) = {}
    <3>1. bound[T][g] # Nil => bound[T][g].set < n
      BY <1>2, <2>2
    <3>2. bound'[T][g] = bound[T][g]
      <4>1. ~(bound[T][g] # Nil /\ bound[T][g].set = n)
        BY <1>1, <1>3, <3>1
      <4> HIDE DEF Numbers
      <4> QED BY <2>2, <4>1
    <3> QED BY <2>2, <3>1, <3>2
  <2>3. CASE g = Root /\ Numbers(g) # {}
    <3>1. bound[T][g].set = n /\ bound[T][g] # Nil
      BY <2>3, OwnTree
    <3>2. bound'[T][g] = [set |-> n, tree |-> sets'[n][g]]
      BY <2>3, <3>1
    <3>3. PICK k \in Numbers(g) : TRUE
      BY <2>3
    <3>4. Entered(g)' \in {e - 1, e} /\ Entered(g)' \in 0 .. Len(Infos)
      <4>1. at'.step \in {"add", "bind"} => e <= Len(Infos)
        BY DEF StepInv
      <4> QED BY <1>1, <4>1 DEF Entered
    <3>5. k \in 1 .. Entered(g)' /\ Infos[k].name = g
      BY <1>1, <3>3, <3>4
    <3>6. Content(sets'[n], Infos, Entered(g)', g)
      <4>1. g \in Name
        BY <1>1, LayoutFacts
      <4> QED BY <4>1 DEF SetInv
    <3>7. sets'[n][g] = Latest(SubSeq(Infos, 1, Entered(g)'), g)
      <4> HIDE DEF Numbers, e
      <4> QED BY <1>1, <3>4, <3>5, <3>6, ContentIs
    <3>8. Followed(g, Numbers(g))' = Entered(g)'
      BY <2>3 DEF Followed, Root
    <3> HIDE DEF Numbers
    <3> QED BY <2>3, <3>2, <3>7, <3>8
  <2> QED BY <2>1, <2>2, <2>3
<1>5. BoundTrue'
  BY <1>4 DEF BoundTrue
<1>6. BoundInv'
  <2> SUFFICES ASSUME NEW S \in Types, NEW g \in Functions(S), bound'[S][g] # Nil
               PROVE  /\ \E k \in DOMAIN registry[S] : registry[S][k].name = g
                      /\ S # T => bound'[S][g].set < n
    BY DEF BoundInv
  <2>1. CASE ~(S = T /\ g = Root)
    BY <2>1 DEF Inv, BoundInv
  <2>2. CASE S = T /\ g = Root
    <3>1. bound[T][g] # Nil
      BY <2>2
    <3> QED BY <2>2, <3>1 DEF Inv, BoundInv
  <2> QED BY <2>1, <2>2
<1> QED
  BY <1>5, <1>6

LEMMA AddParseStep == ASSUME Inv, AddParse PROVE Inv'
<1>1. /\ Running("init") /\ at.step = "parse" /\ at.entry <= Len(Infos) /\ pending = {}
      /\ UNCHANGED <<program, dirName, registry, sets, bound, handle, run, served>>
  BY DEF AddParse, Inv, TypeOK
<1>2. CASE Fail /\ UNCHANGED pending
  BY <1>1, <1>2, FailStep
<1>3. CASE To("add") /\ pending' = Trees(Info)
  <2> DEFINE e == at.entry
  <2>1. Within("add", e)
    <3>1. at = [call |-> at.call, step |-> "parse", entry |-> e]
      BY <1>1 DEF Inv, TypeOK
    <3>2. at' = [call |-> at.call, step |-> "add", entry |-> e]
      BY <1>3, <3>1 DEF To
    <3> QED BY <1>1, <1>3, <3>2 DEF Within, To
  <2>2. /\ Op.type \in Types /\ Infos \in Seq(Comment) /\ Len(Infos) \in Nat /\ DOMAIN Infos = 1 .. Len(Infos)
        /\ Len(sets) \in Nat /\ DOMAIN sets = 1 .. Len(sets) /\ dirName = <<>> /\ e \in Nat \ {0}
        /\ Info \in Comment
    BY <1>1, InitFacts DEF Inv, Info
  <2>3. /\ Running("init")' /\ ~Running("loadDir")' /\ Op' = Op /\ Infos' = Infos /\ Info' = Info
        /\ at'.step = "add" /\ at'.entry = e
        /\ at' \in [call : 1 .. Len(program') + 1, step : {"start", "parse", "add", "bind"}, entry : Nat \ {0}]
        /\ outcomes' \in Seq({"ok", "error"}) /\ Len(outcomes') = at'.call - 1
        /\ \A T : Initialised(T)' <=> Initialised(T)
    BY <2>1, <2>2, WithinFacts DEF Inv, Info
  <2>4. Trees(Info) \subseteq AnyTree /\ Trees(Info) # {}
    BY <2>2, CommentFacts
  <2>5. TypeOK'
    <3>1. (\A T \in Types : bound[T] \in [Functions(T) -> {Nil} \union [set : DOMAIN sets, tree : AnyTree]])'
      BY <1>1 DEF Inv, TypeOK
    <3> QED BY <1>1, <1>3, <2>3, <2>4, <3>1 DEF Inv, TypeOK
  <2>6. StepInv' /\ DirInv'
    <3>1. Len(sets) >= 1
      BY <1>1 DEF Inv, StepInv
    <3> QED BY <1>1, <1>3, <2>2, <2>3, <3>1 DEF StepInv, DirInv
  <2>7. SetInv'
    <3> SUFFICES ASSUME NEW f \in Name PROVE Content(sets[Len(sets)], Infos, Entered(f)', f)
      BY <1>1, <2>3 DEF SetInv
    <3>1. Content(sets[Len(sets)], Infos, e - 1, f)
      BY <1>1 DEF Inv, SetInv, Entered
    <3>2. CASE \A t \in Trees(Info) : t.name # f
      <4>1. Entered(f)' = e
        BY <1>3, <2>3, <3>2 DEF Entered
      <4>2. Named(Infos, e - 1 + 1, f) = {}
        BY <2>2, <3>2 DEF Named, Info
      <4>3. Content(sets[Len(sets)], Infos, e - 1 + 1, f)
        <5>1. e - 1 \in Nat
          BY <2>2
        <5> HIDE DEF e
        <5> QED BY <3>1, <4>2, <5>1, ContentSkip
      <4> QED BY <2>2, <4>1, <4>3
    <3>3. CASE ~ \A t \in Trees(Info) : t.name # f
      <4>1. Entered(f)' = e - 1
        BY <1>3, <2>3, <3>3 DEF Entered
      <4> QED BY <3>1, <4>1
    <3> QED BY <3>2, <3>3
  <2>8. BoundTrue' /\ BoundInv'
    <3>1. ASSUME NEW g \in Functions(Op.type), g = Root, bound[Op.type][g] # Nil, bound[Op.type][g].set = Len(sets)
          PROVE  bound[Op.type][g] = [set |-> Len(sets), tree |-> sets[Len(sets)][g]]
      BY <1>1, <3>1, CurrentOwn
    <3>2. sets' = sets /\ bound' = bound /\ registry' = registry
      BY <1>1
    <3> QED BY <1>1, <2>3, <2>6, <2>7, <3>1, <3>2, BoundKept
  <2>9. Settled'
    BY <1>1, <2>3, SettledKept
  <2>10. SettledRuns'
    BY <1>1 DEF Inv, SettledRuns
  <2> QED BY <2>5, <2>6, <2>7, <2>8, <2>9, <2>10 DEF Inv
<1> QED
  BY <1>2, <1>3 DEF AddParse

LEMMA AddTreeFacts ==
  ASSUME NEW set, DOMAIN set \subseteq Name, set \in [DOMAIN set -> AnyTree], \A n \in DOMAIN set : set[n].name = n,
         NEW tree \in AnyTree
  PROVE  /\ DOMAIN AddParseTree(set, tree) \subseteq Name /\ DOMAIN set \subseteq DOMAIN AddParseTree(set, tree)
         /\ AddParseTree(set, tree) \in [DOMAIN AddParseTree(set, tree) -> AnyTree]
         /\ \A n \in DOMAIN AddParseTree(set, tree) : AddParseTree(set, tree)[n].name = n
<1>1. tree.name \in Name
  BY DEF AnyTree
<1> QED
  BY <1>1 DEF AddParseTree

LEMMA AddTreeStep == ASSUME Inv, AddTree PROVE Inv'
<1> DEFINE n == Len(sets)
           e == at.entry
<1>1. /\ Running("init") /\ at.step = "add"
      /\ UNCHANGED <<program, dirName, registry, handle, run, served>>
  BY DEF AddTree
<1>2. PICK tree \in pending :
        /\ sets' = [sets EXCEPT ![n] = AddParseTree(@, tree)] /\ pending' = pending \ {tree}
        /\ bound' = Overwritten(tree)
        /\ IF pending = {tree} THEN To("bind") ELSE UNCHANGED <<at, outcomes>>
  BY DEF AddTree, Current
<1>3. /\ Op.type \in Types /\ Infos \in Seq(Comment) /\ Len(Infos) \in Nat /\ DOMAIN Infos = 1 .. Len(Infos)
      /\ n \in Nat /\ DOMAIN sets = 1 .. n /\ dirName = <<>> /\ e \in Nat \ {0}
      /\ n >= 1 /\ e <= Len(Infos) /\ pending \subseteq Trees(Info) /\ Info \in Comment
  BY <1>1, InitFacts DEF Inv, Info, StepInv
<1>4. tree \in AnyTree /\ tree \in Trees(Info) /\ \A t \in Trees(Info) : t.name = tree.name => t = tree
  BY <1>3, CommentFacts
<1> DEFINE step == IF pending = {tree} THEN "bind" ELSE "add"
<1>5. Within(step, e)
  <2>1. at = [call |-> at.call, step |-> "add", entry |-> e]
    BY <1>1 DEF Inv, TypeOK
  <2>2. at' = [call |-> at.call, step |-> step, entry |-> e]
    BY <1>2, <2>1 DEF To
  <2> QED BY <1>1, <1>2, <2>2 DEF Within, To
<1>6. /\ Running("init")' /\ ~Running("loadDir")' /\ Op' = Op /\ Infos' = Infos /\ Info' = Info
      /\ at'.step = step /\ at'.entry = e
      /\ at' \in [call : 1 .. Len(program') + 1, step : {"start", "parse", "add", "bind"}, entry : Nat \ {0}]
      /\ outcomes' \in Seq({"ok", "error"}) /\ Len(outcomes') = at'.call - 1
      /\ \A T : Initialised(T)' <=> Initialised(T)
  BY <1>3, <1>5, WithinFacts DEF Inv, Info
<1>7. /\ DOMAIN sets' = DOMAIN sets /\ sets'[n] = AddParseTree(sets[n], tree)
      /\ \A s \in DOMAIN sets : s # n => sets'[s] = sets[s]
  BY <1>2, <1>3
<1> DEFINE TypedSet(set) == /\ DOMAIN set \subseteq Name /\ set \in [DOMAIN set -> AnyTree]
                            /\ \A k \in DOMAIN set : set[k].name = k
<1>8. \A s \in DOMAIN sets : TypedSet(sets[s])
  BY DEF Inv, TypeOK
<1>9. TypedSet(sets'[n]) /\ DOMAIN sets[n] \subseteq DOMAIN sets'[n]
  <2>1. TypedSet(sets[n])
    BY <1>3, <1>8
  <2> QED BY <1>4, <1>7, <2>1, AddTreeFacts
<1>10. Len(sets') = n /\ sets' \in Seq({sets'[s] : s \in DOMAIN sets'})
  <2>1. sets' \in [1 .. n -> {sets'[s] : s \in DOMAIN sets'}]
    BY <1>2, <1>3, <1>7
  <2>2. sets' \in Seq({sets'[s] : s \in DOMAIN sets'})
    BY <1>3, <2>1, SeqDef
  <2> QED BY <1>3, <1>7, <2>2
<1>11. \A s \in DOMAIN sets' : TypedSet(sets'[s])
  <2> HIDE DEF TypedSet
  <2> QED BY <1>7, <1>8, <1>9
<1>12. /\ DOMAIN bound' = Types
       /\ \A S \in Types : bound'[S] \in [Functions(S) -> {Nil} \union [set : DOMAIN sets, tree : AnyTree]]
       /\ \A S \in Types : \A g \in Functions(S) : ~(S = Op.type /\ g = Root) => bound'[S][g] = bound[S][g]
       /\ \A g \in Functions(Op.type) : g = Root =>
            IF bound[Op.type][g] # Nil /\ bound[Op.type][g].set = n
            THEN bound'[Op.type][g] = [set |-> n, tree |-> sets'[n][g]]
            ELSE bound'[Op.type][g] = bound[Op.type][g]
  <2> DEFINE T == Op.type
             own == Root \in Functions(T) /\ bound[T][Root] # Nil /\ bound[T][Root].set = n
             new == [set |-> n, tree |-> AddParseTree(sets[n], tree)[Root]]
  <2>1. DOMAIN bound = Types /\ \A S \in Types : bound[S] \in [Functions(S) -> {Nil} \union [set : DOMAIN sets, tree : AnyTree]]
    BY DEF Inv, TypeOK
  <2>2. CASE tree.name = Root /\ own
    <3>1. bound' = [bound EXCEPT ![T][Root] = new]
      BY <1>2, <2>2 DEF Overwritten, Current
    <3>2. new = [set |-> n, tree |-> sets'[n][Root]] /\ new \in [set : DOMAIN sets, tree : AnyTree]
      <4>1. Root \in DOMAIN sets'[n]
        BY <1>7, <2>2 DEF AddParseTree
      <4> QED BY <1>3, <1>7, <1>9, <4>1
    <3>3. T \in Types /\ Root \in Functions(T)
      BY <1>3, <2>2
    <3>4. DOMAIN bound' = Types /\ bound'[T] = [bound[T] EXCEPT ![Root] = new] /\ \A S \in Types : S # T => bound'[S] = bound[S]
      BY <2>1, <3>1, <3>3
    <3>5. bound'[T] \in [Functions(T) -> {Nil} \union [set : DOMAIN sets, tree : AnyTree]]
      BY <2>1, <3>2, <3>3, <3>4
    <3>6. bound'[T][Root] = new /\ \A g \in Functions(T) : g # Root => bound'[T][g] = bound[T][g]
      BY <2>1, <3>3, <3>4
    <3> HIDE DEF T, new
    <3>7. \A S \in Types : bound'[S] \in [Functions(S) -> {Nil} \union [set : DOMAIN sets, tree : AnyTree]]
      BY <2>1, <3>4, <3>5
    <3>8. \A S \in Types : \A g \in Functions(S) : ~(S = T /\ g = Root) => bound'[S][g] = bound[S][g]
      BY <3>4, <3>6
    <3> QED BY <2>2, <3>2, <3>4, <3>6, <3>7, <3>8 DEF T
  <2>3. CASE ~(tree.name = Root /\ own)
    <3>1. bound' = bound
      BY <1>2, <2>3 DEF Overwritten, Current
    <3>2. ASSUME own PROVE bound[T][Root] = [set |-> n, tree |-> sets'[n][Root]]
      <4>1. Root \in DOMAIN sets[n] /\ bound[T][Root] = [set |-> n, tree |-> sets[n][Root]]
        BY <1>1, <3>2, CurrentOwn
      <4>2. tree.name # Root
        BY <2>3, <3>2
      <4>3. sets'[n][Root] = sets[n][Root]
        BY <1>7, <4>1, <4>2 DEF AddParseTree
      <4> QED BY <4>1, <4>3
    <3> QED BY <2>1, <3>1, <3>2
  <2> QED BY <2>2, <2>3
<1>13. TypeOK'
  <2>1. (\A s \in DOMAIN sets : /\ DOMAIN sets[s] \subseteq Name /\ sets[s] \in [DOMAIN sets[s] -> AnyTree]
                                /\ \A k \in DOMAIN sets[s] : sets[s][k].name = k)'
    BY <1>11
  <2>2. DOMAIN bound' = Types /\ \A T \in Types : bound'[T] \in [Functions(T) -> {Nil} \union [set : DOMAIN sets', tree : AnyTree]]
    BY <1>7, <1>12
  <2>3. pending' \subseteq AnyTree /\ (at'.step = "add" <=> pending' # {})
    BY <1>2, <1>6 DEF Inv, TypeOK
  <2> HIDE DEF step
  <2> QED BY <1>1, <1>6, <1>7, <1>10, <2>1, <2>2, <2>3 DEF Inv, TypeOK
<1>14. StepInv' /\ DirInv'
  BY <1>1, <1>2, <1>3, <1>6, <1>10 DEF StepInv, DirInv
<1>15. SetInv'
  <2> SUFFICES ASSUME NEW f \in Name PROVE Content(sets'[n], Infos, Entered(f)', f)
    BY <1>6, <1>10 DEF SetInv
  <2>1. Content(sets[n], Infos, Entered(f), f)
    BY <1>1 DEF Inv, SetInv
  <2>2. CASE f # tree.name
    <3>1. Entered(f)' = Entered(f)
      <4>1. (\A t \in pending : t.name # f) <=> \A t \in pending' : t.name # f
        BY <1>2, <2>2
      <4>2. pending = {tree} => \A t \in pending : t.name # f
        BY <2>2
      <4> QED BY <1>1, <1>6, <4>1, <4>2 DEF Entered
    <3> QED BY <1>7, <2>1, <2>2, <3>1, ContentOther
  <2>3. CASE f = tree.name
    <3>1. Entered(f) = e - 1
      BY <1>1, <2>3 DEF Entered
    <3>2. \A t \in pending' : t.name # f
      BY <1>2, <1>3, <1>4, <2>3
    <3>3. Entered(f)' = e
      BY <1>6, <3>2 DEF Entered
    <3>4. e - 1 \in Nat /\ e - 1 + 1 = e /\ e \in DOMAIN Infos /\ Info = Infos[e]
      BY <1>3 DEF Info
    <3> HIDE DEF e
    <3>5. Content(AddParseTree(sets[n], tree), Infos, e - 1 + 1, tree.name)
      BY <1>3, <1>4, <2>1, <2>3, <3>1, <3>4, ContentAdd
    <3> QED BY <1>7, <2>3, <3>3, <3>4, <3>5
  <2> QED BY <2>2, <2>3
<1>16. BoundTrue' /\ BoundInv'
  BY <1>1, <1>6, <1>10, <1>12, <1>14, <1>15, BoundKept
<1>17. Settled'
  <2>1. \A T \in Types : Initialised(T) => T # Op.type
    BY <1>1, Underway DEF Inv
  <2> HIDE DEF n
  <2> QED BY <1>1, <1>3, <1>6, <1>7, <1>9, <1>12, <2>1, SettledKept
<1>18. SettledRuns'
  BY <1>1 DEF Inv, SettledRuns
<1> QED
  BY <1>13, <1>14, <1>15, <1>16, <1>17, <1>18 DEF Inv

LEMMA BindStep == ASSUME Inv, Bind PROVE Inv'
<1> DEFINE n == Len(sets)
           e == at.entry
           f == Info.name
           T == Op.type
<1>1. /\ Running("init") /\ at.step = "bind" /\ pending = {}
      /\ UNCHANGED <<program, dirName, registry, sets, pending, handle, run, served>>
  BY DEF Bind, Inv, TypeOK
<1>2. /\ T \in Types /\ Infos \in Seq(Comment) /\ Len(Infos) \in Nat /\ DOMAIN Infos = 1 .. Len(Infos)
      /\ n \in Nat /\ n \in DOMAIN sets /\ n >= 1 /\ dirName = <<>> /\ e \in Nat \ {0} /\ e \in 1 .. Len(Infos)
      /\ Info = Infos[e] /\ Info \in Comment /\ f \in Name
  BY <1>1, InitFacts DEF Inv, Info, StepInv
<1>3. CASE Fail /\ UNCHANGED bound
  BY <1>1, <1>3, FailStep
<1> DEFINE b == [set |-> n, tree |-> sets[n][f]]
<1>4. \A g \in Name : Content(sets[n], Infos, e, g)
  BY <1>1 DEF Inv, SetInv, Entered
<1>5. f \in DOMAIN sets[n] /\ IsLatest(sets[n][f], Infos, e, f)
  <2>1. Named(Infos, e, f) # {}
    BY <1>2, CommentFacts DEF Named
  <2>2. e \in 1 .. e
    BY <1>2
  <2> QED BY <1>2, <1>4, <2>1, <2>2 DEF Content
<1>6. sets[n][f] = Latest(SubSeq(Infos, 1, e), f)
  BY <1>2, <1>5, LatestIs
<1>7. b \in [set : DOMAIN sets, tree : AnyTree] /\ b # Nil
  <2>1. sets[n] \in [DOMAIN sets[n] -> AnyTree]
    BY <1>2 DEF Inv, TypeOK
  <2>2. sets[n][f] \in AnyTree
    BY <1>5, <2>1
  <2>3. b \in [set : Nat, tree : AnyTree]
    BY <1>2, <2>2
  <2> QED BY <1>2, <2>2, <2>3, NilAssumption
<1>8. Lookup(sets[Current], f) = sets[n][f]
  BY <1>5 DEF Lookup, Current
<1>9. CASE /\ at' = [at EXCEPT !.step = "parse", !.entry = @ + 1] /\ UNCHANGED outcomes
           /\ \/ f \notin Functions(T) /\ UNCHANGED bound
              \/ f \in Functions(T) /\ bound' = [bound EXCEPT ![T][f] = b]
  <2>1. Within("parse", e + 1) /\ e + 1 \in Nat \ {0}
    <3>1. at = [call |-> at.call, step |-> "bind", entry |-> e]
      BY <1>1 DEF Inv, TypeOK
    <3>2. at' = [call |-> at.call, step |-> "parse", entry |-> e + 1]
      BY <1>9, <3>1
    <3>3. outcomes' = outcomes /\ e + 1 \in Nat \ {0}
      BY <1>2, <1>9
    <3> QED BY <1>1, <3>2, <3>3 DEF Within
  <2>2. /\ Running("init")' /\ ~Running("loadDir")' /\ Op' = Op /\ Infos' = Infos
        /\ at'.step = "parse" /\ at'.entry = e + 1
        /\ at' \in [call : 1 .. Len(program') + 1, step : {"start", "parse", "add", "bind"}, entry : Nat \ {0}]
        /\ outcomes' \in Seq({"ok", "error"}) /\ Len(outcomes') = at'.call - 1
        /\ \A S : Initialised(S)' <=> Initialised(S)
    BY <2>1, WithinFacts DEF Inv
  <2>3. /\ DOMAIN bound = Types
        /\ \A S \in Types : bound[S] \in [Functions(S) -> {Nil} \union [set : DOMAIN sets, tree : AnyTree]]
    BY DEF Inv, TypeOK
  <2>4. /\ DOMAIN bound' = Types
        /\ \A S \in Types : DOMAIN bound'[S] = Functions(S)
        /\ \A S \in Types : bound'[S] \in [Functions(S) -> {bound'[S][g] : g \in Functions(S)}]
        /\ \A S \in Types : \A g \in Functions(S) : ~(S = T /\ g = f) => bound'[S][g] = bound[S][g]
        /\ f \in Functions(T) => bound'[T][f] = b
    <3> HIDE DEF b, f, T
    <3>1. CASE f \notin Functions(T) /\ UNCHANGED bound
      BY <2>3, <3>1
    <3>2. CASE f \in Functions(T) /\ bound' = [bound EXCEPT ![T][f] = b]
      BY <1>2, <2>3, <3>2
    <3> QED BY <1>9, <3>1, <3>2
  <2>5. TypeOK'
    <3>1. ASSUME NEW S \in Types
          PROVE  bound'[S] \in [Functions(S) -> {Nil} \union [set : DOMAIN sets, tree : AnyTree]]
      <4>1. \A g \in Functions(S) : bound'[S][g] \in {Nil} \union [set : DOMAIN sets, tree : AnyTree]
        <5> HIDE DEF b, f, T
        <5> QED BY <1>7, <2>3, <2>4
      <4> QED BY <2>4, <4>1
    <3> HIDE DEF b, f, T
    <3> QED BY <1>1, <2>2, <2>4, <3>1 DEF Inv, TypeOK
  <2>6. StepInv' /\ DirInv'
    BY <1>1, <1>2, <2>2 DEF StepInv, DirInv
  <2>7. SetInv'
    <3>1. \A g \in Name : Entered(g)' = e
      BY <1>2, <2>2 DEF Entered
    <3> QED BY <1>1, <1>4, <2>2, <3>1 DEF SetInv
  <2>8. BoundInv'
    <3> SUFFICES ASSUME NEW S \in Types, NEW g \in Functions(S), bound'[S][g] # Nil
                 PROVE  /\ \E k \in DOMAIN registry[S] : registry[S][k].name = g
                        /\ S # Op.type => bound'[S][g].set < Len(sets)
      BY <1>1, <2>2 DEF BoundInv
    <3>1. CASE S = T /\ g = f
      BY <1>2, <3>1 DEF Infos
    <3>2. CASE ~(S = T /\ g = f)
      BY <1>1, <2>4, <3>2 DEF Inv, BoundInv
    <3> QED BY <3>1, <3>2
  <2>9. BoundTrue'
    <3> DEFINE Numbers(g, m) == {k \in 1 .. m : Infos[k].name = g}
    <3> DEFINE Upto(g, numbers) == IF g = Root THEN e ELSE Max(numbers)
    <3> DEFINE Holds(g, numbers) ==
                 IF numbers = {} THEN bound'[T][g] # Nil => bound'[T][g].set < n
                 ELSE bound'[T][g] = [set |-> n, tree |-> Latest(SubSeq(Infos, 1, Upto(g, numbers)), g)]
    <3> SUFFICES ASSUME NEW g \in Functions(T) PROVE Holds(g, Numbers(g, e))
      <4>1. \A g \in Functions(T) : {k \in 1 .. at'.entry - 1 : Infos'[k].name = g} = Numbers(g, e)
        <5>1. at'.entry - 1 = e /\ Infos' = Infos
          BY <1>2, <2>2
        <5> HIDE DEF e
        <5> QED BY <5>1
      <4>2. (\A g \in Functions(T) : Holds(g, {k \in 1 .. at'.entry - 1 : Infos'[k].name = g})) => BoundTrue'
        <5>1. \A g : \A numbers : Followed(g, numbers)' = Upto(g, numbers)
          <6>1. \A g : Entered(g)' = e
            BY <1>2, <2>2 DEF Entered
          <6>2. Root' = Root
            BY <2>2 DEF Root
          <6>3. \A numbers : Max(numbers)' = Max(numbers)
            BY DEF Max
          <6> HIDE DEF e
          <6> QED BY <6>1, <6>2, <6>3 DEF Followed
        <5> HIDE DEF Upto
        <5> QED BY <1>1, <2>2, <5>1 DEF BoundTrue
      <4> HIDE DEF Numbers, Holds
      <4> QED BY <4>1, <4>2
    <3>1. CASE g = f
      <4>1. e \in Numbers(g, e) /\ Numbers(g, e) \subseteq Nat /\ \A k \in Numbers(g, e) : k <= e
        BY <1>2, <3>1
      <4>2. Max(Numbers(g, e)) = e
        <5> HIDE DEF Numbers, e
        <5> QED BY <4>1, MaxIs
      <4>3. bound'[T][g] = [set |-> n, tree |-> Latest(SubSeq(Infos, 1, e), g)]
        BY <1>6, <2>4, <3>1
      <4> HIDE DEF Numbers, e
      <4> QED BY <4>1, <4>2, <4>3 DEF Upto
    <3>2. CASE g # f
      <4>1. Numbers(g, e) = Numbers(g, e - 1)
        <5>1. \A k \in 1 .. e : k \in 1 .. e - 1 \/ k = e
          BY <1>2
        <5>2. \A k \in 1 .. e - 1 : k \in 1 .. e
          BY <1>2
        <5> QED BY <1>2, <3>2, <5>1, <5>2
      <4>2. IF Numbers(g, e - 1) = {} THEN bound[T][g] # Nil => bound[T][g].set < n
            ELSE bound[T][g] = [set |-> n, tree |-> Latest(SubSeq(Infos, 1, Upto(g, Numbers(g, e - 1))), g)]
        <5>1. \A numbers : Followed(g, numbers) = Upto(g, numbers)
          BY <1>1 DEF Followed, Entered
        <5> HIDE DEF Upto
        <5> QED BY <1>1, <5>1 DEF Inv, BoundTrue
      <4>3. bound'[T][g] = bound[T][g]
        BY <1>2, <2>4, <3>2
      <4> HIDE DEF Numbers, Upto
      <4> QED BY <4>1, <4>2, <4>3
    <3> QED BY <3>1, <3>2
  <2>10. Settled'
    <3> SUFFICES ASSUME NEW S \in Types, Initialised(S), NEW g \in Functions(S)
                 PROVE  bound'[S][g] # Nil /\ Known(served[S]) \subseteq DOMAIN sets[bound'[S][g].set]
      BY <1>1, <2>2 DEF Settled
    <3>1. S # T
      BY <1>1, Underway DEF Inv
    <3>2. bound'[S][g] = bound[S][g]
      BY <2>4, <3>1
    <3> QED BY <3>2 DEF Inv, Settled
  <2>11. SettledRuns'
    BY <1>1 DEF Inv, SettledRuns
  <2> QED BY <2>5, <2>6, <2>7, <2>8, <2>9, <2>10, <2>11 DEF Inv
<1> QED
  <2>1. \/ Fail /\ UNCHANGED bound
        \/ /\ at' = [at EXCEPT !.step = "parse", !.entry = @ + 1] /\ UNCHANGED outcomes
           /\ \/ f \notin Functions(T) /\ UNCHANGED bound
              \/ f \in Functions(T) /\ bound' = [bound EXCEPT ![T][f] = [set |-> Current, tree |-> Lookup(sets[Current], f)]]
    BY DEF Bind
  <2>2. [set |-> Current, tree |-> Lookup(sets[Current], f)] = b
    BY <1>8 DEF Current
  <2> HIDE DEF f, T, b
  <2> QED BY <1>3, <1>9, <2>1, <2>2

LEMMA CheckStep == ASSUME Inv, checkAllDBFuncSet PROVE Inv'
<1> DEFINE n == Len(sets)
           T == Op.type
           o == IF Unset(T) = {} THEN "ok" ELSE "error"
<1>1. /\ Running("init") /\ at.step = "parse" /\ at.entry > Len(Infos) /\ pending = {}
      /\ handle' \subseteq handle \union {T} /\ Return(o) /\ served' = [served EXCEPT ![T] = Infos]
      /\ UNCHANGED <<program, dirName, registry, sets, pending, bound, run>>
  BY DEF checkAllDBFuncSet, Inv, TypeOK
<1>2. /\ T \in Types /\ Infos \in Seq(Comment) /\ Len(Infos) \in Nat /\ DOMAIN Infos = 1 .. Len(Infos)
      /\ n \in Nat /\ dirName = <<>> /\ at.entry - 1 = Len(Infos)
      /\ \A k \in 1 .. Len(Infos) : Infos[k] \in Comment
  <2>1. at.entry <= Len(Infos) + 1
    BY <1>1 DEF Inv, StepInv
  <2> QED BY <1>1, <2>1, InitFacts DEF Inv
<1>3. o \in {"ok", "error"}
  OBVIOUS
<1>4. /\ at' \in [call : 1 .. Len(program') + 1, step : {"start", "parse", "add", "bind"}, entry : Nat \ {0}]
      /\ outcomes' \in Seq({"ok", "error"}) /\ Len(outcomes') = at'.call - 1
      /\ at'.call = at.call + 1 /\ at'.step = "start" /\ at'.entry = 1
  <2> HIDE DEF o
  <2> QED BY <1>1, <1>3, ReturnFacts DEF Inv
<1>5. TypeOK'
  <2>1. \A S \in Types : bound[S] \in [Functions(S) -> {Nil} \union [set : DOMAIN sets, tree : AnyTree]]
    BY DEF Inv, TypeOK
  <2>2. served' \in [Types -> Seq(Comment)] /\ handle' \subseteq Types
    BY <1>1, <1>2 DEF Inv, TypeOK
  <2>3. (\A S \in Types : bound[S] \in [Functions(S) -> {Nil} \union [set : DOMAIN sets, tree : AnyTree]])'
    BY <1>1, <2>1
  <2>4. pending' \subseteq AnyTree /\ (at'.step = "add" <=> pending' # {}) /\ run' = run /\ DOMAIN bound' = Types
    BY <1>1, <1>4 DEF Inv, TypeOK
  <2>5. program' = program /\ registry' = registry /\ sets' = sets
    BY <1>1
  <2> HIDE DEF o, T
  <2> QED BY <1>4, <2>2, <2>3, <2>4, <2>5 DEF Inv, TypeOK
<1>6. StepInv' /\ DirInv'
  BY <1>1, <1>2, <1>4 DEF StepInv, DirInv
<1>7. SetInv' /\ BoundTrue'
  BY <1>4 DEF SetInv, BoundTrue
<1>8. BoundInv'
  BY <1>1, <1>4 DEF Inv, BoundInv
<1>9. Settled'
  <2> SUFFICES ASSUME NEW S \in Types, Initialised(S)', NEW g \in Functions(S)
               PROVE  bound[S][g] # Nil /\ Known(served'[S]) \subseteq DOMAIN sets[bound[S][g].set]
    BY <1>1 DEF Settled
  <2>1. CASE S # T
    <3>1. Initialised(S)
      <4> HIDE DEF o
      <4> QED BY <1>1, <1>3, <2>1, NextCall DEF Inv
    <3>2. served'[S] = served[S]
      BY <1>1, <2>1 DEF Inv, TypeOK
    <3> QED BY <3>1, <3>2 DEF Inv, Settled
  <2>2. CASE S = T
    <3>1. Unset(T) = {}
      <4>1. o = "ok"
        <5> HIDE DEF o
        <5> QED BY <1>1, <1>3, <2>2, NextCall DEF Inv
      <4> QED BY <4>1
    <3>2. bound[T][g] # Nil
      <4>1. PICK i \in DOMAIN Layout[T] : g = Layout[T][i] /\ Layout[T][i] # Handle
        BY <2>2 DEF Functions, ToSet
      <4>2. i \notin Unset(T)
        BY <3>1
      <4> QED BY <4>1, <4>2 DEF Unset
    <3>3. PICK k \in 1 .. Len(Infos) : Infos[k].name = g
      BY <1>2, <2>2, <3>2 DEF Inv, BoundInv, Infos
    <3>4. bound[T][g].set = n
      <4>1. {j \in 1 .. at.entry - 1 : Infos[j].name = g} # {}
        BY <1>2, <3>3
      <4>2. IF {j \in 1 .. at.entry - 1 : Infos[j].name = g} = {} THEN bound[T][g] # Nil => bound[T][g].set < n
            ELSE bound[T][g] = [set |-> n, tree |-> Latest(SubSeq(Infos, 1, Followed(g, {j \in 1 .. at.entry - 1 : Infos[j].name = g})), g)]
        BY <1>1, <2>2 DEF Inv, BoundTrue
      <4> QED BY <4>1, <4>2
    <3>5. served'[S] = Infos
      BY <1>1, <1>2, <2>2 DEF Inv, TypeOK
    <3>6. ASSUME NEW x \in Known(Infos) PROVE x \in DOMAIN sets[n]
      <4>1. PICK j \in 1 .. Len(Infos) : \E t \in Trees(Infos[j]) : t.name = x
        BY <1>2, <3>6 DEF Known
      <4>2. Named(Infos, j, x) # {}
        BY <4>1 DEF Named
      <4>3. x \in Name
        <5>1. Trees(Infos[j]) \subseteq AnyTree
          BY <1>2, CommentFacts
        <5> QED BY <4>1, <5>1 DEF AnyTree
      <4>4. Content(sets[n], Infos, Len(Infos), x)
        <5>1. Content(sets[n], Infos, Entered(x), x)
          BY <1>1, <4>3 DEF Inv, SetInv
        <5>2. Entered(x) = Len(Infos)
          BY <1>1, <1>2 DEF Entered
        <5> QED BY <5>1, <5>2
      <4> QED BY <4>2, <4>4 DEF Content
    <3> QED BY <2>2, <3>2, <3>4, <3>5, <3>6
  <2> QED BY <2>1, <2>2
<1>10. SettledRuns'
  BY <1>1 DEF Inv, SettledRuns
<1> QED
  BY <1>5, <1>6, <1>7, <1>8, <1>9, <1>10 DEF Inv

(* Nothing an initialisation has done changes.                             *)
LEMMA SameBound ==
  ASSUME BoundTrue, UNCHANGED <<program, at, registry, sets, pending, bound>>
  PROVE  BoundTrue'
<1>1. Running("init")' = Running("init") /\ Op' = Op /\ Infos' = Infos /\ Root' = Root
  BY DEF Running, Op, Infos, Root
<1>2. \A f : Entered(f)' = Entered(f)
  BY DEF Entered
<1>3. \A numbers : Max(numbers)' = Max(numbers)
  BY DEF Max
<1>4. \A f, numbers : Followed(f, numbers)' = Followed(f, numbers)
  BY <1>1, <1>2, <1>3 DEF Followed
<1> QED
  BY <1>1, <1>4 DEF BoundTrue

LEMMA CallStep == ASSUME Inv, NEW T \in Types, NEW f \in Functions(T), Call(T, f) PROVE Inv'
<1> DEFINE b == bound[T][f]
           missing == IF b = Nil THEN {} ELSE b.tree.calls \ DOMAIN sets[b.set]
<1>1. /\ UNCHANGED <<program, at, outcomes, dirName, registry, sets, pending, bound, handle, served>>
      /\ run' = [settled |-> Initialised(T), missing |-> missing, known |-> Known(served[T]),
                 outcome |-> IF b = Nil THEN "panic" ELSE IF missing = {} THEN "ok" ELSE "undefined"]
  BY DEF Call
<1>2. b \in {Nil} \union [set : DOMAIN sets, tree : AnyTree]
  BY DEF Inv, TypeOK
<1>3. missing \subseteq Name
  BY <1>2 DEF AnyTree
<1>4. Known(served[T]) \subseteq Name
  <2>1. served[T] \in Seq(Comment)
    BY DEF Inv, TypeOK
  <2>2. ASSUME NEW k \in DOMAIN served[T], NEW t \in Trees(served[T][k]) PROVE t.name \in Name
    <3>1. served[T][k] \in Comment
      BY <2>1
    <3> QED BY <3>1, CommentFacts DEF AnyTree
  <2> QED BY <2>2 DEF Known
<1>5. Initialised(T) \in BOOLEAN
  BY DEF Initialised
<1>6. TypeOK'
  <2>1. run' \in [settled : BOOLEAN, outcome : {"none", "ok", "panic", "undefined"},
                  missing : SUBSET Name, known : SUBSET Name]
    <3> HIDE DEF b, missing
    <3> QED BY <1>1, <1>3, <1>4, <1>5
  <2>2. (\A S \in Types : bound[S] \in [Functions(S) -> {Nil} \union [set : DOMAIN sets, tree : AnyTree]])'
    BY <1>1 DEF Inv, TypeOK
  <2> QED BY <1>1, <2>1, <2>2 DEF Inv, TypeOK
<1>7. StepInv' /\ DirInv'
  BY <1>1 DEF Inv, StepInv, DirInv, Running, Op, Infos, Info
<1>8. SetInv'
  BY <1>1 DEF Inv, SetInv, Entered, Infos, Op
<1>9. BoundInv' /\ BoundTrue'
  BY <1>1, SameBound DEF Inv, BoundInv, Op
<1>10. Settled'
  <2>1. \A S : Initialised(S)' <=> Initialised(S)
    BY <1>1, SameCall
  <2> QED BY <1>1, <2>1 DEF Inv, Settled
<1>11. SettledRuns'
  <2> SUFFICES ASSUME Initialised(T) PROVE b # Nil /\ missing \intersect Known(served[T]) = {}
    BY <1>1 DEF SettledRuns
  <2> QED BY DEF Inv, Settled
<1> QED
  BY <1>6, <1>7, <1>8, <1>9, <1>10, <1>11 DEF Inv

LEMMA InitInv == Init => Inv
<1> SUFFICES ASSUME Init PROVE Inv
  OBVIOUS
<1>1. /\ at = [call |-> 1, step |-> "start", entry |-> 1] /\ program \in Seq(ToSet(program))
      /\ at \in [call : 1 .. Len(program) + 1, step : {"start", "parse", "add", "bind"}, entry : Nat \ {0}]
  <2>1. program \in Seq(ToSet(program))
    BY ProgramsAssumption DEF Init
  <2>2. 1 \in 1 .. Len(program) + 1
    BY <2>1
  <2> QED BY <2>1, <2>2 DEF Init
<1>2. sets = <<>> /\ DOMAIN sets = {} /\ Len(sets) = 0
  BY DEF Init
<1>3. TypeOK
  <2>1. registry \in [Types -> Seq(Comment)] /\ served \in [Types -> Seq(Comment)]
    BY DEF Init
  <2>2. run \in [settled : BOOLEAN, outcome : {"none", "ok", "panic", "undefined"},
                 missing : SUBSET Name, known : SUBSET Name]
    BY DEF Init, NoRun
  <2>3. sets \in Seq({sets[s] : s \in DOMAIN sets})
    BY <1>2
  <2>4. \A T \in Types : \A k \in DOMAIN registry[T] : registry[T][k].type = T
    BY DEF Init
  <2>5. \A T \in Types : bound[T] \in [Functions(T) -> {Nil} \union [set : DOMAIN sets, tree : AnyTree]]
    BY DEF Init
  <2>6. outcomes \in Seq({"ok", "error"}) /\ Len(outcomes) = 0
    BY DEF Init
  <2> QED BY <1>1, <1>2, <2>1, <2>2, <2>3, <2>4, <2>5, <2>6 DEF Init, TypeOK
<1>4. StepInv /\ DirInv /\ SetInv /\ BoundTrue
  BY <1>1 DEF Init, StepInv, DirInv, SetInv, BoundTrue
<1>5. BoundInv
  BY DEF Init, BoundInv
<1>6. Settled
  <2> SUFFICES ASSUME NEW T \in Types, Initialised(T) PROVE FALSE
    BY DEF Settled
  <2>1. Inits(T) \subseteq {1} /\ Inits(T) # {} /\ Max(Inits(T)) < 1
    BY <1>1 DEF Init, Inits, Initialised
  <2>2. Max(Inits(T)) = 1
    BY <2>1, MaxIs
  <2> QED BY <2>1, <2>2
<1>7. SettledRuns
  BY DEF Init, SettledRuns, NoRun
<1> QED
  BY <1>3, <1>4, <1>5, <1>6, <1>7 DEF Inv

LEMMA NextInv == Inv /\ [Next]_vars => Inv'
<1> SUFFICES ASSUME Inv, [Next]_vars PROVE Inv'
  OBVIOUS
<1>1. CASE Load
  BY <1>1, BytesStep, DirStep, DirEndStep DEF Load
<1>2. CASE InitDBFunc
  BY <1>2, BeginStep, AddParseStep, AddTreeStep, BindStep, CheckStep DEF InitDBFunc
<1>3. CASE \E T \in Types : \E f \in Functions(T) : Call(T, f)
  BY <1>3, CallStep
<1>4. CASE UNCHANGED vars
  <2>1. \A S : Initialised(S)' <=> Initialised(S)
    BY <1>4, SameCall DEF vars
  <2>2. TypeOK' /\ StepInv' /\ DirInv'
    BY <1>4 DEF vars, Inv, TypeOK, StepInv, DirInv, Running, Op, Infos, Info
  <2>3. SetInv' /\ BoundInv' /\ BoundTrue' /\ SettledRuns'
    BY <1>4, SameBound DEF vars, Inv, SetInv, Entered, BoundInv, SettledRuns, Running, Op, Infos
  <2>4. Settled'
    BY <1>4, <2>1 DEF vars, Inv, Settled
  <2> QED BY <2>2, <2>3, <2>4 DEF Inv
<1> QED
  BY <1>1, <1>2, <1>3, <1>4 DEF Next

(* The strengthened invariant holds at every moment.                       *)
LEMMA Invariance == Spec => []Inv
  BY InitInv, NextInv, PTL DEF Spec
-----------------------------------------------------------------------------
(* Joining sequences; an operator keeps the provers from unfolding it too early. *)
JoinsAtEnd(S, y) == \A s, t \in Seq(S) : (s \o t) \o y = s \o (t \o y)
LEMMA JoinedTwice == \A S : \A y \in Seq(S) : JoinsAtEnd(S, y)
  BY ConcatAssociative DEF JoinsAtEnd

AppendsAtEnd(S, s) == \A t \in Seq(S) : \A e \in S : s \o Append(t, e) = Append(s \o t, e)
LEMMA AppendJoined == \A S : \A s \in Seq(S) : AppendsAtEnd(S, s)
<1> TAKE S
<1> TAKE s \in Seq(S)
<1> SUFFICES ASSUME NEW t \in Seq(S), NEW e \in S PROVE s \o Append(t, e) = Append(s \o t, e)
  BY DEF AppendsAtEnd
<1>1. <<e>> \in Seq(S) /\ Append(t, e) = t \o <<e>>
  OBVIOUS
<1>2. s \o t \in Seq(S)
  BY ConcatProperties
<1>3. Append(s \o t, e) = (s \o t) \o <<e>>
  <2> DEFINE a == s \o t
  <2>1. a \in Seq(S)
    BY <1>2
  <2> HIDE DEF a
  <2>2. Append(a, e) = a \o <<e>>
    BY <2>1
  <2> QED BY <2>2 DEF a
<1>4. (s \o t) \o <<e>> = s \o (t \o <<e>>)
  <2>1. JoinsAtEnd(S, <<e>>)
    BY <1>1, JoinedTwice
  <2> QED BY <2>1 DEF JoinsAtEnd
<1> QED BY Zenon, <1>1, <1>3, <1>4

(* What FlattenSeq builds up: h[i] is the first i of ss together.          *)
Gathers(h, ss, S) ==
  h \in [0 .. Len(ss) -> Seq(S)] /\ h[0] = <<>> /\ \A i \in 1 .. Len(ss) : h[i] = h[i - 1] \o ss[i]

LEMMA FlattenIs ==
  ASSUME NEW S, NEW ss \in Seq(Seq(S)), NEW h, Gathers(h, ss, S)
  PROVE  FlattenSeq(ss) = h[Len(ss)]
<1> DEFINE n == Len(ss)
           Is(g) == g = [i \in 1 .. n |-> IF i = 1 THEN ss[i] ELSE g[i - 1] \o ss[i]]
           f == CHOOSE g : Is(g)
<1>1. n \in Nat /\ \A i \in 1 .. n : ss[i] \in Seq(S)
  OBVIOUS
<1>2. h[0] = <<>> /\ h \in [0 .. n -> Seq(S)] /\ \A i \in 1 .. n : h[i] = h[i - 1] \o ss[i]
  BY DEF Gathers
<1>3. CASE n = 0
  <2>1. ss = <<>>
    BY <1>3
  <2> QED BY <1>2, <1>3, <2>1 DEF FlattenSeq
<1>4. CASE n # 0
  <2>1. FlattenSeq(ss) = f[n]
    BY <1>4 DEF FlattenSeq
  <2>2. ASSUME 1 \in 1 .. n PROVE h[1] = ss[1]
    <3> DEFINE x == ss[1]
    <3>1. x \in Seq(S) /\ h[1] = <<>> \o x
      <4>1. h[1] = h[1 - 1] \o x /\ x \in Seq(S)
        BY <1>1, <1>2, <2>2
      <4>2. 1 - 1 = 0
        OBVIOUS
      <4> QED BY <1>2, <4>1, <4>2
    <3> HIDE DEF x
    <3>2. <<>> \o x = x
      BY <3>1, ConcatEmptySeq
    <3>3. h[1] = x
      BY <3>1, <3>2
    <3> QED BY <3>3 DEF x
  <2> DEFINE k == [i \in 1 .. n |-> h[i]]
  <2>3. Is(k)
    <3>1. ASSUME NEW i \in 1 .. n PROVE k[i] = IF i = 1 THEN ss[i] ELSE k[i - 1] \o ss[i]
      <4>1. CASE i = 1
        BY <2>2, <4>1
      <4>2. CASE i # 1
        <5>1. i - 1 \in 1 .. n
          BY <1>1, <4>2
        <5> QED BY <1>2, <4>2, <5>1
      <4> QED BY <4>1, <4>2
    <3>2. k = [i \in 1 .. n |-> k[i]]
      OBVIOUS
    <3> HIDE DEF k
    <3> QED BY <3>1, <3>2
  <2>4. Is(f)
    <3> HIDE DEF Is, k
    <3> QED BY <2>3
  <2> HIDE DEF f
  <2>5. \A i \in 1 .. n : f[i] = IF i = 1 THEN ss[i] ELSE f[i - 1] \o ss[i]
    BY <2>4
  <2> DEFINE W == {i \in 1 .. n : f[i] # h[i]}
  <2>6. SUFFICES ASSUME W # {} PROVE FALSE
    <3>1. n \in 1 .. n
      BY <1>1, <1>4
    <3> HIDE DEF n
    <3>2. f[n] = h[n]
      BY <2>6, <3>1
    <3>3. FlattenSeq(ss) = h[n]
      BY <2>1, <3>2
    <3> QED BY <3>3 DEF n
  <2>7. PICK m \in W : \A y \in W : m <= y
    <3> HIDE DEF W
    <3>1. W \subseteq Nat
      BY DEF W
    <3> QED BY <2>6, <3>1, LeastNat
  <2>8. CASE m = 1
    <3>1. h[1] = ss[1] /\ f[1] = ss[1]
      BY <2>2, <2>5, <2>7, <2>8
    <3> QED BY <2>7, <2>8, <3>1
  <2>9. CASE m # 1
    <3>1. m \in 1 .. n /\ m - 1 \in 1 .. n /\ m - 1 \notin W
      BY <1>1, <2>7, <2>9
    <3>2. f[m - 1] = h[m - 1]
      BY <3>1
    <3>3. f[m] = f[m - 1] \o ss[m] /\ h[m] = h[m - 1] \o ss[m]
      BY <1>2, <2>5, <2>9, <3>1
    <3>4. f[m] = h[m]
      BY <3>2, <3>3
    <3> QED BY <2>7, <3>4
  <2> QED BY <2>8, <2>9
<1> QED BY <1>3, <1>4

LEMMA GathersExists ==
  ASSUME NEW S, NEW ss \in Seq(Seq(S))
  PROVE  \E h : Gathers(h, ss, S)
<1> DEFINE n == Len(ss)
           Upto(h, m) == h \in [0 .. m -> Seq(S)] /\ h[0] = <<>> /\ \A i \in 1 .. m : h[i] = h[i - 1] \o ss[i]
           W == {m \in 0 .. n : ~ \E h : Upto(h, m)}
<1>1. n \in Nat /\ \A i \in 1 .. n : ss[i] \in Seq(S)
  OBVIOUS
<1>2. SUFFICES ASSUME W # {} PROVE FALSE
  <2>1. n \in 0 .. n
    BY <1>1
  <2>2. PICK h : Upto(h, n)
    BY <1>2, <2>1
  <2> QED BY <2>2 DEF Gathers
<1>3. PICK m \in W : \A y \in W : m <= y
  <2> HIDE DEF Upto
  <2>1. W \subseteq Nat /\ W # {}
    BY <1>1, <1>2
  <2> HIDE DEF W
  <2> QED BY <2>1, LeastNat
<1>4. CASE m = 0
  <2> DEFINE h == [i \in 0 .. 0 |-> <<>>]
  <2>1. Upto(h, 0)
    OBVIOUS
  <2> QED BY <1>3, <1>4, <2>1
<1>5. CASE m # 0
  <2>1. m - 1 \in 0 .. n /\ m - 1 \notin W /\ m \in 1 .. n
    <3> HIDE DEF Upto
    <3>1. m \in 0 .. n
      BY <1>3
    <3>2. m - 1 \in 0 .. n /\ m \in 1 .. n /\ ~(m <= m - 1)
      BY <1>1, <1>5, <3>1
    <3> HIDE DEF W
    <3> QED BY <1>3, <3>2
  <2>2. PICK g : Upto(g, m - 1)
    <3> HIDE DEF Upto
    <3> QED BY <2>1
  <2> DEFINE last == g[m - 1] \o ss[m]
             h == [i \in 0 .. m |-> IF i = m THEN last ELSE g[i]]
  <2>3. \A i \in 0 .. m : i = m \/ i \in 0 .. m - 1
    BY <2>1
  <2>4. last \in Seq(S)
    <3> DEFINE x == g[m - 1]
               y == ss[m]
    <3>1. m - 1 \in 0 .. m - 1
      BY <2>1
    <3>2. x \in Seq(S) /\ y \in Seq(S)
      BY <1>1, <2>1, <2>2, <3>1
    <3> HIDE DEF x, y
    <3>3. x \o y \in Seq(S)
      BY <3>2, ConcatProperties
    <3> QED BY <3>3 DEF x, y
  <2>5. h \in [0 .. m -> Seq(S)] /\ h[0] = <<>>
    <3> HIDE DEF last
    <3>1. \A i \in 0 .. m - 1 : g[i] \in Seq(S)
      BY <2>2
    <3>2. 0 # m /\ 0 \in 0 .. m /\ g[0] = <<>>
      BY <2>1, <2>2
    <3> QED BY <2>3, <2>4, <3>1, <3>2
  <2>6. ASSUME NEW i \in 1 .. m PROVE h[i] = h[i - 1] \o ss[i]
    <3>1. CASE i = m
      <4>1. m \in 0 .. m /\ m - 1 \in 0 .. m /\ m - 1 # m
        BY <2>1
      <4>2. h[m] = g[m - 1] \o ss[m] /\ h[m - 1] = g[m - 1]
        BY <4>1
      <4> QED BY <3>1, <4>2
    <3>2. CASE i # m
      <4>1. i \in 1 .. m - 1 /\ i - 1 # m /\ i \in 0 .. m /\ i - 1 \in 0 .. m
        BY <2>1, <3>2
      <4>2. h[i] = g[i] /\ h[i - 1] = g[i - 1]
        BY <3>2, <4>1
      <4>3. g[i] = g[i - 1] \o ss[i]
        BY <2>2, <4>1
      <4> QED BY <4>2, <4>3
    <3> QED BY <3>1, <3>2
  <2>7. Upto(h, m)
    <3> HIDE DEF h
    <3> QED BY <2>5, <2>6
  <2> QED BY <1>3, <2>7
<1> QED BY <1>4, <1>5

LEMMA FlattenTyped ==
  ASSUME NEW S, NEW ss \in Seq(Seq(S))
  PROVE  FlattenSeq(ss) \in Seq(S)
<1>1. PICK h : Gathers(h, ss, S)
  BY GathersExists
<1>2. FlattenSeq(ss) = h[Len(ss)]
  BY <1>1, FlattenIs
<1>3. Len(ss) \in 0 .. Len(ss)
  OBVIOUS
<1> QED BY <1>1, <1>2, <1>3 DEF Gathers

(* A sequence that is only followed by empty ones grows at its end.        *)
Grown(ss, tt, m, y) ==
  /\ Len(tt) = Len(ss) /\ tt[m] = ss[m] \o y
  /\ \A k \in 1 .. Len(ss) : (k # m => tt[k] = ss[k]) /\ (k > m => ss[k] = <<>>)

LEMMA FlattenGrows ==
  ASSUME NEW S, NEW ss \in Seq(Seq(S)), NEW tt \in Seq(Seq(S)), NEW m \in 1 .. Len(ss), NEW y \in Seq(S),
         Grown(ss, tt, m, y)
  PROVE  FlattenSeq(tt) = FlattenSeq(ss) \o y
<1>0. JoinsAtEnd(S, y)
  BY JoinedTwice
<1> DEFINE n == Len(ss)
<1>1. n \in Nat /\ m \in 1 .. n /\ \A i \in 1 .. n : ss[i] \in Seq(S)
  OBVIOUS
<1>2. PICK h : Gathers(h, ss, S)
  BY GathersExists
<1>3. h[0] = <<>> /\ (\A i \in 0 .. n : h[i] \in Seq(S)) /\ \A i \in 1 .. n : h[i] = h[i - 1] \o ss[i]
  BY <1>2 DEF Gathers
<1> DEFINE g == [i \in 0 .. n |-> IF i < m THEN h[i] ELSE h[i] \o y]
<1>4. \A i \in 0 .. n : h[i] \o y \in Seq(S)
  BY <1>3, ConcatProperties
<1>5. g \in [0 .. n -> Seq(S)] /\ g[0] = <<>>
  <2> HIDE DEF n
  <2>1. 0 \in 0 .. n /\ 0 < m
    BY <1>1
  <2> QED BY <1>3, <1>4, <2>1
<1>4a. tt[m] = ss[m] \o y /\ \A k \in 1 .. n : (k # m => tt[k] = ss[k]) /\ (k > m => ss[k] = <<>>)
  BY DEF Grown
<1> HIDE DEF n
<1>6. ASSUME NEW i \in 1 .. n PROVE g[i] = g[i - 1] \o tt[i]
  <2>0. i \in 0 .. n /\ i - 1 \in 0 .. n
    BY <1>1
  <2>1. i \in 0 .. n /\ i - 1 \in 0 .. n /\ h[i] \in Seq(S) /\ h[i - 1] \in Seq(S) /\ ss[i] \in Seq(S)
    BY <1>1, <1>3, <2>0
  <2>2. CASE i < m
    <3>1. g[i] = h[i] /\ g[i - 1] = h[i - 1] /\ tt[i] = ss[i]
      BY <1>1, <1>4a, <2>1, <2>2
    <3> QED BY <1>3, <3>1
  <2>3. CASE i = m
    <3>1. g[i] = h[i] \o y /\ g[i - 1] = h[i - 1] /\ tt[i] = ss[i] \o y
      <4>1. ~(i < m) /\ i - 1 < m
        BY <1>1, <2>3
      <4> QED BY <1>4a, <2>1, <2>3, <4>1
    <3>2. h[i] = h[i - 1] \o ss[i]
      BY <1>3
    <3>3. (h[i - 1] \o ss[i]) \o y = h[i - 1] \o (ss[i] \o y)
      BY <1>0, <2>1 DEF JoinsAtEnd
    <3> QED BY <3>1, <3>2, <3>3
  <2>4. CASE i > m
    <3>1. ~(i < m) /\ ~(i - 1 < m) /\ i # m
      BY <1>1, <2>4
    <3>2. g[i] = h[i] \o y /\ g[i - 1] = h[i - 1] \o y /\ tt[i] = <<>> /\ ss[i] = <<>>
      BY <1>4a, <2>1, <2>4, <3>1
    <3>3. h[i] = h[i - 1] \o <<>>
      BY <1>3, <3>2
    <3>4. h[i] = h[i - 1]
      BY <2>1, <3>3, ConcatEmptySeq
    <3>5. g[i - 1] \in Seq(S)
      BY <1>4, <2>1, <3>2
    <3>6. g[i - 1] \o <<>> = g[i - 1]
      BY <3>5, ConcatEmptySeq
    <3> QED BY <3>2, <3>4, <3>6
  <2>5. i < m \/ i = m \/ i > m
    BY <1>1
  <2> HIDE DEF g
  <2> QED BY <2>2, <2>3, <2>4, <2>5
<1>7. Gathers(g, tt, S)
  <2>1. n = Len(tt)
    BY DEF n, Grown
  <2> HIDE DEF g
  <2> QED BY <1>5, <1>6, <2>1 DEF Gathers
<1>8. g[n] = h[n] \o y
  <2>1. n \in 0 .. n /\ ~(n < m)
    BY <1>1
  <2> QED BY <2>1
<1>9. FlattenSeq(tt) = g[n] /\ FlattenSeq(ss) = h[n]
  <2> HIDE DEF g
  <2>1. FlattenSeq(tt) = g[Len(tt)]
    BY <1>7, FlattenIs
  <2>2. FlattenSeq(ss) = h[Len(ss)]
    BY <1>2, FlattenIs
  <2>3. n = Len(tt) /\ n = Len(ss)
    BY DEF n, Grown
  <2> QED BY <2>1, <2>2, <2>3
<1> HIDE DEF g
<1> QED BY <1>8, <1>9

Longer(ss, tt) == Len(tt) = Len(ss) + 1 /\ \A k \in 1 .. Len(ss) : tt[k] = ss[k]

LEMMA FlattenNext ==
  ASSUME NEW S, NEW ss \in Seq(Seq(S)), NEW tt \in Seq(Seq(S)), Longer(ss, tt)
  PROVE  FlattenSeq(tt) = FlattenSeq(ss) \o tt[Len(tt)]
<1> DEFINE n == Len(ss)
<1>1. n \in Nat /\ Len(tt) = n + 1 /\ \A i \in 1 .. n : tt[i] = ss[i]
  BY DEF Longer
<1>2. PICK h : Gathers(h, tt, S)
  BY GathersExists
<1>3. /\ h[0] = <<>> /\ \A i \in 0 .. n + 1 : h[i] \in Seq(S)
      /\ \A i \in 1 .. n + 1 : h[i] = h[i - 1] \o tt[i]
  BY <1>1, <1>2 DEF Gathers
<1> DEFINE g == [i \in 0 .. n |-> h[i]]
<1>4. g \in [0 .. n -> Seq(S)] /\ g[0] = <<>>
  BY <1>1, <1>3
<1>5. ASSUME NEW i \in 1 .. n PROVE g[i] = g[i - 1] \o ss[i]
  <2>1. i \in 0 .. n /\ i - 1 \in 0 .. n /\ i \in 1 .. n + 1
    BY <1>1
  <2>2. g[i] = h[i] /\ g[i - 1] = h[i - 1] /\ tt[i] = ss[i]
    BY <1>1, <2>1
  <2> QED BY <1>3, <2>1, <2>2
<1>6. Gathers(g, ss, S)
  <2> HIDE DEF g
  <2> QED BY <1>4, <1>5 DEF Gathers
<1>7. FlattenSeq(ss) = h[n]
  <2>1. g[n] = h[n]
    BY <1>1
  <2> HIDE DEF g
  <2> QED BY <1>6, <2>1, FlattenIs
<1>8. FlattenSeq(tt) = h[n + 1]
  BY <1>1, <1>2, FlattenIs
<1>9. h[n + 1] = h[n] \o tt[n + 1]
  <2>1. n + 1 \in 1 .. n + 1 /\ (n + 1) - 1 = n
    BY <1>1
  <2> QED BY <1>3, <2>1
<1> HIDE DEF n
<1> QED BY <1>1, <1>7, <1>8, <1>9
-----------------------------------------------------------------------------
(* The comments of a type in two files together.                           *)
LEMMA PicksTyped ==
  ASSUME NEW comments \in Seq(Comment), NEW n \in 0 .. Len(comments), NEW T, NEW g, Picks(g, n, T, comments)
  PROVE  \A i \in 0 .. n : g[i] \in Seq(Comment)
<1>1. n \in Nat /\ \A i \in 1 .. n : comments[i] \in Comment
  OBVIOUS
<1>2. \A i \in 0 .. n :
        g[i] = IF i = 0 THEN <<>> ELSE IF comments[i].type = T THEN Append(g[i - 1], comments[i]) ELSE g[i - 1]
  BY DEF Picks
<1> DEFINE W == {i \in 0 .. n : g[i] \notin Seq(Comment)}
<1>3. SUFFICES ASSUME W # {} PROVE FALSE
  BY <1>3
<1>4. PICK m \in W : \A y \in W : m <= y
  <2>1. W \subseteq Nat /\ W # {}
    BY <1>1, <1>3
  <2> HIDE DEF W
  <2> QED BY <2>1, LeastNat
<1>5. m # 0
  <2>1. <<>> \in Seq(Comment)
    OBVIOUS
  <2> QED BY <1>2, <1>4, <2>1
<1>6. m \in 1 .. n /\ m - 1 \in 0 .. n /\ ~(m <= m - 1)
  BY <1>1, <1>4, <1>5
<1>7. g[m - 1] \in Seq(Comment) /\ comments[m] \in Comment
  BY <1>1, <1>4, <1>6
<1>8. Append(g[m - 1], comments[m]) \in Seq(Comment)
  BY <1>7
<1>9. g[m] \in Seq(Comment)
  BY <1>2, <1>5, <1>6, <1>7, <1>8
<1> QED BY <1>4, <1>9

LEMMA OfTypeNone == ASSUME NEW T PROVE OfType(T, <<>>) = <<>>
<1> DEFINE g == CHOOSE g : Picks(g, 0, T, <<>>)
<1>1. OfType(T, <<>>) = g[0]
  <2>1. Len(<<>>) = 0
    OBVIOUS
  <2> QED BY <2>1 DEF OfType, Picks
<1>2. Picks(g, 0, T, <<>>)
  BY PicksExists
<1> HIDE DEF g
<1> QED BY <1>1, <1>2 DEF Picks

LEMMA OfTypeJoined ==
  ASSUME NEW a \in Seq(Comment), NEW b \in Seq(Comment), NEW T
  PROVE  OfType(T, a \o b) = OfType(T, a) \o OfType(T, b)
<1> DEFINE l == Len(a)
           n == Len(b)
           c == a \o b
           fa == CHOOSE g : Picks(g, l, T, a)
           fb == CHOOSE g : Picks(g, n, T, b)
           fc == CHOOSE g : Picks(g, Len(c), T, c)
<1>1. OfType(T, a) = fa[l] /\ OfType(T, b) = fb[n] /\ OfType(T, c) = fc[Len(c)]
  BY DEF OfType, Picks
<1>2. /\ c \in Seq(Comment) /\ Len(c) = l + n /\ l \in Nat /\ n \in Nat /\ l + n \in Nat
      /\ (\A i \in 1 .. l : c[i] = a[i]) /\ \A i \in 1 .. n : c[l + i] = b[i]
  <2>1. /\ c \in Seq(Comment) /\ Len(c) = l + n
        /\ \A i \in 1 .. l + n : c[i] = IF i <= l THEN a[i] ELSE b[i - l]
    BY ConcatProperties
  <2>2. l \in Nat /\ n \in Nat
    OBVIOUS
  <2> HIDE DEF l, n, c
  <2>3. ASSUME NEW i \in 1 .. l PROVE c[i] = a[i]
    <3>1. i \in 1 .. l + n /\ i <= l
      BY <2>2
    <3> QED BY <2>1, <3>1
  <2>4. ASSUME NEW i \in 1 .. n PROVE c[l + i] = b[i]
    <3>1. l + i \in 1 .. l + n /\ ~(l + i <= l) /\ (l + i) - l = i
      BY <2>2
    <3> QED BY <2>1, <3>1
  <2> QED BY <2>1, <2>2, <2>3, <2>4
<1>3. Picks(fa, l, T, a) /\ Picks(fb, n, T, b) /\ Picks(fc, Len(c), T, c)
  <2> HIDE DEF l, n, c
  <2>1. Len(c) \in Nat
    BY <1>2
  <2> QED BY <1>2, <2>1, PicksExists
<1> HIDE DEF fa, fb, fc
<1>4. (\A i \in 0 .. l : fa[i] \in Seq(Comment)) /\ \A i \in 0 .. n : fb[i] \in Seq(Comment)
  <2>1. l \in 0 .. Len(a) /\ n \in 0 .. Len(b)
    OBVIOUS
  <2> QED BY <1>3, <2>1, PicksTyped
<1> DEFINE Rest(g, d, i) == IF d[i].type = T THEN Append(g[i - 1], d[i]) ELSE g[i - 1]
<1>5. /\ fa[0] = <<>> /\ \A i \in 1 .. l : fa[i] = Rest(fa, a, i)
      /\ fb[0] = <<>> /\ \A i \in 1 .. n : fb[i] = Rest(fb, b, i)
      /\ fc[0] = <<>> /\ \A i \in 1 .. l + n : fc[i] = Rest(fc, c, i)
  <2> HIDE DEF l, n, c
  <2>1. (\A i \in 1 .. l : i \in 0 .. l /\ i # 0) /\ (\A i \in 1 .. n : i \in 0 .. n /\ i # 0)
        /\ \A i \in 1 .. l + n : i \in 0 .. l + n /\ i # 0
    BY <1>2
  <2>2. 0 \in 0 .. l /\ 0 \in 0 .. n /\ 0 \in 0 .. l + n
    BY <1>2
  <2>3. fa[0] = <<>> /\ \A i \in 1 .. l : fa[i] = Rest(fa, a, i)
    BY <1>3, <2>1, <2>2 DEF Picks
  <2>4. fb[0] = <<>> /\ \A i \in 1 .. n : fb[i] = Rest(fb, b, i)
    BY <1>3, <2>1, <2>2 DEF Picks
  <2>5. fc[0] = <<>> /\ \A i \in 1 .. l + n : fc[i] = Rest(fc, c, i)
    BY <1>2, <1>3, <2>1, <2>2 DEF Picks
  <2> QED BY <2>3, <2>4, <2>5
<1>6. \A i \in 1 .. n : b[i] \in Comment
  OBVIOUS
<1> HIDE DEF l, n, c
<1>7. ASSUME NEW i \in 0 .. l PROVE fc[i] = fa[i]
  <2> DEFINE W == {j \in 0 .. l : fc[j] # fa[j]}
  <2>1. SUFFICES ASSUME W # {} PROVE FALSE
    BY <2>1
  <2>2. PICK m \in W : \A y \in W : m <= y
    <3>1. W \subseteq Nat /\ W # {}
      BY <1>2, <2>1
    <3> HIDE DEF W
    <3> QED BY <3>1, LeastNat
  <2>3. m # 0
    BY <1>5, <2>2
  <2>4. m \in 1 .. l /\ m \in 1 .. l + n /\ m - 1 \in 0 .. l /\ ~(m <= m - 1)
    BY <1>2, <2>2, <2>3
  <2>5. fc[m - 1] = fa[m - 1] /\ c[m] = a[m]
    BY <1>2, <2>2, <2>4
  <2>6. fc[m] = Rest(fc, c, m) /\ fa[m] = Rest(fa, a, m)
    BY <1>5, <2>4
  <2> QED BY <2>2, <2>5, <2>6
<1> DEFINE s == fa[l]
<1>8. s \in Seq(Comment) /\ s = fc[l]
  <2>1. l \in 0 .. l
    BY <1>2
  <2> QED BY <1>4, <1>7, <2>1
<1> HIDE DEF s
<1>9. ASSUME NEW i \in 0 .. n PROVE fc[l + i] = s \o fb[i]
  <2> DEFINE W == {j \in 0 .. n : fc[l + j] # s \o fb[j]}
  <2>1. SUFFICES ASSUME W # {} PROVE FALSE
    BY <2>1
  <2>2. PICK m \in W : \A y \in W : m <= y
    <3>1. W \subseteq Nat
      BY <1>2
    <3> HIDE DEF W
    <3> QED BY <2>1, <3>1, LeastNat
  <2>3. m # 0
    <3>1. l + 0 = l /\ s \o <<>> = s
      BY <1>2, <1>8, ConcatEmptySeq
    <3> QED BY <1>5, <1>8, <2>2, <3>1
  <2>4. m \in 1 .. n /\ l + m \in 1 .. l + n /\ m - 1 \in 0 .. n /\ m \in 0 .. n /\ ~(m <= m - 1) /\ (l + m) - 1 = l + (m - 1)
    BY <1>2, <2>2, <2>3
  <2> DEFINE t == fb[m - 1]
  <2>5. fc[(l + m) - 1] = s \o t /\ c[l + m] = b[m]
    BY <1>2, <2>2, <2>4
  <2>6. fc[l + m] = Rest(fc, c, l + m) /\ fb[m] = Rest(fb, b, m)
    BY <1>5, <2>4
  <2>7. t \in Seq(Comment) /\ b[m] \in Comment
    BY <1>4, <1>6, <2>4
  <2>8. s \o Append(t, b[m]) = Append(s \o t, b[m])
    <3>1. AppendsAtEnd(Comment, s)
      BY <1>8, AppendJoined
    <3> QED BY <2>7, <3>1 DEF AppendsAtEnd
  <2>9. fc[l + m] = s \o fb[m]
    <3> HIDE DEF W
    <3> QED BY <2>5, <2>6, <2>8
  <2> QED BY <2>2, <2>9
<1>10. fc[l + n] = s \o fb[n]
  <2>1. n \in 0 .. n
    BY <1>2
  <2> QED BY <1>9, <2>1
<1> QED BY <1>1, <1>2, <1>8, <1>10 DEF s, c
-----------------------------------------------------------------------------
(* The registry.                                                           *)
AllFlat == \A k \in DOMAIN program : Flat(program[k])
AllTaken == [k \in DOMAIN program |-> Taken(k)]
\* The comments of the first n entries of a directory.
Read(p, n) == [i \in 1 .. n |-> p.entries[i].file.comments]
\* How many entries of a directory a load that is over has read.
ReadWhole(p) == {0} \union {m \in DOMAIN p.entries : \A i \in 1 .. m : loadable(p.entries[i].file)}

Reading ==
  Running("loadDir") => /\ at.entry <= Len(Op.entries) + 1
                        /\ \A i \in 1 .. at.entry - 1 : loadable(Op.entries[i].file)
RegInv ==
  AllFlat => dirName = <<>> /\ Reading /\ \A T \in Types : registry[T] = OfType(T, FlattenSeq(AllTaken))

LEMMA CallIs ==
  ASSUME TypeOK, NEW k \in DOMAIN program
  PROVE  /\ DOMAIN program = 1 .. Len(program) /\ Len(program) \in Nat /\ k \in Nat
         /\ at.call \in 1 .. Len(program) + 1 /\ at.entry \in Nat \ {0}
         /\ IsCall(program[k])
<1>1. program \in Programs /\ program \in Seq(ToSet(program)) /\ IsCall(program[k])
  BY ProgramsAssumption DEF TypeOK
<1>2. at.call \in 1 .. Len(program) + 1 /\ at.entry \in Nat \ {0}
  BY DEF TypeOK
<1>3. DOMAIN program = 1 .. Len(program) /\ Len(program) \in Nat
  BY <1>1
<1> QED BY <1>1, <1>2, <1>3

LEMMA FileComments == ASSUME NEW f \in File PROVE f.comments \in Seq(Comment)
  BY DEF File

LEMMA DirIs ==
  ASSUME NEW p, IsCall(p), p.op = "loadDir", Flat(p)
  PROVE  /\ Len(p.entries) \in Nat /\ DOMAIN p.entries = 1 .. Len(p.entries)
         /\ \A i \in 1 .. Len(p.entries) : ~p.entries[i].dir /\ p.entries[i].file \in File
         /\ \A n \in 0 .. Len(p.entries) : Read(p, n) \in Seq(Seq(Comment)) /\ Len(Read(p, n)) = n
<1> DEFINE es == p.entries
<1>1. es \in Seq(ToSet(es)) /\ \A e \in ToSet(es) : e.dir \/ e.file \in File
  BY DEF IsCall
<1>2. Len(es) \in Nat /\ DOMAIN es = 1 .. Len(es)
  BY <1>1
<1>3. \A i \in 1 .. Len(es) : ~es[i].dir /\ es[i] \in ToSet(es)
  BY <1>2 DEF Flat, ToSet
<1>4. \A i \in 1 .. Len(es) : ~es[i].dir /\ es[i].file \in File
  BY <1>1, <1>3
<1>5. ASSUME NEW n \in 0 .. Len(es) PROVE Read(p, n) \in Seq(Seq(Comment)) /\ Len(Read(p, n)) = n
  <2>1. \A i \in 1 .. n : es[i].file.comments \in Seq(Comment)
    <3>1. \A i \in 1 .. n : i \in 1 .. Len(es)
      BY <1>2
    <3> QED BY <1>4, <3>1, FileComments
  <2>2. n \in Nat
    BY <1>2
  <2> HIDE DEF es
  <2>3. Read(p, n) \in [1 .. n -> Seq(Comment)]
    BY <2>1 DEF Read, es
  <2> QED BY <2>2, <2>3
<1> QED BY <1>2, <1>4, <1>5

(* What a load that was refused, or is over, has read.                     *)
LEMMA ReadWholeIs ==
  ASSUME NEW p, Len(p.entries) \in Nat, DOMAIN p.entries = 1 .. Len(p.entries)
  PROVE  /\ Max(ReadWhole(p)) \in 0 .. Len(p.entries)
         /\ \A n \in 0 .. Len(p.entries) :
              (\A i \in 1 .. n : loadable(p.entries[i].file)) /\ (n < Len(p.entries) => ~loadable(p.entries[n + 1].file))
              => Max(ReadWhole(p)) = n
<1> DEFINE l == Len(p.entries)
           ok(i) == loadable(p.entries[i].file)
           R == ReadWhole(p)
<1>1. l \in Nat /\ R = {0} \union {m \in 1 .. l : \A i \in 1 .. m : ok(i)}
  BY DEF ReadWhole
<1> HIDE DEF R, l, ok
<1>2. R \subseteq Nat /\ R \subseteq 0 .. l /\ R # {} /\ 0 \in R /\ \A x \in R : x <= l
  BY <1>1
<1>3. PICK m \in R : \A x \in R : x <= m
  BY <1>1, <1>2, GreatestNat
<1>4. Max(R) = m /\ m \in 0 .. l
  <2>1. Max(R) = m
    BY <1>2, <1>3, MaxIs
  <2> QED BY <1>1, <1>2, <1>3, <2>1
<1>5. ASSUME NEW n \in 0 .. l, \A i \in 1 .. n : ok(i), n < l => ~ok(n + 1) PROVE Max(R) = n
  <2>1. n \in R
    <3>1. n = 0 \/ n \in 1 .. l
      BY <1>1
    <3> QED BY <1>1, <1>5, <3>1
  <2>2. ASSUME NEW x \in R PROVE x <= n
    <3> SUFFICES ASSUME x > n PROVE FALSE
      BY <1>1, <1>2
    <3>1. x \in 1 .. l /\ n + 1 \in 1 .. x /\ n < l
      BY <1>1, <1>2
    <3>2. ok(n + 1)
      BY <1>1, <3>1
    <3> QED BY <1>5, <3>1, <3>2
  <2> QED BY <1>2, <2>1, <2>2, MaxIs
<1> QED BY <1>4, <1>5 DEF R, l, ok

LEMMA TakenIs ==
  ASSUME NEW k, NEW p, p = program[k], IsCall(p)
  PROVE  /\ k > at.call => Taken(k) = <<>>
         /\ p.op = "init" => Taken(k) = <<>>
         /\ ~(k > at.call) /\ p.op = "loadBytes" =>
              Taken(k) = IF k < at.call /\ loadable(p.file) THEN p.file.comments ELSE <<>>
         /\ ~(k > at.call) /\ p.op = "loadDir" =>
              Taken(k) = FlattenSeq(Read(p, IF k = at.call THEN at.entry - 1 ELSE Max(ReadWhole(p))))
  BY Zenon DEF Taken, Read, ReadWhole

LEMMA TakenTyped ==
  ASSUME TypeOK, AllFlat, Reading, NEW k \in DOMAIN program
  PROVE  Taken(k) \in Seq(Comment)
<1> DEFINE p == program[k]
<1>1. IsCall(p) /\ Flat(p) /\ k \in Nat /\ at.call \in Nat /\ at.entry \in Nat \ {0}
  BY CallIs DEF AllFlat
<1>2. <<>> \in Seq(Comment)
  OBVIOUS
<1>3. p.op \in {"init", "loadBytes", "loadDir"}
  BY <1>1 DEF IsCall
<1>4. CASE k > at.call \/ p.op = "init"
  BY <1>1, <1>2, <1>4, TakenIs
<1>5. CASE ~(k > at.call) /\ p.op = "loadBytes"
  <2>1. p.file \in File
    BY <1>1, <1>5 DEF IsCall
  <2>2. p.file.comments \in Seq(Comment)
    BY <2>1, FileComments
  <2> QED BY <1>1, <1>2, <1>5, <2>2, TakenIs
<1>6. CASE ~(k > at.call) /\ p.op = "loadDir"
  <2> DEFINE n == IF k = at.call THEN at.entry - 1 ELSE Max(ReadWhole(p))
  <2>1. n \in 0 .. Len(p.entries)
    <3>1. CASE k = at.call
      <4>1. Running("loadDir") /\ Op = p
        BY <1>6, <3>1, CallIs DEF Running, Op
      <4>2. at.entry <= Len(p.entries) + 1 /\ Len(p.entries) \in Nat
        BY <1>1, <1>6, <4>1, DirIs DEF Reading
      <4> QED BY <1>1, <3>1, <4>2
    <3>2. CASE k # at.call
      BY <1>1, <1>6, <3>2, DirIs, ReadWholeIs
    <3> QED BY <3>1, <3>2
  <2> HIDE DEF n
  <2>2. Read(p, n) \in Seq(Seq(Comment))
    BY <1>1, <1>6, <2>1, DirIs
  <2>3. FlattenSeq(Read(p, n)) \in Seq(Comment)
    BY <2>2, FlattenTyped
  <2>4. Taken(k) = FlattenSeq(Read(p, n))
    BY <1>1, <1>6, TakenIs DEF n
  <2> QED BY <2>3, <2>4
<1> QED BY <1>3, <1>4, <1>5, <1>6

(* What the other calls took does not change.                              *)
LEMMA TakenSame ==
  ASSUME TypeOK, program' = program, at'.call = at.call, at' = at \/ Running("init"), NEW k \in DOMAIN program
  PROVE  Taken(k)' = Taken(k)
<1> DEFINE p == program[k]
<1>1. IsCall(p) /\ k \in Nat /\ at.call \in Nat /\ p' = p /\ at'.call = at.call
  BY CallIs
<1>2. CASE at' = at
  BY <1>2 DEF Taken
<1>3. CASE Running("init") /\ k = at.call
  <2>1. p.op = "init"
    BY <1>3 DEF Running, Op
  <2> QED BY <2>1 DEF Taken
<1>4. CASE k # at.call
  BY <1>1, <1>4 DEF Taken
<1> QED BY <1>2, <1>3, <1>4

LEMMA TakenReturned ==
  ASSUME TypeOK, program' = program, at'.call = at.call + 1, at'.entry = 1,
         NEW k \in DOMAIN program, k # at.call
  PROVE  Taken(k)' = Taken(k)
<1> DEFINE p == program[k]
<1>1. IsCall(p) /\ k \in Nat /\ at.call \in Nat /\ p' = p
  BY CallIs
<1>2. CASE k < at.call
  <2>1. ~(k > at.call) /\ ~(k > at'.call) /\ k < at'.call /\ k # at'.call
    BY <1>1, <1>2
  <2> QED BY <1>2, <2>1 DEF Taken
<1>3. CASE k > at.call + 1
  <2>1. k > at.call /\ k > at'.call
    BY <1>1, <1>3
  <2> QED BY <2>1 DEF Taken
<1>4. CASE k = at.call + 1
  <2>1. k > at.call /\ ~(k < at'.call) /\ ~(k > at'.call) /\ k = at'.call /\ at'.entry - 1 = 0
    BY <1>1, <1>4
  <2>2. Taken(k) = <<>>
    BY <2>1 DEF Taken
  <2>3. FlattenSeq([i \in 1 .. 0 |-> p.entries[i].file.comments]) = <<>>
    <3>1. [i \in 1 .. 0 |-> p.entries[i].file.comments] = <<>>
      OBVIOUS
    <3>2. FlattenSeq(<<>>) = <<>>
      <4>1. Len(<<>>) = 0
        OBVIOUS
      <4> QED BY <4>1 DEF FlattenSeq
    <3> QED BY <3>1, <3>2
  <2>4. Taken(k)' = <<>>
    BY <2>1, <2>3 DEF Taken
  <2> QED BY <2>2, <2>4
<1>5. k < at.call \/ k > at.call + 1 \/ k = at.call + 1
  BY <1>1
<1> QED BY <1>2, <1>3, <1>4, <1>5

LEMMA RegistrySame ==
  ASSUME TypeOK, program' = program, registry' = registry, \A k \in DOMAIN program : Taken(k)' = Taken(k),
         \A T \in Types : registry[T] = OfType(T, FlattenSeq(AllTaken))
  PROVE  (\A T \in Types : registry[T] = OfType(T, FlattenSeq(AllTaken)))'
<1>1. AllTaken' = AllTaken
  BY DEF AllTaken
<1> QED BY <1>1

(* The call under way takes y more.                                        *)
LEMMA RegistryGrows ==
  ASSUME TypeOK, AllFlat, Reading, program' = program, NEW op, Running(op), NEW y \in Seq(Comment),
         \A k \in DOMAIN program : Taken(k)' = IF k = at.call THEN Taken(k) \o y ELSE Taken(k),
         \A T \in Types : registry[T] = OfType(T, FlattenSeq(AllTaken)),
         \A T \in Types : registry'[T] = registry[T] \o OfType(T, y)
  PROVE  (\A T \in Types : registry[T] = OfType(T, FlattenSeq(AllTaken)))'
<1> DEFINE n == Len(program)
           c == at.call
           ss == AllTaken
           tt == AllTaken'
<1>1. DOMAIN program = 1 .. n /\ n \in Nat /\ c \in 1 .. n
  <2>1. c \in 1 .. n
    BY OpIs
  <2>2. program \in Seq(ToSet(program))
    BY ProgramsAssumption DEF TypeOK
  <2> QED BY <2>1, <2>2
<1>2. \A k \in 1 .. n : Taken(k) \in Seq(Comment)
  BY <1>1, TakenTyped
<1>3. ASSUME NEW k \in 1 .. n PROVE Taken(k)' \in Seq(Comment)
  <2> DEFINE x == Taken(k)
  <2>1. x \in Seq(Comment) /\ Taken(k)' = IF k = c THEN x \o y ELSE x
    BY <1>1, <1>2
  <2> HIDE DEF x
  <2>2. x \o y \in Seq(Comment)
    BY <2>1, ConcatProperties
  <2> QED BY <2>1, <2>2
<1>4. ss = [k \in 1 .. n |-> Taken(k)] /\ tt = [k \in 1 .. n |-> Taken(k)']
  BY <1>1 DEF AllTaken
<1>5. ss \in Seq(Seq(Comment)) /\ tt \in Seq(Seq(Comment)) /\ Len(ss) = n /\ Len(tt) = n
  <2>1. ss \in [1 .. n -> Seq(Comment)] /\ tt \in [1 .. n -> Seq(Comment)]
    BY <1>2, <1>3, <1>4
  <2> HIDE DEF n, ss, tt
  <2> QED BY <1>1, <2>1
<1>6. ASSUME NEW k \in 1 .. n PROVE (k # c => tt[k] = ss[k]) /\ (k > c => ss[k] = <<>>)
  <2>1. ss[k] = Taken(k) /\ tt[k] = Taken(k)'
    BY <1>4
  <2>2. k > c => Taken(k) = <<>>
    BY DEF Taken
  <2>3. k # c => Taken(k)' = Taken(k)
    BY <1>1
  <2> QED BY <2>1, <2>2, <2>3
<1>7. tt[c] = ss[c] \o y
  <2> SUFFICES ASSUME NEW k \in 1 .. n, k = c PROVE tt[k] = ss[k] \o y
    BY <1>1
  <2>1. Taken(k)' = Taken(k) \o y /\ ss[k] = Taken(k) /\ tt[k] = Taken(k)'
    BY <1>1, <1>4
  <2> QED BY <2>1
<1>8. Grown(ss, tt, c, y)
  <2> HIDE DEF ss, tt, n, c
  <2> QED BY <1>5, <1>6, <1>7 DEF Grown
<1>9. FlattenSeq(tt) = FlattenSeq(ss) \o y
  <2> HIDE DEF ss, tt, n, c
  <2> QED BY <1>1, <1>5, <1>8, FlattenGrows
<1>10. FlattenSeq(ss) \in Seq(Comment)
  <2> HIDE DEF ss
  <2> QED BY <1>5, FlattenTyped
<1>11. ASSUME NEW T \in Types PROVE registry'[T] = OfType(T, FlattenSeq(tt))
  <2> DEFINE x == FlattenSeq(ss)
  <2>1. x \in Seq(Comment) /\ registry'[T] = OfType(T, x) \o OfType(T, y) /\ FlattenSeq(tt) = x \o y
    BY <1>9, <1>10
  <2> HIDE DEF x, tt
  <2>2. OfType(T, x \o y) = OfType(T, x) \o OfType(T, y)
    BY <2>1, OfTypeJoined
  <2> QED BY <2>1, <2>2
<1> QED BY <1>11

LEMMA RegInit == Init => RegInv
<1> SUFFICES ASSUME Init, AllFlat
             PROVE  dirName = <<>> /\ Reading /\ \A T \in Types : registry[T] = OfType(T, FlattenSeq(AllTaken))
  BY DEF RegInv
<1>1. TypeOK
  BY InitInv DEF Inv
<1>2. at.call = 1 /\ at.entry = 1 /\ dirName = <<>> /\ registry = [T \in Types |-> <<>>]
  BY DEF Init
<1>3. Reading
  <2> SUFFICES ASSUME Running("loadDir") PROVE 1 <= Len(Op.entries) + 1
    BY <1>2 DEF Reading
  <2>1. Len(Op.entries) \in Nat
    <3>1. IsCall(Op) /\ Op.op = "loadDir" /\ Flat(Op)
      <4>1. at.call \in DOMAIN program
        BY <1>1, OpIs, CallIs, ProgramsAssumption DEF TypeOK
      <4> QED BY <1>1, <4>1, OpIs DEF AllFlat, Op
    <3> QED BY <3>1, DirIs
  <2> QED BY <2>1
<1> DEFINE none(n) == [k \in 1 .. n |-> <<>>]
           n == Len(program)
<1>4. DOMAIN program = 1 .. n /\ n \in Nat
  BY <1>1, ProgramsAssumption DEF TypeOK
<1>5. ASSUME NEW k \in 1 .. n PROVE Taken(k) = <<>>
  <2> DEFINE p == program[k]
  <2>1. IsCall(p) /\ Flat(p) /\ k \in Nat
    BY <1>1, <1>4, CallIs DEF AllFlat
  <2>2. CASE k > 1
    BY <1>2, <2>2 DEF Taken
  <2>3. CASE k = 1 /\ p.op = "loadDir"
    <3>1. Read(p, 0) = <<>> /\ FlattenSeq(<<>>) = <<>>
      <4>1. Len(<<>>) = 0
        OBVIOUS
      <4>2. Read(p, 0) = <<>>
        BY DEF Read
      <4> QED BY <4>1, <4>2 DEF FlattenSeq
    <3>2. Taken(k) = FlattenSeq(Read(p, at.entry - 1))
      BY <1>2, <2>1, <2>3, TakenIs
    <3>3. at.entry - 1 = 0
      BY <1>2
    <3> QED BY <3>1, <3>2, <3>3
  <2>4. CASE k = 1 /\ p.op # "loadDir"
    BY <1>2, <2>1, <2>4, TakenIs DEF IsCall
  <2>5. k > 1 \/ k = 1
    BY <1>4
  <2> QED BY <2>2, <2>3, <2>4, <2>5
<1>6. FlattenSeq(AllTaken) = <<>>
  <2>1. AllTaken = [k \in 1 .. n |-> <<>>]
    BY <1>4, <1>5 DEF AllTaken
  <2> DEFINE h == [k \in 0 .. n |-> <<>>]
             ss == AllTaken
  <2>2. ss \in Seq(Seq({})) /\ Len(ss) = n
    <3>1. <<>> \in Seq({})
      OBVIOUS
    <3>2. ss \in [1 .. n -> Seq({})]
      BY <2>1, <3>1
    <3> HIDE DEF ss, n
    <3> QED BY <1>4, <3>2
  <2>3. Gathers(h, ss, {})
    <3>1. \A k \in 1 .. n : ss[k] = <<>> /\ k \in 0 .. n /\ k - 1 \in 0 .. n
      BY <1>4, <2>1
    <3>2. <<>> \o <<>> = <<>> /\ <<>> \in Seq({}) /\ 0 \in 0 .. n
      BY <1>4
    <3> HIDE DEF ss, n
    <3>3. \A k \in 1 .. n : h[k] = h[k - 1] \o ss[k]
      BY <3>1, <3>2
    <3>4. h \in [0 .. n -> Seq({})] /\ h[0] = <<>>
      BY <3>2
    <3> HIDE DEF h
    <3> QED BY <2>2, <3>3, <3>4 DEF Gathers
  <2>4. FlattenSeq(ss) = h[n]
    <3> HIDE DEF h, ss, n
    <3> QED BY <2>2, <2>3, FlattenIs
  <2>5. n \in 0 .. n
    BY <1>4
  <2> QED BY <2>4, <2>5
<1> QED BY <1>2, <1>3, <1>6, OfTypeNone

LEMMA RegNext == Inv /\ RegInv /\ [Next]_vars => RegInv'
<1> SUFFICES ASSUME Inv, RegInv, [Next]_vars, AllFlat'
             PROVE  (dirName = <<>> /\ Reading /\ \A T \in Types : registry[T] = OfType(T, FlattenSeq(AllTaken)))'
  BY DEF RegInv
<1> DEFINE RegOK == \A T \in Types : registry[T] = OfType(T, FlattenSeq(AllTaken))
<1>0. TypeOK /\ TypeOK'
  <2>1. Inv'
    BY NextInv
  <2> QED BY <2>1 DEF Inv
<1>1. program' = program /\ AllFlat
  <2>1. program' = program
    BY DEF Next, Load, InitDBFunc, vars, LoadFuncDataInfoBytes, LoadDir, LoadDirEnd, Begin, AddParse, AddTree, Bind,
           checkAllDBFuncSet, Call
  <2> QED BY <2>1 DEF AllFlat
<1>2. dirName = <<>> /\ Reading /\ RegOK
  BY <1>1 DEF RegInv
\* Whatever call runs next, it has not read an entry.
<1>3. ASSUME at'.call = at.call + 1, at'.entry = 1 PROVE Reading'
  <2> SUFFICES ASSUME Running("loadDir")' PROVE 1 <= Len(Op'.entries) + 1
    BY <1>3 DEF Reading
  <2>1. at'.call \in DOMAIN program' /\ IsCall(Op') /\ Op'.op = "loadDir"
    <3>1. program' \in Seq(ToSet(program'))
      BY <1>0, ProgramsAssumption DEF TypeOK
    <3>2. at'.call \in DOMAIN program'
      BY <1>0, <3>1 DEF TypeOK, Running
    <3> QED BY <1>0, <3>2, ProgramsAssumption DEF TypeOK, Running, Op
  <2>2. Flat(Op')
    BY <1>1, <2>1 DEF AllFlat, Op
  <2>3. Len(Op'.entries) \in Nat
    BY <2>1, <2>2, DirIs
  <2> QED BY <2>3
<1>4. ASSUME Running("loadDir")
      PROVE  /\ IsCall(Op) /\ Flat(Op) /\ Op.op = "loadDir" /\ at.call \in DOMAIN program
             /\ Len(Op.entries) \in Nat /\ DOMAIN Op.entries = 1 .. Len(Op.entries)
             /\ at.entry \in 1 .. Len(Op.entries) + 1 /\ \A i \in 1 .. at.entry - 1 : loadable(Op.entries[i].file)
  <2>1. at.call \in DOMAIN program
    <3>1. program \in Seq(ToSet(program))
      BY <1>0, ProgramsAssumption DEF TypeOK
    <3> QED BY <1>0, <1>4, <3>1, OpIs
  <2>2. IsCall(Op) /\ Op.op = "loadDir" /\ Flat(Op)
    BY <1>0, <1>1, <1>4, <2>1, OpIs DEF AllFlat, Op
  <2>3. Len(Op.entries) \in Nat /\ DOMAIN Op.entries = 1 .. Len(Op.entries)
    BY <2>2, DirIs
  <2>4. at.entry <= Len(Op.entries) + 1 /\ \A i \in 1 .. at.entry - 1 : loadable(Op.entries[i].file)
    BY <1>2, <1>4 DEF Reading
  <2>5. at.entry \in Nat \ {0}
    BY <1>0 DEF TypeOK
  <2> QED BY <2>1, <2>2, <2>3, <2>4, <2>5
<1>5. CASE LoadFuncDataInfoBytes
  <2> DEFINE f == Op.file
             y == IF loadable(f) THEN f.comments ELSE <<>>
  <2>1. Running("loadBytes") /\ IsCall(Op) /\ Op.op = "loadBytes" /\ f \in File
    BY <1>0, <1>5, OpIs DEF LoadFuncDataInfoBytes, IsCall
  <2>2. at'.call = at.call + 1 /\ at'.entry = 1 /\ dirName' = dirName
    BY <1>5 DEF LoadFuncDataInfoBytes, Return
  <2>3. y \in Seq(Comment)
    BY <2>1, FileComments
  <2>4. \A T \in Types : registry'[T] = registry[T] \o OfType(T, y)
    <3> SUFFICES ASSUME NEW T \in Types PROVE registry'[T] = registry[T] \o OfType(T, y)
      OBVIOUS
    <3>1. CASE loadable(f)
      BY <1>5, <3>1 DEF LoadFuncDataInfoBytes, Appended
    <3>2. CASE ~loadable(f)
      <4>1. registry' = registry /\ y = <<>>
        BY <1>5, <3>2 DEF LoadFuncDataInfoBytes
      <4>2. registry[T] \in Seq(Comment)
        BY <1>0 DEF TypeOK
      <4>3. registry[T] \o <<>> = registry[T]
        BY <4>2, ConcatEmptySeq
      <4>4. OfType(T, y) = <<>>
        BY <4>1, OfTypeNone
      <4> HIDE DEF y
      <4> QED BY <4>1, <4>3, <4>4
    <3> QED BY <3>1, <3>2
  <2>5. ASSUME NEW k \in DOMAIN program PROVE Taken(k)' = IF k = at.call THEN Taken(k) \o y ELSE Taken(k)
    <3>1. CASE k # at.call
      BY <1>0, <1>1, <2>2, <3>1, TakenReturned
    <3>2. CASE k = at.call
      <4>1. program[k] = Op /\ k \in Nat /\ k < at'.call /\ ~(k > at.call) /\ ~(k > at'.call) /\ ~(k < at.call)
        BY <1>0, <2>2, <3>2, CallIs DEF Op
      <4>2. Taken(k) = <<>> /\ Taken(k)' = y
        BY <1>1, <2>1, <4>1 DEF Taken
      <4>3. <<>> \o y = y
        <5> HIDE DEF y
        <5> QED BY <2>3, ConcatEmptySeq
      <4> QED BY <3>2, <4>2, <4>3
    <3> QED BY <3>1, <3>2
  <2>6. RegOK'
    <3> HIDE DEF y
    <3> QED BY <1>0, <1>1, <1>2, <2>1, <2>3, <2>4, <2>5, RegistryGrows
  <2> QED BY <1>2, <1>3, <2>2, <2>6
<1>6. CASE LoadDir
  <2> DEFINE n == at.entry
             e == Op.entries[n]
             y == e.file.comments
  <2>1. Running("loadDir") /\ n <= Len(Op.entries)
    BY <1>6 DEF LoadDir
  <2>2. n \in 1 .. Len(Op.entries) /\ ~e.dir /\ e.file \in File /\ n \in Nat
    <3>1. n \in 1 .. Len(Op.entries)
      BY <1>4, <2>1
    <3> QED BY <1>4, <2>1, <3>1, DirIs
  <2>3. ReadFile(Op.entries, e) = e.file
    BY <1>2 DEF ReadFile
  <2>4. CASE loadable(e.file)
    <3>1. registry' = Appended(e.file) /\ dirName' = dirName /\ at' = [at EXCEPT !.entry = @ + 1]
      BY <1>6, <2>2, <2>3, <2>4 DEF LoadDir
    <3>2. at'.call = at.call /\ at'.entry = n + 1
      BY <1>0, <3>1 DEF TypeOK
    <3>3. Reading'
      <4> SUFFICES ASSUME NEW i \in 1 .. n PROVE loadable(Op.entries[i].file) /\ n + 1 <= Len(Op.entries) + 1
        <5>1. Op' = Op /\ (n + 1) - 1 = n
          BY <1>1, <2>2, <3>2 DEF Op
        <5>2. n \in 1 .. n
          BY <2>2
        <5> QED BY <3>2, <5>1, <5>2 DEF Reading
      <4>1. i \in 1 .. n - 1 \/ i = n
        BY <2>2
      <4>2. n + 1 <= Len(Op.entries) + 1
        BY <1>4, <2>1, <2>2
      <4> QED BY <1>4, <2>1, <2>4, <4>1, <4>2
    <3>4. y \in Seq(Comment)
      BY <2>2, FileComments
    <3>5. \A T \in Types : registry'[T] = registry[T] \o OfType(T, y)
      BY <3>1 DEF Appended
    <3>6. ASSUME NEW k \in DOMAIN program PROVE Taken(k)' = IF k = at.call THEN Taken(k) \o y ELSE Taken(k)
      <4>1. CASE k # at.call
        <5>1. Taken(k)' = Taken(k)
          BY <1>1, <3>2, <4>1 DEF Taken
        <5> QED BY <4>1, <5>1
      <4>2. CASE k = at.call
        <5> DEFINE ss == Read(Op, n - 1)
                   tt == Read(Op, n)
        <5>1. Op = program[k] /\ ~(k > at.call) /\ ~(k > at'.call) /\ k = at'.call /\ (n + 1) - 1 = n
          BY <1>0, <2>2, <3>2, <4>2, CallIs DEF Op
        <5>2. Taken(k) = FlattenSeq(ss) /\ Taken(k)' = FlattenSeq(tt)
          BY <1>1, <1>4, <2>1, <3>2, <4>2, <5>1 DEF Taken, Read
        <5>3. /\ ss \in Seq(Seq(Comment)) /\ tt \in Seq(Seq(Comment)) /\ Len(tt) = n /\ Len(ss) = n - 1
          <6>1. n - 1 \in 0 .. Len(Op.entries) /\ n \in 0 .. Len(Op.entries)
            BY <2>2
          <6> QED BY <1>4, <2>1, <6>1, DirIs
        <5>4. (\A i \in 1 .. n - 1 : tt[i] = ss[i]) /\ tt[n] = y
          BY <2>2 DEF Read
        <5>5. FlattenSeq(tt) = FlattenSeq(ss) \o y
          <6>1. Len(tt) = Len(ss) + 1 /\ \A i \in 1 .. Len(ss) : tt[i] = ss[i]
            BY <2>2, <5>3, <5>4
          <6> HIDE DEF ss, tt, y
          <6>2. Longer(ss, tt)
            BY <6>1 DEF Longer
          <6>3. FlattenSeq(tt) = FlattenSeq(ss) \o tt[Len(tt)]
            BY <5>3, <6>2, FlattenNext
          <6> QED BY <5>3, <5>4, <6>3
        <5> QED BY <4>2, <5>2, <5>5
      <4> QED BY <4>1, <4>2
    <3>7. RegOK'
      <4> HIDE DEF y
      <4> QED BY <1>0, <1>1, <1>2, <2>1, <3>4, <3>5, <3>6, RegistryGrows
    <3> QED BY <1>2, <3>1, <3>3, <3>7
  <2>5. CASE ~loadable(e.file)
    <3>1. registry' = registry /\ dirName' = <<>> /\ at'.call = at.call + 1 /\ at'.entry = 1
      BY <1>6, <2>2, <2>3, <2>5 DEF LoadDir, Return
    <3>2. Max(ReadWhole(Op)) = n - 1
      <4>1. n - 1 \in 0 .. Len(Op.entries) /\ (n - 1) + 1 = n
        BY <2>2
      <4> QED BY <1>4, <2>1, <2>5, <4>1, ReadWholeIs
    <3>3. ASSUME NEW k \in DOMAIN program PROVE Taken(k)' = Taken(k)
      <4>1. CASE k # at.call
        BY <1>0, <1>1, <3>1, <4>1, TakenReturned
      <4>2. CASE k = at.call
        <5>1. Op = program[k] /\ ~(k > at.call) /\ ~(k > at'.call) /\ k # at'.call
          BY <1>0, <3>1, <4>2, CallIs DEF Op
        <5>2. Taken(k) = FlattenSeq(Read(Op, n - 1))
          BY <1>4, <2>1, <4>2, <5>1, TakenIs
        <5>3. Taken(k)' = FlattenSeq(Read(Op, Max(ReadWhole(Op))))
          BY <1>1, <1>4, <2>1, <4>2, <5>1 DEF Taken, Read, ReadWhole
        <5> QED BY <3>2, <5>2, <5>3
      <4> QED BY <4>1, <4>2
    <3>4. RegOK'
      BY <1>0, <1>1, <1>2, <3>1, <3>3, RegistrySame
    <3> QED BY <1>3, <3>1, <3>4
  <2> QED BY <2>4, <2>5
<1>7. CASE LoadDirEnd
  <2> DEFINE n == at.entry
  <2>1. Running("loadDir") /\ n > Len(Op.entries)
    BY <1>7 DEF LoadDirEnd
  <2>2. n - 1 = Len(Op.entries) /\ n \in Nat
    BY <1>4, <2>1
  <2>3. registry' = registry /\ dirName' = <<>> /\ at'.call = at.call + 1 /\ at'.entry = 1
    BY <1>7 DEF LoadDirEnd, Return
  <2>4. Max(ReadWhole(Op)) = n - 1
    <3>1. n - 1 \in 0 .. Len(Op.entries) /\ ~(n - 1 < Len(Op.entries))
      BY <1>4, <2>1, <2>2
    <3> QED BY <1>4, <2>1, <3>1, ReadWholeIs
  <2>5. ASSUME NEW k \in DOMAIN program PROVE Taken(k)' = Taken(k)
    <3>1. CASE k # at.call
      BY <1>0, <1>1, <2>3, <3>1, TakenReturned
    <3>2. CASE k = at.call
      <4>1. Op = program[k] /\ ~(k > at.call) /\ ~(k > at'.call) /\ k # at'.call
        BY <1>0, <2>3, <3>2, CallIs DEF Op
      <4>2. Taken(k) = FlattenSeq(Read(Op, n - 1))
        BY <1>4, <2>1, <3>2, <4>1, TakenIs
      <4>3. Taken(k)' = FlattenSeq(Read(Op, Max(ReadWhole(Op))))
        BY <1>1, <1>4, <2>1, <3>2, <4>1 DEF Taken, Read, ReadWhole
      <4> QED BY <2>4, <4>2, <4>3
    <3> QED BY <3>1, <3>2
  <2>6. RegOK'
    BY <1>0, <1>1, <1>2, <2>3, <2>5, RegistrySame
  <2> QED BY <1>3, <2>3, <2>6
\* An initialisation reads the registry only.
<1>8. CASE InitDBFunc
  <2>1. Running("init") /\ registry' = registry /\ dirName' = dirName
    BY <1>8 DEF InitDBFunc, Begin, AddParse, AddTree, Bind, checkAllDBFuncSet
  <2>2. (at'.call = at.call + 1 /\ at'.entry = 1) \/ at'.call = at.call
    <3>1. at \in [call : 1 .. Len(program) + 1, step : {"start", "parse", "add", "bind"}, entry : Nat \ {0}]
      BY <1>0 DEF TypeOK
    <3>2. CASE \E o \in {"ok", "error"} : Return(o)
      BY <3>2 DEF Return
    <3>3. CASE ~ \E o \in {"ok", "error"} : Return(o)
      BY <1>8, <3>1, <3>3 DEF InitDBFunc, Begin, AddParse, AddTree, Bind, checkAllDBFuncSet, Fail, To
    <3> QED BY <3>2, <3>3
  <2>3. CASE at'.call = at.call
    <3>1. Reading'
      BY <1>1, <2>1, <2>3 DEF Reading, Running, Op
    <3>2. \A k \in DOMAIN program : Taken(k)' = Taken(k)
      BY <1>0, <1>1, <2>1, <2>3, TakenSame
    <3>3. RegOK'
      BY <1>0, <1>1, <1>2, <2>1, <3>2, RegistrySame
    <3> QED BY <1>2, <2>1, <3>1, <3>3
  <2>4. CASE at'.call = at.call + 1 /\ at'.entry = 1
    <3>1. ASSUME NEW k \in DOMAIN program PROVE Taken(k)' = Taken(k)
      <4>1. CASE k # at.call
        BY <1>0, <1>1, <2>4, <4>1, TakenReturned
      <4>2. CASE k = at.call
        <5>1. program[k].op = "init"
          BY <2>1, <4>2 DEF Running, Op
        <5> QED BY <1>1, <5>1 DEF Taken
      <4> QED BY <4>1, <4>2
    <3>2. RegOK'
      BY <1>0, <1>1, <1>2, <2>1, <3>1, RegistrySame
    <3> QED BY <1>2, <1>3, <2>1, <2>4, <3>2
  <2> QED BY <2>2, <2>3, <2>4
<1>9. CASE UNCHANGED vars \/ \E T \in Types : \E f \in Functions(T) : Call(T, f)
  <2>1. at' = at /\ registry' = registry /\ dirName' = dirName
    BY <1>9 DEF vars, Call
  <2>2. Reading'
    BY <1>1, <1>2, <2>1 DEF Reading, Running, Op
  <2>3. \A k \in DOMAIN program : Taken(k)' = Taken(k)
    BY <1>0, <1>1, <2>1, TakenSame
  <2>4. RegOK'
    BY <1>0, <1>1, <1>2, <2>1, <2>3, RegistrySame
  <2> QED BY <1>2, <2>1, <2>2, <2>4
<1> QED BY <1>5, <1>6, <1>7, <1>8, <1>9 DEF Next, Load
-----------------------------------------------------------------------------
(* Every variable has its type.                                            *)
THEOREM TypeCorrect == Spec => []TypeOK
<1>1. Inv => TypeOK
  BY DEF Inv
<1> QED
  BY <1>1, Invariance, PTL

(* At every moment of an initialisation a field has the function of the    *)
(* last of its statements dealt with, or, when it is named like the struct *)
(* type, the tree its name has then (InitDBFunc, AddParseTree).            *)
THEOREM FieldsBound == Spec => []BoundTrue
<1>1. Inv => BoundTrue
  BY DEF Inv
<1> QED
  BY <1>1, Invariance, PTL

(* A function called after a whole initialisation of its struct is there,  *)
(* with every template the statements of that initialisation brought       *)
(* (InitDBFunc, checkAllDBFuncSet).                                        *)
THEOREM InitialisedRuns == Spec => []SettledRuns
<1>1. Inv => SettledRuns
  BY DEF Inv
<1> QED
  BY <1>1, Invariance, PTL

(* No initialisation changes the templates of one that is over             *)
(* (InitDBFunc makes a set of its own for each).                           *)
THEOREM OldSetsKept == Spec => SetsApart
<1> DEFINE Kept == \A T \in Types : \A f \in Functions(T) :
             LET b == bound[T][f] IN
             b # Nil /\ (Initialised(T) \/ b.set < Len(sets)) /\ bound'[T][f] = b => sets'[b.set] = sets[b.set]
<1>1. Inv /\ [Next]_vars => Kept
  <2> SUFFICES ASSUME Inv, [Next]_vars, NEW T \in Types, NEW f \in Functions(T), bound[T][f] # Nil,
                      Initialised(T) \/ bound[T][f].set < Len(sets)
               PROVE  sets'[bound[T][f].set] = sets[bound[T][f].set]
    OBVIOUS
  <2> DEFINE s == bound[T][f].set
  <2>1. s \in DOMAIN sets
    BY DEF Inv, TypeOK
  <2>2. CASE sets' = sets
    BY <2>2
  <2>3. CASE Begin
    <3>1. Running("init")
      BY <2>3 DEF Begin
    <3>2. sets \in Seq({sets[r] : r \in DOMAIN sets}) /\ DOMAIN sets = 1 .. Len(sets) /\ Len(sets) \in Nat
      BY DEF Inv, TypeOK
    <3>3. sets \in Seq({sets[r] : r \in DOMAIN sets} \union {<<>>})
      BY <3>2, SeqMonotonic
    <3>4. Append(sets, <<>>)[s] = sets[s]
      BY <2>1, <3>2, <3>3
    <3> QED BY <2>3, <3>4 DEF Begin
  <2>4. CASE AddTree
    <3>1. Running("init") /\ at.step = "add"
      BY <2>4 DEF AddTree
    <3>2. PICK tree : sets' = [sets EXCEPT ![Len(sets)] = AddParseTree(@, tree)]
      BY <2>4 DEF AddTree, Current
    <3>3. s # Len(sets)
      <4>1. CASE Initialised(T)
        <5>1. T # Op.type
          BY <3>1, <4>1, Underway DEF Inv
        <5>2. s < Len(sets)
          BY <3>1, <5>1 DEF Inv, BoundInv
        <5>3. Len(sets) \in Nat /\ s \in Nat
          BY <2>1 DEF Inv, TypeOK
        <5> QED BY <5>2, <5>3
      <4>2. CASE s < Len(sets)
        <5>1. Len(sets) \in Nat /\ s \in Nat
          BY <2>1 DEF Inv, TypeOK
        <5> QED BY <4>2, <5>1
      <4> QED BY <4>1, <4>2
    <3> QED BY <2>1, <3>2, <3>3
  <2>5. CASE Load \/ AddParse \/ Bind \/ checkAllDBFuncSet \/ (\E S \in Types : \E g \in Functions(S) : Call(S, g))
    BY <2>2, <2>5 DEF Load, LoadFuncDataInfoBytes, LoadDir, LoadDirEnd, AddParse, Bind, checkAllDBFuncSet, Call
  <2> QED BY <2>2, <2>3, <2>4, <2>5 DEF Next, InitDBFunc, vars
<1>2. Spec => [][Kept]_vars
  BY <1>1, Invariance, PTL DEF Spec
<1> QED
  BY <1>2 DEF SetsApart

(* What the registry has for a type is what the loads found for it, in     *)
(* order, nothing of a file that was refused (LoadFuncDataInfo,            *)
(* LoadFuncDataInfoBytes), whatever is initialised or called meanwhile.    *)
THEOREM RegistryKept == Spec => []RegistryTrue
<1>1. RegInv => RegistryTrue
  BY DEF RegInv, RegistryTrue, AllFlat, AllTaken
<1> QED
  BY <1>1, RegInit, RegNext, Invariance, PTL DEF Spec

=============================================================================
