------------------------------ MODULE MCParser -----------------------------
(* Parser on texts of a few actions, and on single actions of any items. *)
EXTENDS Parser

UpTo(set, n) == UNION {[1..m -> set] : m \in 0..n}
I(typ) == [typ |-> typ, name |-> ""]
X == [typ |-> "variable", name |-> "$x"]
Y == [typ |-> "variable", name |-> "$y"]
T == [typ |-> "string", name |-> "t"]
M == [typ |-> "string", name |-> Main]
Act(items) == <<I("left")>> \o items \o <<I("right")>>
Sp == I("space")
F == I("field")

Use1 == Act(<<X>>)
Decl == Act(<<X, Sp, I("declare"), F>>)
IfX == Act(<<I("if"), Sp, X>>)
Else == Act(<<I("else")>>)
ElseIf == Act(<<I("else"), Sp, I("if"), F>>)
End == Act(<<I("end")>>)
IfF == Act(<<I("if"), F>>)
Block == Act(<<I("block"), T, X, I("declare"), F>>)
Define == Act(<<I("define"), Sp, T>>)
Actions == {<<I("text")>>, <<I("blank")>>, Use1, Decl, IfX, Else, ElseIf, End, Block, Define,
  Act(<<I("range"), Sp, X, I("comma"), Sp, Y, I("declare"), F>>),
  Act(<<Sp, I("with"), X, I("assign"), Y>>), Act(<<I("else"), I("with"), X, Sp>>),
  Act(<<I("template"), T, Sp>>), Act(<<I("template"), Sp, T, X, Sp, F>>),
  Act(<<I("define"), M>>), Act(<<Sp, F, F, Sp, I("pipe"), Sp, I("identifier"), Sp, X>>)}

\* A program of these actions, with the {end}s it may lack.
Flat(seqs) == LET f[n \in 0..Len(seqs)] == IF n = 0 THEN <<>> ELSE f[n - 1] \o seqs[n] IN f[Len(seqs)]
Ends(n) == Flat([k \in 1..n |-> End])
Programs == {Flat(s) : s \in UpTo(Actions, 2)} \cup
            {Flat(s) \o Ends(n) : s \in [1..3 -> Actions \ {End}], n \in 1..2} \cup
            {Flat(s) \o Ends(n) : s \in [1..4 -> {Decl, Use1, IfF, Else, Block, End}], n \in 0..1}

\* Single actions of any items, with a variable declared.
Bodies == {Act(b) : b \in UpTo({Sp, X, I("comma"), I("declare"), F, I("literal"), I("identifier"),
             I("lparen"), I("rparen"), I("pipe")}, 4) \cup [1..2 -> {I("unknown"), I("range"), T}]}
Texts == Programs \cup {t \in {Decl \o b : b \in Bodies} : Fits(t)}
=============================================================================
