--------------------------- MODULE MCTemplateExec ---------------------------
EXTENDS TemplateExec

\* The data: a structure and a map as maps of parameters are, with elements in interfaces; "n"
\* is a nil there, "z" a zero, "A" a name that only the conversion finds.
MapOf(elems) == Compound("map", [j \in DOMAIN elems |-> Elem(elems[j][1], elems[j][2], Boxed(elems[j][3]))])
Listed == Compound("slice", <<Elem("", 1, Int_(5)), Elem("", 2, Int_(6))>>)
WithNil == Compound("slice", <<Elem("", 1, Int_(5)), Elem("", 2, Boxed(Invalid)), Elem("", 3, Int_(6))>>)
MapAB == MapOf(<<<<"b", 2, Int_(8)>>, <<"a", 1, Int_(7)>>>>)
Fields(list) == <<Elem("A", 1, Int_(1)), Elem("z", 2, Int_(0)), Elem("l", 3, list), Elem("m", 4, MapAB), Elem("f", 5, Value("func", 0))>>
MCData ==
  { Compound("struct", Fields(Listed)), Compound("struct", Fields(WithNil)),
    MapOf(<<<<"m", 2, MapAB>>, <<"A", 1, Int_(1)>>, <<"z", 3, Int_(0)>>, <<"l", 4, Listed>>>>) }
In(S) == UNION {{v.elems[j].v : j \in DOMAIN v.elems} : v \in S}
MCParts == MCData \cup In(MCData) \cup In(In(MCData))
MCFieldName(name) == IF name = "a" THEN "A" ELSE name

NoPipe == [decls |-> <<>>, isAssign |-> FALSE, cmds |-> <<>>]
Arg(typ, name) == [typ |-> typ, name |-> name, n |-> 0, pipe |-> NoPipe]
Dot == Arg("dot", "")
Field(name) == Arg("field", name)
Var(name) == Arg("variable", name)
Const(n) == [Arg("int", "") EXCEPT !.n = n]
Fn(name) == Arg("identifier", name)
Pipe(cmds) == [NoPipe EXCEPT !.cmds = cmds]
Sub(pipe) == [Arg("pipe", "") EXCEPT !.pipe = pipe]
P(cmd) == Pipe(<<cmd>>)
Decl(names, pipe) == [pipe EXCEPT !.decls = names]
Assign(names, pipe) == [Decl(names, pipe) EXCEPT !.isAssign = TRUE]

Node_(op, pipe) == [op |-> op, pipe |-> pipe, text |-> "", list |-> <<>>, elseList |-> <<>>, name |-> ""]
Action(pipe) == Node_("action", pipe)
TextNode(t) == [Node_("text", NoPipe) EXCEPT !.text = t]
Control(op, pipe, list, else) == [Node_(op, pipe) EXCEPT !.list = list, !.elseList = else]
Template(pipe) == [Node_("template", pipe) EXCEPT !.name = "t"]

\* What stands in a list: it prints, declares or assigns.
Prints == {Action(P(<<Var("x")>>)), Action(P(<<Dot>>)), Action(P(<<Field("f")>>))}
Changes == {Action(Decl(<<"x">>, P(<<Dot>>))), Action(Decl(<<"y">>, P(<<Const(7)>>))), Action(Assign(<<"x">>, P(<<Const(9)>>)))}
\* What stands in control of a list.
Heads == { P(<<Field("a")>>), P(<<Field("z")>>), P(<<Field("l")>>), P(<<Field("m")>>), P(<<Field("none")>>),
           Decl(<<"x">>, P(<<Field("m")>>)), Decl(<<"x">>, P(<<Const(2)>>)), Decl(<<"i", "x">>, P(<<Field("l")>>)),
           Assign(<<"x">>, P(<<Field("l")>>)),
           P(<<Fn("and"), Field("z"), Sub(Decl(<<"y">>, P(<<Field("a")>>)))>>) }
Ops == {"if", "with", "range"}
Bodies == {<<a>> : a \in Prints \cup Changes} \cup {<<c, p>> : c \in Changes, p \in Prints}
Last_ == Action(P(<<Var("x")>>))
Inner_ == {Control(op, pipe, <<c>>, <<>>) : op \in Ops, pipe \in {Decl(<<"x">>, P(<<Const(1)>>)), P(<<Dot>>)}, c \in Changes}
Nested == {<<c, Last_>> : c \in Inner_}
Outer_ == {Control(op, pipe, body, <<c>>) : op \in Ops, pipe \in Heads, body \in Bodies \cup Nested, c \in Changes}
None == [n \in {} |-> <<>>]
Main(nodes) == [main |-> nodes, defs |-> None]
\* The controls, also behind a declaration of the variable.
First_ == Action(Decl(<<"x">>, P(<<Const(4)>>)))
Loops == {Main(<<c, Last_>>) : c \in Outer_} \cup {Main(<<First_, c, Last_>>) : c \in Outer_}

\* Calls of templates, with themselves among them.
Start_ == Action(Decl(<<"x">>, P(<<Field("a")>>)))
Again_ == Template(P(<<Dot>>))
Each_ == Control("range", P(<<Dot>>), <<Again_>>, <<>>)
Invoked == {Template(pipe) : pipe \in {NoPipe, P(<<Field("l")>>), Decl(<<"y">>, P(<<Field("m")>>))}}
Calls == {[main |-> <<Start_, t, Last_>>, defs |-> [n \in names |-> body]] : t \in Invoked, names \in {{}, {"t"}},
            body \in {<<>>, <<Action(P(<<Dot>>))>>, <<Last_>>, <<Action(P(<<Var("$")>>)), Again_>>, <<Each_>>}}

\* Functions: with each argument they are documented for, merged, piped and printed.
Like == P(<<Fn("like"), Field("a")>>)
Args == {Field("a"), Field("l"), Field("m"), Field("none"), Dot, Const(3), Sub(Like)}
Fns == {"param", "in", "set", "where", "json", "like", "comma", "not", "or"}
Cmds == {<<Fn(f)>> : f \in Fns} \cup {<<Fn(f), a>> : f \in Fns, a \in Args} \cup {<<Fn(f), a, b>> : f \in Fns, a \in Args, b \in Args}
Texts == {TextNode("text"), TextNode("raw?")}
Printed == {Action(P(<<Field("a")>>)), Action(P(<<Field("z")>>))}
With_(cmd) == Control("with", P(cmd), <<Action(P(<<Dot>>))>>, <<>>)
Piped(cmd) == Action(Pipe(<<<<Field("l")>>, cmd>>))
Commas == {P(<<Fn("comma"), a>>) : a \in {Const(1), Field("l")}}
Uses == {Main(<<t, Action(P(<<Field("a")>>)), With_(cmd), Action(P(<<Field("z")>>))>>) : t \in Texts, cmd \in Cmds}
     \cup {Main(<<Piped(cmd), Action(P(<<Sub(p)>>))>>) : cmd \in Cmds, p \in Commas}
MCProgram == Loops \cup Calls \cup Uses

\* What these are made of.
MCNodes == {n : n \in Prints \cup Changes \cup Inner_ \cup Outer_ \cup {First_, Last_, Start_, Again_, Each_, Action(P(<<Var("$")>>))}
  \cup Invoked \cup Texts \cup Printed \cup {With_(cmd) : cmd \in Cmds} \cup {Piped(cmd) : cmd \in Cmds}
  \cup {Action(P(<<Sub(p)>>)) : p \in Commas}}
MCPipes == {p : p \in {n.pipe : n \in MCNodes} \cup Commas \cup {Like, Decl(<<"y">>, P(<<Field("a")>>))}}
=============================================================================
