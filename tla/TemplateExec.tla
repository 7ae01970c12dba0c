---------------------------- MODULE TemplateExec ----------------------------
(***************************************************************************)
(* The execution of a parsed template into an SQL writer.  The walk of the   *)
(* tree is a stack of frames, one per call in progress; every execution of a *)
(* template has a stack of variables, on which declarations are pushed and   *)
(* which the control structures cut back to the mark they took.              *)
(*                                                                         *)
(* Methods, function values, channels and iterator functions in the data,    *)
(* and the builtin functions that only compute a value, are left out.  The   *)
(* sorted keys of a map are its elements in the order of their rank, which   *)
(* is that of their names.                                                  *)
(***************************************************************************)
EXTENDS SqlFuncs

CONSTANTS
  Nodes,        \* the nodes and
  Pipes,        \* the pipelines that programs are made of
  Program,      \* what may be executed: the bodies of the main template and of those it calls
  Data,         \* what it may be executed with and
  Parts,        \* the values this is made of
  MissingKey,   \* the options for a missing key: "invalid", "zero", "error"
  FieldName(_), \* how the name of a field is converted
  maxExecDepth  \* how deep templates may nest

\* What the parser makes of a template: lists of nodes, a node with its pipeline and lists, a
\* pipeline of commands of operands, of which it has looked up the functions; a range declares
\* or assigns two variables at most.  A question mark in a text is the token "raw?": "?" is only
\* what the writer puts for a parameter.
Lists == {p.main : p \in Program} \cup (UNION {{p.defs[name] : name \in DOMAIN p.defs} : p \in Program})
         \cup (UNION {{n.list, n.elseList} : n \in Nodes})
Commands == UNION {{p.cmds[i] : i \in DOMAIN p.cmds} : p \in Pipes}
Arguments == UNION {{cmd[i] : i \in DOMAIN cmd} : cmd \in Commands}
Operands == {"dot", "int", "string", "nil", "field", "variable", "identifier", "pipe"}
ASSUME ProgramAssumption ==
  /\ Lists \subseteq Seq(Nodes)
  /\ {n.pipe : n \in Nodes} \cup {arg.pipe : arg \in {a \in Arguments : a.typ = "pipe"}} \subseteq Pipes
  /\ {p.cmds : p \in Pipes} \subseteq Seq(Commands)
  /\ Commands \subseteq Seq(Arguments) \ {<<>>}
  /\ \A arg \in Arguments : arg.n \in Int /\ arg.typ \in Operands /\ (arg.typ = "identifier" => arg.name \in Functions_)
  /\ \A p \in Pipes : p.decls \in Seq(STRING) /\ p.isAssign \in BOOLEAN
  /\ \A n \in Nodes : n.text # "?" /\ (n.op = "range" => Len(n.pipe.decls) <= 2)
\* The keys of a map and the fields of a struct are distinct; a writer in the data is empty.
ASSUME DataAssumption ==
  /\ Data \subseteq Parts
  /\ Parts \subseteq [kind : STRING, n : Int, elems : Seq([name : STRING, rank : Int, v : Parts]), boxed : BOOLEAN,
                     text : {<<>>}, args : {<<>>}]
  /\ \A v \in Parts : \A i, j \in DOMAIN v.elems : v.elems[i].rank = v.elems[j].rank => i = j
ASSUME MaxExecDepthAssumption == maxExecDepth \in Nat

VARIABLES
  prog,    \* the program
  data,    \* the data
  option,  \* what a missing key gives
  frames,  \* the calls in progress, the innermost last
  states,  \* the variables of the executions in progress, the innermost last
  out,     \* the SQL writer
  status

vars == <<prog, data, option, frames, states, out, status>>
-----------------------------------------------------------------------------
Last(s) == s[Len(s)]
Front(s) == SubSeq(s, 1, Len(s) - 1)
Top == Last(frames)
Vars == Last(states)
Missing == Value("missing", 0)

Variable(name, v) == [name |-> name, v |-> v]
mark(vs) == Len(vs)
pop(vs, m) == SubSeq(vs, 1, m)
\* The last variable of that name, 0 when there is none.
IndexOf(vs, name) == LET at == {i \in DOMAIN vs : vs[i].name = name}
                     IN IF at = {} THEN 0 ELSE CHOOSE i \in at : \A j \in at : j <= i
setVar(vs, name, v) == [vs EXCEPT ![IndexOf(vs, name)].v = v]
setTopVar(vs, n, v) == [vs EXCEPT ![Len(vs) + 1 - n].v = v]

Named(elems, name) == {j \in DOMAIN elems : elems[j].name = name}
evalField(name, hasArgs, receiver) ==
  LET Elem_(n) == receiver.elems[CHOOSE j \in Named(receiver.elems, n) : TRUE].v
  IN CASE receiver.kind = "invalid" /\ ~receiver.boxed -> [v |-> Invalid, err |-> IF option = "error" THEN "field" ELSE ""]
       [] receiver.kind = "struct" /\ ~hasArgs /\ Named(receiver.elems, FieldName(name)) # {} -> Ok(Elem_(FieldName(name)))
       [] receiver.kind = "map" /\ ~hasArgs ->
            IF Named(receiver.elems, name) # {} THEN Ok(Elem_(name))
            ELSE IF Named(receiver.elems, FieldName(name)) # {} THEN Ok(Elem_(FieldName(name)))
            ELSE [v |-> IF option = "zero" THEN Boxed(Invalid) ELSE Invalid, err |-> IF option = "error" THEN "field" ELSE ""]
       [] OTHER -> [v |-> Invalid, err |-> "field"]

\* The value of an operand that is neither a call nor a pipeline.
operand(arg) ==
  CASE arg.typ = "dot" -> Ok(Top.dot)
    [] arg.typ \in {"int", "string"} -> Ok(Value(arg.typ, arg.n))
    [] arg.typ = "nil" -> Ok(Invalid)
    [] arg.typ = "field" -> evalField(arg.name, FALSE, Top.dot)
    [] arg.typ = "variable" -> IF IndexOf(Vars, arg.name) = 0 THEN [v |-> Invalid, err |-> "undefined"]
                               ELSE Ok(Vars[IndexOf(Vars, arg.name)].v)
    [] arg.typ = "identifier" -> IF arg.name \in Variadic THEN Call(arg.name, <<>>) ELSE [v |-> Invalid, err |-> "args"]

\* A frame: where the walk goes on, the dot, what is left to do, the value so far, the marks
\* taken and, as a ghost, the names in scope: what the enclosing lists have declared when
\* this one starts and, last, what it has declared itself.
Frame(op, dot) == [op |-> op, dot |-> dot, nodes |-> <<>>, cmds |-> <<>>, args |-> <<>>, list |-> <<>>, items |-> <<>>,
                   decls |-> <<>>, isAssign |-> FALSE, name |-> "", value |-> Invalid, mark |-> 0, top |-> 0, scope |-> <<>>]
List(dot, nodes, scope) == [Frame("list", dot) EXCEPT !.nodes = nodes, !.scope = scope]
Pipeline(dot, pipe) == [Frame("pipeline", dot) EXCEPT !.cmds = pipe.cmds, !.decls = pipe.decls, !.isAssign = pipe.isAssign,
                                                      !.value = IF pipe.cmds = <<>> THEN Invalid ELSE Missing]
Names(vs) == [i \in DOMAIN vs |-> vs[i].name]

Init ==
  /\ prog \in Program /\ data \in Data /\ option \in MissingKey
  /\ frames = <<List(data, prog.main, <<"$">>)>>
  /\ states = <<<<Variable("$", data)>>>>
  /\ out = Empty /\ status = "running"

Walking(op) == status = "running" /\ Top.op = op
AtNode(op) == Walking("list") /\ Top.nodes # <<>> /\ Head(Top.nodes).op = op
Node == Head(Top.nodes)
SetVars(vs) == states' = [states EXCEPT ![Len(states)] = vs]
Become(frame) == frames' = Append(Front(frames), frame)
Push(frame, inner) == frames' = Front(frames) \o <<frame, inner>>
Same == UNCHANGED <<prog, data, option>>
Quiet == Same /\ UNCHANGED <<out, status>>
\* errorf: the panic unwinds every frame; what is written stays written.
errorf(err) == status' = err /\ UNCHANGED <<frames, states, out>>
-----------------------------------------------------------------------------
\* A value is given to the call it is evaluated for.  A pipeline takes it out of its
\* interface; and and or stop at the argument that decides.
Decides(name, v) == (name = "and" /\ ~IsTrue(v)) \/ (name = "or" /\ IsTrue(v))
Given(frame, v) ==
  IF frame.op = "pipeline" THEN [frame EXCEPT !.value = indirectInterface(v)]
  ELSE IF frame.op # "call" THEN [frame EXCEPT !.value = v]
  ELSE IF Decides(frame.name, v) THEN [frame EXCEPT !.list = Append(@, v), !.args = <<>>, !.value = Missing]
  ELSE [frame EXCEPT !.list = Append(@, v)]
Return(v) == frames' = Append(Front(Front(frames)), Given(Last(Front(frames)), v))

\* The next command: its final argument is the value of the one before.
evalCommand ==
  /\ Walking("pipeline") /\ Top.cmds # <<>> /\ Same
  /\ LET cmd == Head(Top.cmds)
         first == cmd[1]
         hasArgs == Len(cmd) > 1 \/ Top.value # Missing
         numIn == Len(cmd) - (IF Top.value = Missing THEN 1 ELSE 0)
         arity == IF first.name \in {"and", "or"} THEN numIn > 0 ELSE first.name \in Variadic \/ numIn = 1
         rest == [Top EXCEPT !.cmds = Tail(@)]
     IN IF first.typ = "identifier"
        THEN \/ ~arity /\ errorf("args")
             \/ arity /\ UNCHANGED <<states, out, status>>
                /\ Push(rest, [Frame("call", Top.dot) EXCEPT !.name = first.name, !.args = Tail(cmd), !.value = Top.value])
        ELSE IF first.typ = "nil" \/ (hasArgs /\ first.typ # "field") THEN errorf("args")
        ELSE IF first.typ = "pipe" THEN Push(rest, Pipeline(Top.dot, first.pipe)) /\ UNCHANGED <<states, out, status>>
        ELSE \E r \in {IF first.typ = "field" THEN evalField(first.name, hasArgs, Top.dot) ELSE operand(first)} :
               \/ r.err # "" /\ errorf(r.err)
               \/ r.err = "" /\ Become(Given(rest, r.v)) /\ UNCHANGED <<states, out, status>>

\* Functions take reflect.Value, so that validateType lets every argument pass.
evalArg ==
  /\ Walking("call") /\ Top.args # <<>> /\ Same
  /\ LET arg == Head(Top.args)
         rest == [Top EXCEPT !.args = Tail(@)]
     IN IF arg.typ = "pipe" THEN Push(rest, Pipeline(Top.dot, arg.pipe)) /\ UNCHANGED <<states, out, status>>
        ELSE \E r \in {operand(arg)} :
               \/ r.err # "" /\ errorf(r.err)
               \/ r.err = "" /\ Become(Given(rest, r.v)) /\ UNCHANGED <<states, out, status>>

\* What a call is made with: its arguments, and the value of the command before it.
Passed == IF Top.value = Missing THEN Top.list ELSE Append(Top.list, Top.value)
evalCall ==
  /\ Walking("call") /\ Top.args = <<>> /\ Same
  /\ \E r \in {IF Top.name \in {"and", "or"} THEN Ok(Last(Passed)) ELSE Call(Top.name, Passed)} :
       \/ r.err # "" /\ errorf(r.err)
       \/ r.err = "" /\ Return(r.v) /\ UNCHANGED <<states, out, status>>

\* The end of a pipeline: its value is assigned, or its variables are pushed.
endPipeline ==
  /\ Walking("pipeline") /\ Top.cmds = <<>> /\ Same
  /\ LET places == {IndexOf(Vars, Top.decls[j]) : j \in DOMAIN Top.decls}
         assigned == [i \in DOMAIN Vars |-> IF i \in places THEN Variable(Vars[i].name, Top.value) ELSE Vars[i]]
         pushed == Vars \o [j \in DOMAIN Top.decls |-> Variable(Top.decls[j], Top.value)]
         known == Top.isAssign => 0 \notin places
     IN \/ ~known /\ errorf("undefined")
        \/ known /\ SetVars(IF Top.isAssign THEN assigned ELSE pushed) /\ Return(Top.value) /\ UNCHANGED <<out, status>>
-----------------------------------------------------------------------------
walkText ==
  /\ AtNode("text") /\ out' = WriteString(out, Text(Node.text)) /\ Become([Top EXCEPT !.nodes = Tail(@)])
  /\ Same /\ UNCHANGED <<states, status>>

\* A node with a pipeline: the mark is taken before the pipeline is evaluated.
Evaluate(op) ==
  /\ AtNode(op) /\ Push([Top EXCEPT !.op = op, !.mark = mark(Vars)], Pipeline(Top.dot, Node.pipe))
  /\ Quiet /\ UNCHANGED states

\* Behind the node: the list with the variables of the pipeline in scope, the list without,
\* and what the pipeline's variables add to the scope of a body.
Declared == SubSeq(Names(Vars), Len(Top.scope) + 1, Len(Vars))
Inner == Top.scope \o Declared
Past == [Top EXCEPT !.op = "list", !.nodes = Tail(@), !.scope = Inner]
Outside == [Top EXCEPT !.op = "list", !.nodes = Tail(@)]

\* printableValue indirects a pointer: a writer is printed as the structure it points to.
\* A nil writer is taken for a writer, and read.
printed(v) ==
  IF v.kind = "sql" THEN WriteString(out, [t |-> "sql", of |-> v])
  ELSE IF v.kind = "invalid" THEN WriteParam(out, Value("no value", 0))
  ELSE IF v.kind = "write" THEN WriteParam(out, [v EXCEPT !.kind = "struct"])
  ELSE WriteParam(out, v)
walkAction ==
  /\ Walking("action") /\ Same
  /\ LET prints == Node.pipe.decls = <<>>
     IN \/ prints /\ Top.value.kind = "func" /\ errorf("print")
        \/ prints /\ Top.value.kind = "nilwrite" /\ errorf("panic")
        \/ /\ prints => Top.value.kind \notin {"func", "nilwrite"}
           /\ out' = IF prints THEN printed(Top.value) ELSE out
           /\ Become(Past) /\ UNCHANGED <<states, status>>

Pop(m) == [Frame("pop", Top.dot) EXCEPT !.mark = m]
walkIfOrWithBug(op) ==
  /\ Walking(op) /\ Quiet /\ UNCHANGED states
  /\ frames' = Front(frames) \o <<Outside, Pop(mark(Vars)),
       IF IsTrue(Top.value) THEN List(IF op = "with" THEN Top.value ELSE Top.dot, Node.list, Inner)
       ELSE List(Top.dot, Node.elseList, Inner)>>
walkIfOrWith(op) ==
  /\ Walking(op) /\ Quiet /\ UNCHANGED states
  /\ frames' = Front(frames) \o <<Outside, Pop(Top.mark),
       IF IsTrue(Top.value) THEN List(IF op = "with" THEN Top.value ELSE Top.dot, Node.list, Inner)
       ELSE List(Top.dot, Node.elseList, Inner)>>

\* What a range goes through: pairs of index and element.
CanRange(v, n) == v.kind \in {"invalid", "slice", "map"} \/ (v.kind = "int" /\ n <= 1)
Pair(index, elem) == [index |-> index, elem |-> elem]
Sorted(elems) == [i \in DOMAIN elems |-> CHOOSE e \in {elems[j] : j \in DOMAIN elems} :
                                           Cardinality({j \in DOMAIN elems : elems[j].rank < e.rank}) = i - 1]
Items(v) ==
  CASE v.kind = "int" -> [i \in 1..v.n |-> Pair(Invalid, Int_(i - 1))]
    [] v.kind = "map" -> [i \in DOMAIN v.elems |-> Pair(String_(Sorted(v.elems)[i].rank), Sorted(v.elems)[i].v)]
    [] OTHER -> [i \in DOMAIN v.elems |-> Pair(Int_(i - 1), v.elems[i].v)]

\* A range over nothing walks its else-list, with its own variables in scope.
walkRange ==
  /\ Walking("range") /\ Same
  /\ LET able == CanRange(Top.value, Len(Node.pipe.decls))
         loop == [Frame("loop", Top.dot) EXCEPT
                    !.nodes = Node.list, !.decls = Node.pipe.decls, !.isAssign = Node.pipe.isAssign,
                    !.items = Items(Top.value), !.mark = Top.mark, !.top = mark(Vars), !.scope = Inner]
     IN \/ ~able /\ errorf("range")
        \/ able /\ UNCHANGED <<states, out, status>>
           /\ frames' = Front(frames) \o <<Outside, loop>> \o
                        (IF loop.items = <<>> THEN <<List(Top.dot, Node.elseList, Inner)>> ELSE <<>>)

\* One iteration, after the pop that ends the one before it.
IteratedBug(vs) ==
  LET item == Head(Top.items)
      n == Len(Top.decls)
  IN IF n = 0 THEN vs
     ELSE IF Top.isAssign THEN IF n = 1 THEN setVar(vs, Top.decls[1], item.elem)
                               ELSE setVar(setVar(vs, Top.decls[1], item.index), Top.decls[2], item.elem)
     ELSE IF n = 1 THEN setTopVar(vs, 1, item.elem)
     ELSE setTopVar(setTopVar(vs, 2, item.elem), 1, item.index)
Iterated(vs) ==
  LET item == Head(Top.items)
      n == Len(Top.decls)
  IN IF n = 0 THEN vs
     ELSE IF Top.isAssign THEN IF n = 1 THEN setVar(vs, Top.decls[1], item.elem)
                               ELSE setVar(setVar(vs, Top.decls[1], item.index), Top.decls[2], item.elem)
     ELSE IF n = 1 THEN setTopVar(vs, 1, item.elem)
     ELSE setTopVar(setTopVar(vs, 1, item.elem), 2, item.index)
NextItem == frames' = Append([frames EXCEPT ![Len(frames)].items = Tail(@)], List(Head(Top.items).elem, Top.nodes, Top.scope))
oneIteration ==
  /\ Walking("loop") /\ Top.items # <<>> /\ NextItem
  /\ SetVars(Iterated(pop(Vars, Top.top))) /\ Quiet

\* The deferred pop of a control structure.
leave ==
  /\ Walking("pop") \/ (Walking("loop") /\ Top.items = <<>>)
  /\ SetVars(pop(Vars, Top.mark)) /\ frames' = Front(frames) /\ Quiet

\* The variables the pipeline declares stay with the caller; the template gets none of its.
lookupTemplate ==
  /\ AtNode("template") /\ Same
  /\ LET defined == Node.name \in DOMAIN prog.defs
         deep == Len(states) - 1 = maxExecDepth
     IN \/ ~defined /\ errorf("template")
        \/ defined /\ deep /\ errorf("depth")
        \/ defined /\ ~deep /\ Evaluate("template")
walkTemplate ==
  /\ Walking("template") /\ Quiet
  /\ states' = Append(states, <<Variable("$", Top.value)>>)
  /\ frames' = Front(frames) \o <<Past, Frame("return", Top.dot), List(Top.value, prog.defs[Node.name], <<"$">>)>>
return ==
  /\ Walking("return")
  /\ states' = Front(states) /\ frames' = Front(frames) /\ Quiet

EndList ==
  /\ Walking("list") /\ Top.nodes = <<>>
  /\ frames' = Front(frames) /\ status' = IF Len(frames) = 1 THEN "ok" ELSE status
  /\ UNCHANGED <<prog, data, option, states, out>>

Next ==
  \/ walkText \/ walkAction \/ walkIfOrWith("if") \/ walkIfOrWith("with") \/ walkRange \/ oneIteration \/ leave
  \/ lookupTemplate \/ walkTemplate \/ return \/ EndList
  \/ (\E op \in {"action", "if", "with", "range"} : Evaluate(op))
  \/ evalCommand \/ evalArg \/ evalCall \/ endPipeline
Done == status # "running" /\ UNCHANGED vars
Spec == Init /\ [][Next \/ Done]_vars
-----------------------------------------------------------------------------
\* A walk in progress has a call in progress, and no more executions than are allowed.
TypeOK ==
  /\ status \in {"running", "ok", "panic", "undefined", "field", "args", "nil", "call", "print", "range", "template", "depth"}
  /\ (status = "running") => (frames # <<>> /\ states # <<>>)
  /\ \A i \in DOMAIN states : states[i] # <<>> /\ states[i][1].name = "$"

\* The stack holds the variables in lexical scope and no others, in the order of their
\* declarations, wherever a list goes on: the marks of the control structures (exec.go) cut
\* exactly what their bodies have pushed, also when they are nested in loops or templates.
ScopeRespected == Walking("list") => Names(Vars) = Top.scope

\* An iteration starts with the loop's variables holding its index and element, whatever the
\* iterations before it have declared or assigned (walkRange, oneIteration).
LoopVariables ==
  [][Walking("loop") /\ Top.items # <<>> /\ Top.decls # <<>> =>
       LET item == Head(Top.items)
           value(name) == Vars'[IndexOf(Vars', name)].v
       IN /\ value(Last(Top.decls)) = item.elem
          /\ Len(Top.decls) = 2 /\ Top.decls[1] # Top.decls[2] => value(Top.decls[1]) = item.index]_vars

\* Every placeholder has its own parameter, at its own place, in what is written so far and in
\* the fragments the functions have built (SqlWrite, sql_func.go): a text without its
\* parameter, or the reverse, would shift all that follow.  It is not said that the statement
\* is the one README.md:119-124 promises: a fragment that an action prints is one parameter,
\* a structure, with one placeholder, however many are in it, and is never merged (printed).
Matched(text, args) ==
  /\ Len(args) = Marks(text, Len(text))
  /\ \A j \in DOMAIN text : text[j].t = "?" => text[j].of = args[Marks(text, j)]
PlaceholdersMatch ==
  Matched(out.text, out.args) /\ \A j \in DOMAIN out.args : Matched(out.args[j].text, out.args[j].args)

\* A function given items that are not nil, and no fragment that is empty or odd, puts one
\* separator between any two of the placeholders it writes: none leads, trails or is doubled
\* by lists that are spread, fields that are left out or fragments that are merged (params,
\* marshal, inParameter, setParameter, whereParameter).
Alternates(text) == text # <<>> => Len(text) % 2 = 1 /\ \A k \in DOMAIN text : (text[k].t = "?") = (k % 2 = 1)
Item(v) == v.kind # "invalid" /\ (v.kind = "write" => v.text # <<>> /\ Alternates(v.text))
SeparatorsAlternate ==
  [][Walking("call") /\ Top.args = <<>> /\ Top.name \in Variadic /\ status' = "running"
       /\ (\A j \in DOMAIN Passed : Item(Passed[j]) /\ \A k \in DOMAIN Passed[j].elems : Item(Passed[j].elems[k].v))
     => Alternates(Top'.value.text)]_vars

\* A statement that is not prepared shows every parameter at the place of its placeholder,
\* unless the template itself holds a question mark (InterpolateParams).
InterpolatedInPlace ==
  status = "ok" /\ (\A j \in DOMAIN out.text : out.text[j].t # "raw?") =>
    \A j \in DOMAIN out.text : InterpolateParams(out)[j] =
      IF out.text[j].t = "?" THEN [t |-> "literal", of |-> out.text[j].of] ELSE out.text[j]
=============================================================================
