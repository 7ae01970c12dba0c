------------------------------- MODULE Parser ------------------------------
(***************************************************************************)
(* The recursive-descent parser of templates and its token buffer.  The     *)
(* calls in progress are a stack of frames: "op" is where a function goes   *)
(* on, and each action is what it does between two of its calls or token    *)
(* reads.  Trees of {define} and {block} read the same lexer through a      *)
(* buffer, variables and a root of their own.                               *)
(*                                                                         *)
(* Of the nodes built the model keeps what the parser asks about them later.*)
(* "literal" stands for a constant, nil or the dot, "unknown" for the name  *)
(* of no function.  {break} and {continue} never get here: the pre-processor*)
(* has taken them for fields.                                              *)
(***************************************************************************)
EXTENDS Integers, Sequences, FiniteSets

CONSTANTS
  Input,   \* the texts, as the items the lexer emits for them
  Main     \* the name of the template that is parsed

Control == {"if", "range", "with"}
Term == {"literal", "string", "identifier", "unknown", "field", "variable", "lparen"}
ItemType == Term \cup Control \cup
  {"text", "blank", "left", "right", "space", "rparen", "pipe", "declare", "assign", "comma",
   "else", "end", "template", "block", "define", "eof", "error"}

\* What the lexer promises of its items (Lexer!ItemsFit).
NumberOf(items, typ, k) == Cardinality({j \in 1..k : items[j].typ = typ})
Fits(items) == \A k \in DOMAIN items :
  LET open == NumberOf(items, "left", k) - NumberOf(items, "right", k)
      parens == NumberOf(items, "lparen", k) - NumberOf(items, "rparen", k)
  IN CASE items[k].typ \in {"text", "blank"} -> open = 0
       [] items[k].typ = "right" -> open = 0 /\ parens = 0
       [] OTHER -> /\ open = 1 /\ parens >= 0
                   /\ items[k].typ = "space" => k > 1 /\ items[k - 1].typ # "space"

ASSUME InputAssumption == \A i \in Input : i \in Seq([typ : ItemType \ {"eof", "error"}, name : STRING]) /\ Fits(i)
ASSUME MainAssumption == Main \in STRING

VARIABLES
  input,    \* the text
  read,     \* items the lexer has given
  trees,    \* the trees in progress, the innermost last
  stack,    \* the calls in progress, the innermost last
  ret,      \* what the last call returned
  taken,    \* ghost: items the grammar has used, by place
  treeSet,  \* the trees installed: whether each is empty
  status

vars == <<input, read, trees, stack, ret, taken, treeSet, status>>
-----------------------------------------------------------------------------
Last(s) == s[Len(s)]
Front(s) == SubSeq(s, 1, Len(s) - 1)
Cur == Last(trees)
Top == Last(stack)

NoItem == [typ |-> "eof", name |-> "", at |-> 0]
New(name) == [name |-> name, vars |-> <<"$">>, token |-> <<NoItem, NoItem, NoItem>>, peekCount |-> 0, empty |-> TRUE]
\* A frame: where the function goes on, its context, a template name, the length of vars to
\* go back to, a variable and the token after it held by the look-ahead, the declarations,
\* commands or arguments so far, and whether they can be executed.
Frame(op, ctx) == [op |-> op, ctx |-> ctx, name |-> "", mark |-> 0, v |-> NoItem, after |-> NoItem,
                   decls |-> 0, n |-> 0, exec |-> TRUE, literal |-> FALSE]

\* lexer.nextItem: past the text it reports its end, in an action an error.
Open == Cardinality({j \in DOMAIN input : input[j].typ = "left"}) > Cardinality({j \in DOMAIN input : input[j].typ = "right"})
nextItem == IF read < Len(input) THEN [typ |-> input[read + 1].typ, name |-> input[read + 1].name, at |-> read + 1]
            ELSE [typ |-> IF Open THEN "error" ELSE "eof", name |-> "", at |-> read + 1]

\* The buffer: token[1..peekCount] are pending, the last of them first.
token == IF Cur.peekCount > 0 THEN Cur.token[Cur.peekCount] ELSE nextItem
next == IF Cur.peekCount > 0 THEN [Cur EXCEPT !.peekCount = @ - 1] ELSE [Cur EXCEPT !.token[1] = nextItem]
backup(t) == [t EXCEPT !.peekCount = @ + 1]
backup2(t, t1) == [t EXCEPT !.token[2] = t1, !.peekCount = 2]
backup3Bug(t, t2, t1) == [t EXCEPT !.token[2] = t2, !.token[3] = t1, !.peekCount = 3]
backup3(t, t2, t1) == [t EXCEPT !.token[2] = t1, !.token[3] = t2, !.peekCount = 3]

\* A read of the next token, which leaves the innermost tree as t, and what becomes of the
\* token: the grammar uses it, or it is given back or held for a moment.
Read(typs, t) == /\ token.typ \in typs
                 /\ read' = (IF Cur.peekCount > 0 \/ read = Len(input) THEN read ELSE read + 1)
                 /\ trees' = [trees EXCEPT ![Len(trees)] = t]
Use(typs)  == Read(typs, next) /\ taken' = Append(taken, token.at)
Hold(typs) == Read(typs, next) /\ UNCHANGED taken
Peek(typs) == Read(typs, backup(next)) /\ UNCHANGED taken
NoRead == UNCHANGED <<read, taken>>
Any == ItemType
NonSpace == ItemType \ {"space"}

At(op) == status = "parsing" /\ Top.op = op
Become(frame) == stack' = Append(Front(stack), frame) /\ UNCHANGED ret
Becomes(op) == Become([Top EXCEPT !.op = op])
\* Call a function, to go on at op afterwards.
Call(op, frame) == stack' = Front(stack) \o <<[Top EXCEPT !.op = op], frame>> /\ UNCHANGED ret
Return(r) == stack' = Front(stack) /\ ret' = r
Same == UNCHANGED <<input, treeSet, status>>
KeepTrees == UNCHANGED trees
\* errorf, and recover at the top: the parse is over.
errorf == status' = "error" /\ UNCHANGED <<input, read, trees, stack, ret, taken, treeSet>>
Node == [kind |-> "node", exec |-> TRUE]

Init ==
  /\ input \in Input /\ read = 0
  /\ trees = <<New(Main)>> /\ stack = <<Frame("parse", "root")>> /\ ret = Node
  /\ taken = <<>> /\ treeSet = [n \in {} |-> TRUE] /\ status = "parsing"

\* nextNonSpace and peekNonSpace: where a function expects no space.
SkipsSpace == {"parseDelim", "textOrAction", "action", "end", "else", "list", "templateName", "templateArg",
               "defineName", "defineDelim", "decl", "declNext", "declSecond", "pipe", "operand"}
nextNonSpaceBug ==
  /\ status = "parsing" /\ Top.op \in SkipsSpace /\ token.typ = "space"
  /\ Peek({"space"}) /\ UNCHANGED <<stack, ret>> /\ Same
nextNonSpace ==
  /\ status = "parsing" /\ Top.op \in SkipsSpace /\ token.typ = "space"
  /\ Hold({"space"}) /\ UNCHANGED <<stack, ret>> /\ Same

\* Tree.add: installs the innermost tree, over an empty one only if it is not empty itself.
Installed(name) == \E n \in DOMAIN treeSet : n = name /\ ~treeSet[n]
CanAdd(t) == Installed(t.name) => t.empty
add(t) == treeSet' = IF Installed(t.name) THEN treeSet
                     ELSE [n \in DOMAIN treeSet \cup {t.name} |-> IF n = t.name THEN t.empty ELSE treeSet[n]]

parse ==
  /\ At("parse")
  /\ \/ token.typ = "eof" /\ CanAdd(Cur) /\ add(Cur) /\ status' = "ok"
        /\ UNCHANGED <<input, read, trees, stack, ret, taken>>
     \/ token.typ = "eof" /\ ~CanAdd(Cur) /\ errorf
     \/ Hold({"left"}) /\ Become([Top EXCEPT !.op = "parseDelim", !.v = token]) /\ Same
     \/ Peek(Any \ {"eof", "left"}) /\ Call("parsed", Frame("textOrAction", "")) /\ Same

\* {define} is known by its first word; the delimiter of anything else goes back.
parseDelim ==
  /\ At("parseDelim") /\ Same
  /\ \/ /\ token.typ = "define" /\ read' = read + 1 /\ taken' = taken \o <<Top.v.at, token.at>>
        /\ trees' = Append([trees EXCEPT ![Len(trees)] = next], New("definition"))
        /\ Call("parse", Frame("defineName", ""))
     \/ /\ Read(NonSpace \ {"define"}, backup2(next, Top.v)) /\ UNCHANGED taken
        /\ Call("parsed", Frame("textOrAction", ""))

parseDefinition ==
  \/ At("defineName") /\ Use({"string"}) /\ Become([Top EXCEPT !.op = "defineDelim", !.name = token.name]) /\ Same
  \/ At("defineDelim") /\ Use({"right"}) /\ Call("treeList", Frame("list", "root")) /\ Same

\* A node is appended to a list, which may be the root of its tree.
AppendNode(op) ==
  /\ ret.kind \in {"node", "blank"} /\ Becomes(op) /\ NoRead /\ Same
  /\ trees' = [trees EXCEPT ![Len(trees)].empty = @ /\ (Top.ctx # "root" \/ ret.kind = "blank")]
Resume(op) == At(op) /\ NoRead /\ KeepTrees /\ Same

parsed == At("parsed") /\ AppendNode("parse")

\* The end of a {define} or {block}: its tree is installed and its buffer left behind.
EndTree ==
  /\ At("treeList") /\ ret.kind = "end" /\ NoRead /\ UNCHANGED <<input, status>>
  /\ CanAdd([Cur EXCEPT !.name = Top.name]) /\ add([Cur EXCEPT !.name = Top.name])
  /\ trees' = Front(trees) /\ Return(Node)

itemListBug ==
  \/ At("list") /\ Peek(NonSpace \ {"eof"}) /\ Call("listed", Frame("textOrAction", "")) /\ Same
  \/ Resume("list") /\ token.typ = "eof" /\ Return([Node EXCEPT !.kind = "end"])
  \/ Resume("listed") /\ ret.kind \in {"end", "else"} /\ Return(ret)
  \/ At("listed") /\ AppendNode("list")
itemList ==
  \/ At("list") /\ Peek(NonSpace \ {"eof"}) /\ Call("listed", Frame("textOrAction", "")) /\ Same
  \/ Resume("listed") /\ ret.kind \in {"end", "else"} /\ Return(ret)
  \/ At("listed") /\ AppendNode("list")

textOrAction ==
  /\ At("textOrAction") /\ Same
  /\ \/ Use({"text"}) /\ Return(Node)
     \/ Use({"blank"}) /\ Return([Node EXCEPT !.kind = "blank"])
     \/ Use({"left"}) /\ Becomes("action")

\* The first word of an action; without a keyword it is a pipeline.
Keyword == {"end", "else", "template", "block"} \cup Control
action ==
  /\ At("action") /\ Same
  /\ \/ Use({"end", "else"}) /\ Becomes(token.typ)
     \/ Use({"template", "block"}) /\ Become(Frame("templateName", token.typ))
     \/ Use(Control) /\ Become([Frame("control", token.typ) EXCEPT !.mark = Len(Cur.vars)])
     \/ Peek(NonSpace \ Keyword) /\ Call("done", Frame("decl", "command"))
done == Resume("done") /\ Return(Node)

endControl == At("end") /\ Use({"right"}) /\ Return([Node EXCEPT !.kind = "end"]) /\ Same
\* {else if} and {else with} leave the keyword pending.
elseControl ==
  /\ At("else") /\ Same
  /\ Use({"right"}) \/ Peek({"if", "with"})
  /\ Return([Node EXCEPT !.kind = "else"])

\* if, range, with: pipeline, list, and a list or a control of the same kind after else.
Chained == token.typ \in {"if", "with"} /\ token.typ = Top.ctx
parseControl ==
  \/ Resume("control") /\ Call("controlPipe", Frame("decl", Top.ctx))
  \/ Resume("controlPipe") /\ Call("controlList", Frame("list", ""))
  \/ At("controlList") /\ ret.kind = "else" /\ Chained /\ Use(Any)
     /\ Call("controlEnd", [Frame("control", Top.ctx) EXCEPT !.mark = Len(Cur.vars)]) /\ Same
  \/ At("controlList") /\ ret.kind = "else" /\ ~Chained /\ Peek(Any)
     /\ Call("controlElse", Frame("list", "")) /\ Same
popVarsBug == UNCHANGED trees
popVars == trees' = [trees EXCEPT ![Len(trees)].vars = SubSeq(@, 1, Top.mark)]
EndControl ==
  /\ At("controlEnd") \/ (ret.kind = "end" /\ (At("controlList") \/ At("controlElse")))
  /\ popVars /\ Return(Node) /\ NoRead /\ Same

\* {template} and {block}: a name and a pipeline, which a {template} may lack.
templateControl ==
  \/ /\ At("templateName") /\ Use({"string"}) /\ Same
     /\ IF Top.ctx = "template" THEN Becomes("templateArg")
        ELSE stack' = Front(stack) \o <<[Top EXCEPT !.op = "blockPipe", !.name = token.name], Frame("decl", "block")>>
             /\ UNCHANGED ret
  \/ At("templateArg") /\ Use({"right"}) /\ Return(Node) /\ Same
  \/ At("templateArg") /\ Peek(NonSpace \ {"right"}) /\ Call("done", Frame("decl", "template")) /\ Same
blockControl ==
  /\ At("blockPipe") /\ NoRead /\ Same
  /\ trees' = Append(trees, New(Top.name)) /\ Call("treeList", Frame("list", "root"))

\* The declarations of a pipeline: whether a variable is one the second token after it tells.
Declare(typs) ==
  /\ Read(typs, [next EXCEPT !.vars = Append(@, Top.v.name)])
  /\ taken' = taken \o <<Top.v.at, token.at>>
declarations ==
  \/ At("decl") /\ Hold({"variable"}) /\ Become([Top EXCEPT !.op = "declAfter", !.v = token]) /\ Same
  \/ At("decl") /\ Peek(NonSpace \ {"variable"}) /\ Becomes("pipe") /\ Same
  \/ At("declAfter") /\ Peek(Any) /\ Become([Top EXCEPT !.op = "declNext", !.after = token]) /\ Same
  \/ At("declNext") /\ Declare({"assign", "declare"}) /\ Become([Top EXCEPT !.op = "pipe", !.decls = @ + 1]) /\ Same
  \/ At("declNext") /\ Top.ctx = "range" /\ Top.decls = 0 /\ Declare({"comma"})
     /\ Become([Top EXCEPT !.op = "declSecond", !.decls = 1]) /\ Same
  \/ At("declSecond") /\ Peek({"variable", "right", "rparen"}) /\ Becomes("decl") /\ Same
  \/ /\ At("declNext") /\ Same /\ UNCHANGED taken /\ Becomes("pipe")
     /\ Read(NonSpace \ {"assign", "declare", "comma"},
             IF Top.after.typ = "space" THEN backup3(next, Top.v, Top.after) ELSE backup2(next, Top.v))

\* The commands of a pipeline; only the first may start with what cannot be executed.
Ending == IF Top.ctx = "paren" THEN {"rparen"} ELSE {"right"}
pipeline ==
  \/ At("pipe") /\ Peek(Term) /\ Call("piped", Frame("operand", "")) /\ Same
  \/ Resume("piped") /\ Become([Top EXCEPT !.op = "pipe", !.n = @ + 1, !.exec = @ /\ (Top.n = 0 \/ ret.exec)])
  \/ At("pipe") /\ Top.n > 0 /\ Top.exec /\ Use(Ending) /\ Return(Node) /\ Same

Defined == token.typ \in {"identifier", "field"} \/ (token.typ = "variable" /\ \E i \in DOMAIN Cur.vars : Cur.vars[i] = token.name)
\* Operands: a term, with fields unless it is a literal.
operand ==
  \/ At("operand") /\ Defined /\ Use(Term) /\ Become([Top EXCEPT !.op = "chain", !.literal = FALSE]) /\ Same
  \/ At("operand") /\ Use({"literal", "string"}) /\ Same
     /\ Become([Top EXCEPT !.op = "chain", !.literal = TRUE, !.exec = @ /\ Top.n > 0])
  \/ At("operand") /\ Use({"lparen"}) /\ Same
     /\ stack' = Front(stack) \o <<[Top EXCEPT !.op = "chain", !.literal = FALSE], Frame("decl", "paren")>> /\ UNCHANGED ret
  \/ At("operand") /\ Peek(NonSpace \ Term) /\ Becomes("argEnd") /\ Same
  \/ At("chain") /\ ~Top.literal /\ Use({"field"}) /\ Becomes("chain") /\ Same
  \/ At("chain") /\ Peek(Any \ {"field"}) /\ Become([Top EXCEPT !.op = "argEnd", !.n = @ + 1]) /\ Same

\* Arguments are separated by spaces; a pipe or the end of the pipeline ends the command.
command ==
  \/ At("argEnd") /\ Hold({"space"}) /\ Becomes("operand") /\ Same
  \/ At("argEnd") /\ Top.n > 0 /\ (Peek({"right", "rparen"}) \/ Use({"pipe"}))
     /\ Return([Node EXCEPT !.exec = Top.exec]) /\ Same

Parse == nextNonSpace \/ parse \/ parseDelim \/ parseDefinition \/ parsed \/ EndTree \/ itemList \/ textOrAction
         \/ action \/ done \/ endControl \/ elseControl \/ parseControl \/ EndControl \/ templateControl
         \/ blockControl \/ declarations \/ pipeline \/ operand \/ command

\* Every token no function of the grammar takes is an error, and so are the other refusals.
Unexpected ==
  \/ Top.op \in {"defineName", "templateName"} /\ token.typ # "string"
  \/ Top.op \in {"defineDelim", "end"} /\ token.typ # "right"
  \/ Top.op = "else" /\ token.typ \notin {"right", "if", "with"}
  \/ Top.op = "textOrAction" /\ token.typ \notin {"text", "blank", "left"}
  \/ Top.op = "list" /\ token.typ = "eof"
  \/ Top.op \in {"parsed", "controlElse"} /\ ret.kind \in (IF Top.op = "parsed" THEN {"end", "else"} ELSE {"else"})
  \/ Top.op = "treeList" /\ (ret.kind # "end" \/ ~CanAdd([Cur EXCEPT !.name = Top.name]))
  \/ Top.op = "declNext" /\ token.typ = "comma" /\ (Top.ctx # "range" \/ Top.decls > 0)
  \/ Top.op = "declSecond" /\ token.typ \notin {"variable", "right", "rparen"}
  \/ Top.op = "pipe" /\ token.typ \notin Term \cup Ending
  \/ Top.op = "pipe" /\ token.typ \in Ending /\ (Top.n = 0 \/ ~Top.exec)
  \/ Top.op = "operand" /\ token.typ \in Term \ {"literal", "string", "lparen"} /\ ~Defined
  \/ Top.op = "chain" /\ token.typ = "field" /\ Top.literal
  \/ Top.op = "argEnd" /\ (token.typ \notin {"space", "right", "rparen", "pipe"} \/ (token.typ # "space" /\ Top.n = 0))
Fail == status = "parsing" /\ (token.typ = "space" => Top.op \notin SkipsSpace) /\ Unexpected /\ errorf

Finished == status # "parsing" /\ UNCHANGED vars
Next == Parse \/ Fail \/ Finished
Spec == Init /\ [][Next]_vars /\ WF_vars(Parse \/ Fail)
-----------------------------------------------------------------------------
Pending(t) == [i \in 1..t.peekCount |-> t.token[t.peekCount + 1 - i]]
\* Type invariant.
TypeOK ==
  /\ input \in Input /\ read \in 0..Len(input) /\ status \in {"parsing", "ok", "error"}
  /\ \A i \in DOMAIN trees : trees[i].peekCount \in 0..3 /\ trees[i].empty \in BOOLEAN
                           /\ \E k \in DOMAIN trees[i].vars : trees[i].vars[k] = "$"
  /\ Len(trees) >= 1 /\ Len(stack) >= 1
  /\ \A n \in DOMAIN treeSet : treeSet[n] \in BOOLEAN
  /\ ret.kind \in {"node", "blank", "end", "else"} /\ ret.exec \in BOOLEAN

\* Every token is parsed once and in its place, through all look-ahead and backing up and
\* from one tree's buffer to the next: those the grammar has used, the one it holds and
\* those pending in the buffer of the innermost tree are, in this order, what the lexer gave,
\* but for spaces.  A space after a variable, which tells arguments apart, is pending with it.
Held == IF Top.op \in {"parseDelim", "declAfter", "declNext"} THEN <<Top.v.at>> ELSE <<>>
Places == taken \o Held \o [i \in DOMAIN Pending(Cur) |-> Pending(Cur)[i].at]
IsSpace(p) == input[p].typ = "space"
TokensInOrder == status = "parsing" =>
  /\ \A i, j \in DOMAIN Places : i < j => Places[i] < Places[j]
  /\ \A p \in 1..Len(input) : ~IsSpace(p) => (p <= read <=> \E i \in DOMAIN Places : Places[i] = p)
  /\ \A i \in 1..Len(taken \o Held) : Places[i] \in DOMAIN input /\ ~IsSpace(Places[i])
  /\ \A i \in 1..Cur.peekCount - 1 :
       Pending(Cur)[i + 1].at = Pending(Cur)[i].at + 1 \/ Pending(Cur)[i].typ = "left"

\* The nesting of a text: a control counts from its keyword to its {end}, which the {else if}s
\* share, a definition from the delimiter before its text.
Before(k) == IF input[k - 1].typ = "space" THEN input[k - 2].typ ELSE input[k - 1].typ
Opens(k) == \/ input[k].typ \in Control /\ Before(k) # "else"
            \/ input[k].typ = "right" /\ \E b \in 1..k : /\ input[b].typ \in {"block", "define"}
                                                         /\ \A m \in b..k - 1 : input[m].typ # "right"
Depth(k) == Cardinality({m \in 1..k : Opens(m)}) - Cardinality({m \in 1..k : input[m].typ = "end"})

\* A text is accepted only if its controls and definitions are closed, and every {else} is in
\* a control.
Closed == status = "ok" =>
  /\ Depth(Len(input)) = 0 /\ Len(trees) = 1
  /\ \A k \in DOMAIN input : Depth(k) >= (IF input[k].typ = "else" THEN 1 ELSE 0)

\* doc.go, Variables: a variable's scope extends to the {end} of the control it is declared
\* in, and a template invocation does not inherit variables.  A text that is accepted uses
\* every variable in the scope of a declaration; assigning one declares it here, as the
\* parser takes it.
Declares(k) == input[k].typ = "variable" /\ \E n \in {k + 1, k + 2} :
  /\ n <= Len(input) /\ input[n].typ \in {"declare", "assign", "comma"}
  /\ n = k + 2 => input[k + 1].typ = "space"
InScope(j, k) ==
  /\ \A m \in j..k : Depth(m) >= Depth(j)
  /\ \A b \in j..k : Opens(b) /\ input[b].typ = "right" => \E m \in b..k : Depth(m) < Depth(b)
ScopeRespected == status = "ok" => \A k \in DOMAIN input :
  input[k].typ = "variable" /\ input[k].name # "$" /\ ~Declares(k) =>
    \E j \in 1..k : Declares(j) /\ input[j].name = input[k].name /\ InScope(j, k)

\* Every parse comes to its end: no look-ahead gives back what it takes forever.
Terminates == <>(status # "parsing")
=============================================================================
