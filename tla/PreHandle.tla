----------------------------- MODULE PreHandle -----------------------------
(***************************************************************************)
(* The pre-processor of SQL templates (handleAtsign and the handlers it     *)
(* calls): one pass over the tokens of a statement that turns @name and ?   *)
(* into template actions, [ ... ] into a conditional, and takes the names   *)
(* of the ? in an INSERT from its column list.                              *)
(*                                                                         *)
(* A token is what one call of sqlLexer.nextItem yields; an action {...} is *)
(* one token, standing for the run of handleFiledName over it (Lexer.tla):  *)
(* "action" lists fields, "keyword" has a keyword and goes through as text. *)
(* An action that calls a template function is an "action" too: its name    *)
(* becomes a field.                                                        *)
(* Every piece of output remembers the position of the token it came from.  *)
(***************************************************************************)
EXTENDS Integers, Sequences, FiniteSets

CONSTANTS
  Name,     \* identifiers of SQL and template fields
  NoName,   \* no identifier yet: "?" becomes the field "."
  Input     \* the statements, as sequences of tokens

\* "char" is any other printable character, "text" white space and quotes: the lexer takes
\* quotes off one by one and does not look at what they enclose.  "stop" is an @ before a
\* digit or at the end, for which the lexer reports the end of the input.
Kind == {"word", "insert", "values", "field", "action", "keyword", "mark", "open", "close",
         "comma", "lparen", "rparen", "char", "text", "stop"}
Token == [kind : Kind, name : Name]

ASSUME InputAssumption == Input \subseteq Seq(Token) /\ NoName \notin Name

VARIABLES
  input,     \* the statement
  pos,       \* tokens consumed
  mode,      \* the handler at work
  out,       \* bodySb of handleAtsign, with what the insert handlers return
  preKey,    \* preKey of handleAtsign
  optKey,    \* preKey of handleOption
  cond,      \* condSb of handleOption
  body,      \* bodySb of handleOption
  brackets,  \* leftParen of handleOption
  start,     \* where the option was opened
  columns,   \* column names of an INSERT
  opened,    \* leftParen of handleInsertColumns
  slot,      \* i + 1 in handleInsertValues
  parens     \* leftParen of handleInsertValues

vars == <<input, pos, mode, out, preKey, optKey, cond, body, brackets, start,
          columns, opened, slot, parens>>
option == <<optKey, cond, body, brackets, start>>
insert == <<columns, opened, slot, parens>>
-----------------------------------------------------------------------------
Ident == {"word", "insert", "values"}   \* itemIdentifier
Char  == {"open", "close", "comma", "mark", "char"}   \* itemChar

\* The token under the lexer, consumed if it is one of these kinds.
Tok == input[pos + 1]
AtBug(kinds) == pos < Len(input) /\ Tok.kind \in kinds /\ pos' = pos + 2 /\ UNCHANGED input
At(kinds) == pos < Len(input) /\ Tok.kind \in kinds /\ pos' = pos + 1 /\ UNCHANGED input
\* The lexer is at the end, or says so.
AtEnd == \/ pos = Len(input) /\ UNCHANGED <<input, pos>>
         \/ At({"stop"})

Piece(kind, name) == [kind |-> kind, name |-> name, at |-> pos + 1]
Text         == Piece("text", Tok.name)
Field(name)  == Piece("field", name)
Emit(piece)  == out' = Append(out, piece)

Init ==
  /\ input \in Input
  /\ pos = 0 /\ mode = "atsign" /\ out = <<>>
  /\ preKey = NoName /\ optKey = NoName
  /\ cond = <<>> /\ body = <<>> /\ brackets = 0 /\ start = 0
  /\ columns = <<>> /\ opened = FALSE /\ slot = 1 /\ parens = 0

KeyBug == IF preKey = NoName THEN Tok.name ELSE preKey
\* The identifier that names the next ?.
Key == Tok.name

\* handleAtsign: tokens without a handler of their own.
AtsignItem ==
  /\ mode = "atsign"
  /\ \/ At({"word", "values"}) /\ Emit(Text) /\ preKey' = Key
     \/ At({"field", "action"}) /\ Emit(Field(Tok.name)) /\ UNCHANGED preKey
     \/ At({"mark"}) /\ Emit(Field(preKey)) /\ UNCHANGED preKey
     \/ At({"keyword", "close", "comma", "char", "text", "lparen", "rparen"})
        /\ Emit(Text) /\ UNCHANGED preKey
  /\ UNCHANGED <<mode, option, insert>>

AtsignOption ==
  /\ mode = "atsign" /\ At({"open"})
  /\ mode' = "option" /\ start' = pos + 1
  /\ optKey' = NoName /\ cond' = <<>> /\ body' = <<>> /\ brackets' = 0
  /\ UNCHANGED <<out, preKey, insert>>

AtsignInsert ==
  /\ mode = "atsign" /\ At({"insert"})
  /\ Emit(Text) /\ mode' = "columns"
  /\ columns' = <<>> /\ opened' = FALSE /\ slot' = 1 /\ parens' = 0
  /\ UNCHANGED <<preKey, option>>

AtsignEnd ==
  /\ mode = "atsign" /\ AtEnd
  /\ mode' = "done"
  /\ UNCHANGED <<out, preKey, option, insert>>

\* The condition of an option is the arguments of its if, each the names written without a
\* space between them: a ? and a field of an action start an argument (" ." + name), @name is
\* joined to the last one.
Cond(name) == cond' = Append(cond, <<name>>)
Joined(name) == cond' = IF cond = <<>> THEN <<<<name>>>>
                        ELSE [cond EXCEPT ![Len(cond)] = Append(@, name)]
Body(piece) == body' = Append(body, piece)

OptionMarkBug ==
  At({"mark"}) /\ Body(Field(optKey)) /\ UNCHANGED cond /\ UNCHANGED optKey
OptionMark ==
  At({"mark"}) /\ Cond(optKey) /\ Body(Field(optKey)) /\ UNCHANGED optKey

\* handleOption: tokens inside the brackets.  What handleFiledName has put into the
\* condition before it meets a keyword it takes out again.
OptionItem ==
  /\ mode = "option"
  /\ \/ OptionMark
     \/ At({"field"}) /\ Joined(Tok.name) /\ Body(Field(Tok.name)) /\ UNCHANGED optKey
     \/ At({"action"}) /\ Cond(Tok.name) /\ Body(Field(Tok.name)) /\ UNCHANGED optKey
     \/ At(Ident) /\ Body(Text) /\ optKey' = Key /\ UNCHANGED cond
     \/ At({"keyword", "comma", "char", "text", "lparen", "rparen"})
        /\ Body(Text) /\ UNCHANGED <<cond, optKey>>
  /\ UNCHANGED <<mode, out, preKey, brackets, start, insert>>

\* A bracket inside the option: the count starts from 0, not from the bracket that opened it.
OptionBracket ==
  /\ mode = "option"
  /\ \/ At({"open"}) /\ brackets' = brackets + 1
     \/ brackets # 1 /\ At({"close"}) /\ brackets' = brackets - 1
  /\ UNCHANGED <<mode, out, preKey, optKey, cond, body, start, insert>>

If  == [kind |-> "if", name |-> cond, at |-> start]
End == [kind |-> "end", name |-> <<>>, at |-> pos']
WrappedEmpty == IF cond = <<>> THEN <<>> ELSE <<If>> \o body \o <<End>>
WrappedLate  == IF cond = <<>> THEN body ELSE <<If>> \o <<End>> \o body
\* handleAtsign wraps an option into an if when it has a condition.
Wrapped == IF cond = <<>> THEN body ELSE <<If>> \o body \o <<End>>

\* The option is over: at its bracket, or with the statement.
OptionEnd ==
  /\ mode = "option"
  /\ (brackets = 1 /\ At({"close"})) \/ AtEnd
  /\ out' = out \o Wrapped
  /\ mode' = "atsign"
  /\ UNCHANGED <<preKey, option, insert>>

\* handleInsertColumns: identifiers from the first parenthesis on are columns; nothing is
\* rewritten.
ColumnsItem ==
  /\ mode = "columns"
  /\ \/ At({"word", "insert"})
        /\ columns' = (IF opened THEN Append(columns, Tok.name) ELSE columns)
        /\ Emit(Text) /\ UNCHANGED opened
     \/ At({"lparen"}) /\ Emit(Text) /\ opened' = TRUE /\ UNCHANGED columns
     \/ At({"action"}) /\ Emit(Field(Tok.name)) /\ UNCHANGED <<columns, opened>>
     \/ At({"field", "keyword", "text", "rparen"} \cup Char)
        /\ Emit(Text) /\ UNCHANGED <<columns, opened>>
  /\ UNCHANGED <<mode, preKey, option, slot, parens>>

ColumnsEnd ==
  /\ mode = "columns"
  /\ \/ At({"values"}) /\ Emit(Text)
     \/ AtEnd /\ UNCHANGED out
  /\ mode' = IF columns = <<>> THEN "atsign" ELSE "values"
  /\ UNCHANGED <<preKey, option, insert>>

\* The index columns[i] runs out of range.
ValuesMark ==
  /\ At({"mark"})
  /\ IF slot <= Len(columns) THEN Emit(Field(columns[slot])) /\ UNCHANGED mode
     ELSE mode' = "panic" /\ UNCHANGED out

NextSlotBug == slot + 1
NextSlot == IF parens = 1 THEN slot + 1 ELSE slot

\* handleInsertValues, up to the parenthesis that closes the first tuple; characters other
\* than "," and "?" are not written.
ValuesItem ==
  /\ mode = "values"
  /\ \/ At({"comma"}) /\ Emit(Text) /\ slot' = NextSlot /\ UNCHANGED <<mode, parens>>
     \/ ValuesMark /\ UNCHANGED <<slot, parens>>
     \/ At({"open", "close", "char"}) /\ UNCHANGED <<mode, out, slot, parens>>
     \/ At({"field", "action"}) /\ Emit(Field(Tok.name)) /\ UNCHANGED <<mode, slot, parens>>
     \/ At({"keyword", "text"} \cup Ident) /\ Emit(Text) /\ UNCHANGED <<mode, slot, parens>>
     \/ At({"lparen"}) /\ Emit(Text) /\ parens' = parens + 1 /\ UNCHANGED <<mode, slot>>
     \/ At({"rparen"}) /\ Emit(Text) /\ parens' = parens - 1
        /\ mode' = (IF parens = 1 THEN "atsign" ELSE mode) /\ UNCHANGED slot
  /\ UNCHANGED <<preKey, option, columns, opened>>

ValuesEnd ==
  /\ mode = "values" /\ AtEnd
  /\ mode' = "atsign"
  /\ UNCHANGED <<out, preKey, option, insert>>

Finished == mode \in {"done", "panic"} /\ UNCHANGED vars

Step == \/ AtsignItem \/ AtsignOption \/ AtsignInsert \/ AtsignEnd
        \/ OptionItem \/ OptionBracket \/ OptionEnd
        \/ ColumnsItem \/ ColumnsEnd \/ ValuesItem \/ ValuesEnd
Next == Step \/ Finished

Spec == Init /\ [][Next]_vars
-----------------------------------------------------------------------------
Ref   == Name \cup {NoName}
Arguments == Seq(Ref) \ {<<>>}
Conds == Seq(Arguments)
PieceAt(at) == [kind : {"text", "field"}, name : Ref, at : at]
OutAt(at)   == PieceAt(at) \cup [kind : {"if"}, name : Conds, at : at]
                           \cup [kind : {"end"}, name : {<<>>}, at : at]

\* Type invariant.
TypeOK ==
  /\ input \in Seq(Token) /\ pos \in 0..Len(input)
  /\ mode \in {"atsign", "option", "columns", "values", "done", "panic"}
  /\ out \in Seq(OutAt(1..pos))
  /\ preKey \in Ref /\ optKey \in Ref
  /\ cond \in Conds
  /\ body \in Seq(PieceAt(1..pos))
  /\ brackets \in -pos..pos /\ parens \in -pos..pos /\ start \in 0..pos
  /\ columns \in Seq(Name) /\ opened \in BOOLEAN /\ slot \in 1..pos + 1

\* Tokens come out in the order they went in, none of them twice, whichever handlers they
\* went through and wherever options were cut off; an option comes out between the place
\* it was opened and the place it was closed.
InOrder == \A i, j \in DOMAIN out :
  i < j => \/ out[i].at < out[j].at
           \/ out[i].at = out[j].at /\ out[j].kind = "end"

\* What makes the order inductive: an open option has only pieces from after its bracket.
OptionInv ==
  /\ mode = "option" =>
       /\ start >= 1
       /\ \A i \in DOMAIN out : out[i].at < start
       /\ \A i \in DOMAIN body : body[i].at > start
       /\ \A i, j \in DOMAIN body : i < j => body[i].at < body[j].at

Has(kinds) == \E i \in DOMAIN input : input[i].kind \in kinds
Border == {"open", "close", "stop"}   \* tokens that are not written
\* Outside INSERT statements, what has been read is in the result, but for the brackets and
\* an @ that is no parameter, however the brackets are nested or left open; and the statement
\* is read to its end, unless an @ before a digit outside the options ends it: all that
\* follows that @ is lost.
NothingLost ==
  mode = "done" /\ ~Has({"insert"}) =>
    /\ \A i \in 1..pos : \/ input[i].kind \in Border
                        \/ \E k \in DOMAIN out : out[k].at = i /\ out[k].kind \in {"text", "field"}
    /\ pos < Len(input) => pos > 0 /\ input[pos].kind = "stop"

\* A ? stands for the identifier before it: the last one between it and the nearest
\* bracket, whether at top level or in an option.
MarkNamesWord ==
  ~Has({"insert"}) => \A k \in DOMAIN out : \A j \in 1..out[k].at :
    /\ out[k].kind = "field" /\ input[out[k].at].kind = "mark"
    /\ input[j].kind \in Ident
    /\ \A m \in j + 1..out[k].at : input[m].kind \notin Ident \cup Border
    => out[k].name = input[j].name

\* An if asks for a parameter that is an argument of it.  An argument of several names, as
\* @a@b, is no argument: the action's lexer refuses it (lexField, "bad character"), and the
\* text of the option is not rendered at all.
Asks(args, name) == \E c \in DOMAIN args : args[c] = <<name>> \/ Len(args[c]) > 1
\* The if of an option asks for all parameters of its text: the text is never rendered with
\* one of them empty.
FieldsGuarded ==
  \A i, k \in DOMAIN out :
    /\ i < k /\ out[i].kind = "if" /\ out[k].kind = "field"
    /\ \A m \in i..k : out[m].kind # "end"
    => Asks(out[i].name, out[k].name)

\* In an INSERT with a list of columns, whatever stands before it and between INSERT and the
\* list, a ? of the first tuple stands for the column at its place, however deep in function
\* calls it is, and there is a panic in the tuple only if it has more places than there are
\* columns.
Count(text, kind, i, j) == Cardinality({n \in i..j : text[n].kind = kind})
Depth(text, i, j) == Count(text, "lparen", i, j) - Count(text, "rparen", i, j)
Place(text, first, i) ==
  1 + Cardinality({n \in first + 1..i : text[n].kind = "comma" /\ Depth(text, first, n) = 1})
FirstTuple(text, u, i) == \A j \in u..i : Depth(text, u, j) >= 1 /\ text[j].kind # "stop"
\* INSERT is at s, the columns between the parentheses l and r, VALUES at v, the tuple from u on.
WellFormedInsert(text, s, l, r, v, u) ==
  /\ \A i \in 1..s - 1 : text[i].kind \notin {"insert", "open", "stop"}
  /\ \A i \in s + 1..l - 1 : text[i].kind \notin {"lparen", "values", "stop"}
  /\ \A i \in l + 1..r - 1 : /\ text[i].kind \in {"word", "comma", "text"}
                             /\ text[i].kind = "word" => Count(text, "word", l, i) = Count(text, "comma", l, i) + 1
  /\ \E i \in l + 1..r - 1 : text[i].kind = "word"
  /\ \A i \in r + 1..u - 1 : i = v \/ text[i].kind = "text"
Behind(text, i, kind) == {n \in i + 1..Len(text) : text[n].kind = kind}
SlotsMatchColumns ==
  \A s \in Behind(input, 0, "insert") : \A l \in Behind(input, s, "lparen") : \A r \in Behind(input, l, "rparen") :
  \A v \in Behind(input, r, "values") : \A u \in Behind(input, v, "lparen") : WellFormedInsert(input, s, l, r, v, u) =>
    /\ \A k \in DOMAIN out :
         /\ out[k].kind = "field" /\ input[out[k].at].kind = "mark"
         /\ out[k].at > u /\ FirstTuple(input, u, out[k].at)
         => \E w \in l..v : /\ input[w].kind = "word" /\ Count(input, "comma", l, w) + 1 = Place(input, u, out[k].at)
                            /\ out[k].name = input[w].name
    /\ mode = "panic" /\ pos >= u /\ FirstTuple(input, u, pos) => Place(input, u, pos) > Count(input, "word", l, v)

\* The pairs of brackets are the optional conditions (README.md, 可选条件): when a statement
\* has only pairs that are not nested, every pair is an if of its own.
Paired == \A i \in DOMAIN input :
  LET d == Count(input, "open", 1, i) - Count(input, "close", 1, i) IN d \in {0, 1} /\ (i = Len(input) => d = 0)
OptionsApart ==
  mode = "done" /\ Paired /\ ~Has({"stop"}) => \A i, j \in DOMAIN out :
    i < j /\ out[i].kind = "if" /\ out[j].kind = "end" /\ (\A m \in i..j - 1 : out[m].kind # "end")
    => \A m \in out[i].at + 1..out[j].at - 1 : input[m].kind \notin {"open", "close"}
=============================================================================
