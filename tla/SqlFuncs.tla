----------------------------- MODULE SqlFuncs ------------------------------
(***************************************************************************)
(* The values a template computes with, the SQL writer that collects a text *)
(* and its parameters, the functions that build fragments of SQL, and the   *)
(* interpolation of parameters into the text.                               *)
(*                                                                         *)
(* A value is a record: its kind, a number that tells it from others of its  *)
(* kind (zero, the empty string and false are 0), the elements of a slice,   *)
(* map or struct, and whether it sits in an interface, as the elements of    *)
(* map[string]any do.  A piece of text is a token; a placeholder carries, as *)
(* a ghost, the value it was written for.                                    *)
(***************************************************************************)
EXTENDS Integers, Sequences, FiniteSets

Value(k, n) == [kind |-> k, n |-> n, elems |-> <<>>, boxed |-> FALSE, text |-> <<>>, args |-> <<>>]
Int_(n) == Value("int", n)
String_(n) == Value("string", n)   \* 0: the empty string
Invalid == Value("invalid", 0)     \* the zero reflect.Value; boxed: a nil in an interface
Nil == Value("nil", 0)             \* a nil pointer
NilWrite == Value("nilwrite", 0)   \* a nil *SqlWrite
\* Elements have a name, the place of the name in the order of keys, and a value.
Elem(name, rank, v) == [name |-> name, rank |-> rank, v |-> v]
Compound(k, elems) == [Value(k, 0) EXCEPT !.elems = elems]
Boxed(v) == [v EXCEPT !.boxed = TRUE]
\* What an interface holds: indirectInterface, and the Elem of evalPipeline.
indirectInterface(v) == [v EXCEPT !.boxed = FALSE]

Text(t) == [t |-> t, of |-> Invalid]
Mark(of) == [t |-> "?", of |-> of]
\* How many of the first j tokens are placeholders.
Marks(text, j) == Cardinality({k \in 1..j : text[k].t = "?"})

Write(text, args) == [Value("write", 0) EXCEPT !.text = text, !.args = args]
Empty == Write(<<>>, <<>>)
WriteString(w, tok) == [w EXCEPT !.text = Append(@, tok)]
\* SqlWrite.WriteParam: nothing for nil, the text and parameters of another writer, or
\* else a placeholder and its parameter.
WriteParamBug(w, arg) ==
  IF arg.kind = "invalid" THEN w
  ELSE IF arg.kind = "write" THEN [w EXCEPT !.text = @ \o arg.text]
  ELSE [w EXCEPT !.text = Append(@, Mark(indirectInterface(arg))), !.args = Append(@, indirectInterface(arg))]
WriteParam(w, arg) ==
  IF arg.kind = "invalid" THEN w
  ELSE IF arg.kind = "write" THEN [w EXCEPT !.text = @ \o arg.text, !.args = @ \o arg.args]
  ELSE [w EXCEPT !.text = Append(@, Mark(indirectInterface(arg))), !.args = Append(@, indirectInterface(arg))]

\* A function's result, or the error safeCall makes of its error or panic.
Ok(v) == [v |-> v, err |-> ""]
Failed == [v |-> Invalid, err |-> "call"]

\* The items of a list, a parameter each, with a separator before all but the first.
SeparatedBug(items, sep) ==
  LET w[j \in 0..Len(items)] ==
        IF j = 0 THEN Empty
        ELSE LET q == w[j - 1] IN WriteParam(IF j > 2 THEN WriteString(q, Text(sep)) ELSE q, items[j])
  IN w[Len(items)]
Separated(items, sep) ==
  LET w[j \in 0..Len(items)] ==
        IF j = 0 THEN Empty
        ELSE LET q == w[j - 1] IN WriteParam(IF j > 1 THEN WriteString(q, Text(sep)) ELSE q, items[j])
  IN w[Len(items)]

\* Interface() panics on the zero Value, not on a nil in an interface; WriteParam on a nil writer.
Usable(list) == \A j \in DOMAIN list : list[j].kind = "invalid" => list[j].boxed
Writable(list) == Usable(list) /\ \A j \in DOMAIN list : list[j].kind # "nilwrite"
params(list) == IF Writable(list) THEN Ok(Separated(list, ",")) ELSE Failed
marshal(list) == IF Usable(list) THEN Ok(Separated([j \in DOMAIN list |-> Value("json", list[j].n)], ",")) ELSE Failed

Concat(seqs) == LET c[j \in 0..Len(seqs)] == IF j = 0 THEN <<>> ELSE c[j - 1] \o seqs[j] IN c[Len(seqs)]
Values(elems) == [j \in DOMAIN elems |-> elems[j].v]
\* Only an argument whose own kind is a slice is spread: one in an interface is not.
inParameter(list) ==
  LET Spread(v) == IF v.kind = "slice" /\ ~v.boxed THEN Values(v.elems) ELSE <<v>>
  IN IF Writable(list) THEN Ok(Separated(Concat([j \in DOMAIN list |-> Spread(list[j])]), ",")) ELSE Failed

\* like, likeRight and likeLeft differ in where the pattern has its %.
like(v) == Ok(WriteParam(Empty, Value("pattern", v.n)))
comma(v) ==
  IF v.kind \in {"nil", "nilwrite"} \/ (v.kind = "invalid" /\ v.boxed) THEN Failed
  ELSE IF v.kind # "int" THEN Ok(NilWrite)
  ELSE Ok(IF v.n > 0 THEN WriteString(Empty, Text(",")) ELSE Empty)

IsTrue(v) ==
  CASE v.kind \in {"invalid", "nil", "nilwrite"} -> FALSE
    [] v.kind \in {"slice", "map"} -> v.elems # <<>>
    [] v.kind \in {"struct", "write", "func"} -> TRUE
    [] OTHER -> v.n # 0

\* set and where: all the elements of a map, the fields of a struct that are not zero.  A
\* string is an alias; it and anything else in an interface are no string, map or struct.
\* Column names and their alias are left out of the text.
Pairs(sep, list) ==
  LET Shown(v, x) == IF v.kind = "map" \/ IsTrue(x) THEN <<x>> ELSE <<>>
      Of(v) == IF v.kind = "string" THEN <<>> ELSE Concat([j \in DOMAIN v.elems |-> Shown(v, v.elems[j].v)])
  IN IF \A j \in DOMAIN list : ~list[j].boxed /\ list[j].kind \in {"string", "map", "struct"}
     THEN Ok(Separated(Concat([j \in DOMAIN list |-> Of(list[j])]), sep)) ELSE Failed
setParameter(list) == Pairs(",", list)
whereParameter(list) == Pairs("and", list)
not(v) == Ok(Value("bool", IF IsTrue(v) THEN 0 ELSE 1))

Variadic == {"param", "json", "in", "set", "where"}
Functions_ == Variadic \cup {"like", "comma", "not", "and", "or"}
Call(name, list) ==
  CASE name = "param" -> params(list)
    [] name = "json" -> marshal(list)
    [] name = "in" -> inParameter(list)
    [] name = "set" -> setParameter(list)
    [] name = "where" -> whereParameter(list)
    [] name = "like" -> like(list[1])
    [] name = "comma" -> comma(list[1])
    [] name = "not" -> not(list[1])

\* InterpolateParams: every ? of the text takes the next parameter, a ? that was written as
\* text too; it panics when there are parameters, but no more.
InterpolateParamsBug(w) ==
  LET Taking(tok) == tok.t \in {"?", "raw?"}
      argPos[j \in 0..Len(w.text)] == IF j = 0 THEN 0 ELSE argPos[j - 1] + (IF Taking(w.text[j]) THEN 1 ELSE 0)
  IN IF w.args = <<>> THEN w.text
     ELSE IF argPos[Len(w.text)] >= Len(w.args) THEN <<Text("panic")>>
     ELSE [j \in DOMAIN w.text |-> IF Taking(w.text[j]) THEN [t |-> "literal", of |-> w.args[argPos[j] + 1]] ELSE w.text[j]]
InterpolateParams(w) ==
  LET Taking(tok) == tok.t \in {"?", "raw?"}
      argPos[j \in 0..Len(w.text)] == IF j = 0 THEN 0 ELSE argPos[j - 1] + (IF Taking(w.text[j]) THEN 1 ELSE 0)
  IN IF w.args = <<>> THEN w.text
     ELSE IF argPos[Len(w.text)] > Len(w.args) THEN <<Text("panic")>>
     ELSE [j \in DOMAIN w.text |-> IF Taking(w.text[j]) THEN [t |-> "literal", of |-> w.args[argPos[j]]] ELSE w.text[j]]
=============================================================================
