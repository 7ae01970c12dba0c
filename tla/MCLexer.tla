------------------------------ MODULE MCLexer ------------------------------
(* Lexer on short texts, for each of its readers and each part of its grammar. *)
EXTENDS Lexer

UpTo(set, n) == UNION {[1..m -> set] : m \in 0..n}
For(who, texts) == {who} \X texts
Action(glyphs, n) == {<<"left">> \o t : t \in UpTo(glyphs, n)}

\* Delimiters, their trim marks, comments and the lines around them.
Delimited == UpTo({"left", "right", "minus", "space", "newline", "letter"}, 5) \cup
             {<<"newline", "left">> \o mark \o <<"copen">> \o t : mark \in {<<>>, <<"minus", "newline">>},
                t \in UpTo({"minus", "cclose", "right", "newline"}, 5)}
\* Words, numbers, fields and what may come after them.
Words  == Action({"letter", "digit", "keyword", "break", "dot", "at", "dollar", "minus", "space", "right"}, 4)
\* Operators, parentheses and quotes.
Marks  == Action({"equals", "colon", "pipe", "lparen", "rparen", "comma", "junk", "letter", "right"}, 4) \cup
          Action({"dquote", "squote", "bquote", "backslash", "newline", "right"}, 5)
\* Lists of fields, as handleFiledName rewrites them.
Fields == Action({"letter", "keyword", "dot", "comma", "space", "right"}, 5)

\* The parser reads what the pre-processor has made of a text: no @ is left in an action.
Texts == For("parser", Delimited \cup Action({"letter", "digit", "keyword", "break", "dot", "dollar", "minus", "right"}, 4)
                       \cup Marks) \cup
         For("fieldName", {t \in Delimited : t # <<>> /\ t[1] = "left"} \cup Words \cup Marks \cup Fields)
Calls == For("fieldName", Fields)
=============================================================================
