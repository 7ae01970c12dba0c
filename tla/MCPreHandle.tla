---------------------------- MODULE MCPreHandle ----------------------------
(* PreHandle on short statements.  A name is told apart where a property looks at it. *)
EXTENDS PreHandle

CONSTANTS a, b   \* identifiers

Names == {a, b}
Tokens(kinds, names) == [kind : kinds, name : names]
UpTo(set, n) == UNION {[1..m -> set] : m \in 0..n}

\* Conditions: brackets, parameters of every form and the identifiers before them.
Conditions == UpTo(Tokens({"word"}, {a, b}) \cup
                   Tokens({"field", "action", "keyword", "mark", "open", "close", "stop"}, {a}), 5)

\* INSERT of one or two columns, with any tokens for its values and for what follows.
Plain(kinds) == [i \in DOMAIN kinds |-> [kind |-> kinds[i], name |-> a]]
One  == Plain(<<"insert", "lparen", "word", "rparen", "values", "lparen">>)
Two  == Plain(<<"text", "insert", "text", "word", "text", "word", "lparen">>) \o <<[kind |-> "word", name |-> b]>>
        \o Plain(<<"comma", "text", "word", "rparen", "text", "values", "text", "lparen">>)
Inserts == {front \o vals : front \in {One, Two},
              vals \in UpTo(Tokens({"word", "mark", "comma", "lparen", "rparen", "char", "action"}, {a}), 5)}

\* Statements that start like an INSERT and go on otherwise.
Fragments == {<<[kind |-> "insert", name |-> a]>> \o rest : rest \in
                UpTo(Tokens({"word", "lparen", "values", "mark", "open", "close", "stop", "insert",
                             "field", "keyword", "text"}, {a}), 4)}
Statements == Conditions \cup Inserts \cup Fragments
=============================================================================
