------------------------------- MODULE Lexer -------------------------------
(***************************************************************************)
(* The lexer of template texts, one action per state function, and its two  *)
(* readers: the parser, which reads to the end, and handleFiledName of the  *)
(* pre-processor, which reads one action and rewrites it.                   *)
(*                                                                         *)
(* A text is a sequence of glyphs: the delimiters, the marks of a comment   *)
(* and the words of the language are one glyph each, every other glyph is a *)
(* class of characters ("letter" is none of those that mean something in a  *)
(* number or after a backslash).  Offsets count glyphs.                     *)
(***************************************************************************)
EXTENDS Integers, Sequences, FiniteSets

CONSTANT Input   \* pairs of a reader and a text

Space == {"space", "newline"}
Alnum == {"letter", "digit", "keyword", "break"}
Glyph == Space \cup Alnum \cup
         {"left", "right", "copen", "cclose", "minus", "dot", "at", "dollar", "equals", "colon",
          "pipe", "lparen", "rparen", "comma", "dquote", "squote", "bquote", "backslash", "junk"}
Reader == {"parser", "fieldName"}

ASSUME InputAssumption == Input \subseteq Reader \X Seq(Glyph)

VARIABLES
  text,       \* the text as it was given
  reader,     \* who calls nextItem
  input,      \* what is left to lex of it: all or, after an error, nothing
  state,      \* the state function, or "done" when the reader does not go on
  pos, start, line, startLine, depth, inside,
  items,      \* the items emitted so far, those with text
  multi,      \* useMuiltiFieldOutput of handleFiledName
  cond, body  \* its results: fields, and pieces of text, by offset

vars == <<text, reader, input, state, pos, start, line, startLine, depth, inside, items, multi, cond, body>>
reading == <<text, reader>>
-----------------------------------------------------------------------------
G(p) == IF p \in 0..Len(input) - 1 THEN input[p + 1] ELSE "eof"
\* The first offset from p on with a glyph outside the set, and with one in it.
EndOf(p, set) == CHOOSE q \in p..Len(input) :
  (q = Len(input) \/ G(q) \notin set) /\ \A r \in p..q - 1 : G(r) \in set
Find(p, set) == EndOf(p, Glyph \ set)
\* Where the spaces before x begin.
TrimmedEnd(x) == CHOOSE q \in start..x :
  (q = start \/ G(q - 1) \notin Space) /\ \A r \in q..x - 1 : G(r) \in Space

Newlines(p, q) == Cardinality({r \in p..q - 1 : G(r) = "newline"})
hasLeftTrimMarker(p)  == G(p) = "minus" /\ G(p + 1) \in Space
hasRightTrimMarker(p) == G(p) \in Space /\ G(p + 1) = "minus" /\ G(p + 2) = "right"
atRightDelim(p) == hasRightTrimMarker(p) \/ G(p) = "right"
atTerminator(p) == G(p) \in Space \cup {"eof", "dot", "comma", "pipe", "colon", "rparen", "lparen", "right"}

\* What handleFiledName makes of an item.  It has been given a hasFunction that knows no
\* function: Tree.Parse lexes before startParse sets the functions.
hasFunction(name) == FALSE
Piece(typ, i) == [typ |-> typ, at |-> i.start]
Listed(i) == i.typ = "field" \/ (i.typ = "identifier" /\ ~hasFunction(i))
\* The first character of a constant cannot be unquoted.
Malformed(i) ==
  /\ i.typ = "char constant"
  /\ \/ i.end = i.start + 2
     \/ G(i.start + 1) = "backslash" /\ G(i.start + 2) \notin {"squote", "backslash"}
LongConstant(i) == i.typ = "char constant" /\
  i.end > i.start + (IF G(i.start + 1) = "backslash" THEN 4 ELSE 3)
Cond(i) == IF Listed(i) THEN <<i.start>> ELSE <<>>
RewrittenBug(i) ==
  IF i.typ = "identifier" THEN <<Piece("point", i), Piece(i.typ, i)>>
  ELSE IF i.typ = "comma" THEN <<Piece("right", i), Piece("comma", i)>>
  ELSE <<Piece(i.typ, i)>>
Rewritten(i) ==
  IF i.typ = "identifier" /\ ~hasFunction(i) THEN <<Piece("point", i), Piece(i.typ, i)>>
  ELSE IF i.typ = "comma" THEN <<Piece("right", i), Piece("comma", i), Piece("left", i)>>
  ELSE IF LongConstant(i) THEN <<Piece("string", i)>>
  ELSE <<Piece(i.typ, i)>>

HandleItem(i) ==
  LET listing == multi /\ i.typ \notin {"keyword", "dot"} IN
  /\ multi' = listing
  /\ cond' = (IF listing THEN cond \o Cond(i) ELSE <<>>)
  /\ body' = body \o (IF listing THEN Rewritten(i) ELSE <<Piece(i.typ, i)>>)

\* The reader takes the item: it stops at an error and at the end, handleFiledName also at
\* the right delimiter and, with nothing done, at a constant it cannot read.
Emit(i) ==
  /\ items' = (IF i.end > i.start THEN Append(items, i) ELSE items)
  /\ IF reader = "parser" \/ i.end = i.start THEN UNCHANGED <<multi, cond, body>>
     ELSE IF multi /\ Malformed(i) THEN cond' = <<>> /\ body' = <<>> /\ UNCHANGED multi
     ELSE HandleItem(i)
  /\ state' = IF \/ i.typ \in {"error", "eof"}
                 \/ reader = "fieldName" /\ (i.typ = "right" \/ (multi /\ Malformed(i)))
              THEN "done" ELSE IF inside' THEN "inside" ELSE "text"

Item(typ, from, to, ln) == [typ |-> typ, start |-> from, end |-> to, line |-> ln]
MoveTo(p, ln) == pos' = p /\ start' = p /\ line' = ln /\ startLine' = ln
\* emit with the lexer at p.
Out(typ, p) ==
  /\ MoveTo(p, line + Newlines(pos, p))
  /\ UNCHANGED <<inside, reading, input>>
  /\ Emit(Item(typ, start, p, startLine))

\* errorf: the rest of the input is dropped.
Error ==
  /\ input' = <<>> /\ pos' = 0 /\ start' = 0
  /\ UNCHANGED <<reading, line, startLine, inside>>
  /\ Emit(Item("error", start, start, startLine))

Goto(s) == state' = s /\ UNCHANGED <<reading, input, items, multi, cond, body>>
-----------------------------------------------------------------------------
Init ==
  /\ \E i \in Input : reader = i[1] /\ text = i[2] /\ input = i[2]
  /\ state = "text" /\ pos = 0 /\ start = 0 /\ line = 1 /\ startLine = 1
  /\ depth = 0 /\ inside = FALSE /\ items = <<>>
  /\ multi = TRUE /\ cond = <<>> /\ body = <<>>

lexTextEnd ==
  /\ state = "text" /\ Find(pos, {"left"}) = Len(input)
  /\ Out(IF Len(input) > start THEN "text" ELSE "eof", Len(input))
  /\ UNCHANGED depth

lexTextBug ==
  LET x == Find(pos, {"left"})
      cut == IF hasLeftTrimMarker(x + 1) THEN TrimmedEnd(x) ELSE x
  IN /\ state = "text" /\ x < Len(input)
     /\ MoveTo(x, line + Newlines(start, cut))
     /\ IF cut > start THEN /\ UNCHANGED <<inside, reading, input>>
                            /\ Emit(Item("text", start, cut, startLine))
        ELSE Goto("left") /\ UNCHANGED inside
     /\ UNCHANGED depth
\* Text up to a left delimiter, less the spaces its trim marker takes.
lexText ==
  LET x == Find(pos, {"left"})
      cut == IF hasLeftTrimMarker(x + 1) THEN TrimmedEnd(x) ELSE x
  IN /\ state = "text" /\ x < Len(input)
     /\ MoveTo(x, line + Newlines(start, x))
     /\ IF cut > start THEN /\ UNCHANGED <<inside, reading, input>>
                            /\ Emit(Item("text", start, cut, startLine))
        ELSE Goto("left") /\ UNCHANGED inside
     /\ UNCHANGED depth

lexLeftDelim ==
  LET after == pos + 1 + (IF hasLeftTrimMarker(pos + 1) THEN 2 ELSE 0)
  IN /\ state = "left"
     /\ MoveTo(after, line + Newlines(start, after))
     /\ IF G(after) = "copen" THEN Goto("comment") /\ UNCHANGED <<depth, inside>>
        ELSE /\ depth' = 0 /\ inside' = TRUE /\ UNCHANGED <<reading, input>>
             /\ Emit(Item("left", start, pos + 1, startLine))

lexCommentBug ==
  LET close == Find(pos + 1, {"cclose"})
      delim == close + 1
      e     == EndOf(IF hasRightTrimMarker(delim) THEN delim + 3 ELSE delim + 1, Space)
  IN /\ state = "comment" /\ UNCHANGED depth
     /\ IF close = Len(input) \/ ~atRightDelim(delim) THEN Error
        ELSE /\ MoveTo(e, line + Newlines(start, delim) + Newlines(delim, e))
             /\ Goto("text") /\ UNCHANGED inside
\* A comment is not emitted: no mode with ParseComments is ever set.
lexComment ==
  LET close == Find(pos + 1, {"cclose"})
      delim == close + 1
      trim  == hasRightTrimMarker(delim)
      e     == IF trim THEN EndOf(delim + 3, Space) ELSE delim + 1
  IN /\ state = "comment" /\ UNCHANGED depth
     /\ IF close = Len(input) \/ ~atRightDelim(delim) THEN Error
        ELSE /\ MoveTo(e, line + Newlines(start, delim) + Newlines(delim, e))
             /\ Goto("text") /\ UNCHANGED inside

lexRightDelim ==
  LET trim  == hasRightTrimMarker(pos)
      delim == IF trim THEN pos + 2 ELSE pos
      e     == IF trim THEN EndOf(delim + 1, Space) ELSE delim + 1
      ln    == IF trim THEN line + Newlines(start, delim) ELSE startLine
  IN /\ state = "right"
     /\ inside' = FALSE
     /\ MoveTo(e, line + Newlines(start, delim) + Newlines(delim + 1, e))
     /\ UNCHANGED <<reading, input, depth>>
     /\ Emit(Item("right", delim, delim + 1, ln))

\* An action begins with its next item; none may end inside parentheses.
lexInsideAction ==
  /\ state = "inside"
  /\ \/ atRightDelim(pos) /\ depth = 0 /\ Goto("right") /\ UNCHANGED <<pos, start, line, startLine, inside, depth>>
     \/ atRightDelim(pos) /\ depth > 0 /\ Error /\ UNCHANGED depth
     \/ G(pos) \in {"eof", "junk"} /\ Error /\ UNCHANGED depth
     \/ ~atRightDelim(pos) /\ UNCHANGED depth /\
        \/ G(pos) \in Space /\ Goto("space") /\ UNCHANGED <<pos, start, line, startLine, inside>>
        \/ G(pos) = "equals" /\ Out("assign", pos + 1)
        \/ G(pos) = "colon" /\ (IF G(pos + 1) = "equals" THEN Out("declare", pos + 2) ELSE Error)
        \/ G(pos) \in {"pipe", "comma"} /\ Out(G(pos), pos + 1)
        \/ G(pos) \in {"left", "copen", "cclose", "backslash"} /\ Out("char", pos + 1)
     \/ G(pos) \in {"dquote", "squote", "bquote"} /\ Goto(G(pos))
        /\ pos' = pos + 1 /\ UNCHANGED <<start, line, startLine, inside, depth>>
     \/ G(pos) = "lparen" /\ depth' = depth + 1 /\ Out("lparen", pos + 1)
     \/ G(pos) = "rparen" /\ depth' = depth - 1 /\ (IF depth = 0 THEN Error ELSE Out("rparen", pos + 1))

\* A run of spaces, less the one that belongs to a trim marker.
lexSpaceBug ==
  LET e == EndOf(pos, Space) IN
  /\ state = "space" /\ UNCHANGED depth
  /\ Out("space", IF hasRightTrimMarker(e - 1) /\ e - 1 > pos THEN e - 1 ELSE pos + 1)
lexSpace ==
  LET e == EndOf(pos, Space) IN
  /\ state = "space" /\ UNCHANGED depth
  /\ IF ~hasRightTrimMarker(e - 1) THEN Out("space", e)
     ELSE IF e - 1 > pos THEN Out("space", e - 1)
     ELSE Goto("right") /\ UNCHANGED <<pos, start, line, startLine, inside>>

\* break and continue are keywords for the parser's lexer only.
lexIdentifier ==
  LET e == EndOf(pos, Alnum)
      keyword == e = pos + 1 /\ G(pos) \in (IF reader = "parser" THEN {"keyword", "break"} ELSE {"keyword"})
  IN /\ state = "inside" /\ G(pos) \in Alnum \ {"digit"} /\ UNCHANGED depth
     /\ IF atTerminator(e) THEN Out(IF keyword THEN "keyword" ELSE "identifier", e) ELSE Error

FieldAheadBug == G(pos + 1) \in Alnum \ {"digit"}
\* The special look-ahead after a point or an @: a field, unless it could start a number.
FieldAhead == G(pos + 1) \notin {"digit", "eof"}
lexFieldOrVariable ==
  LET e == EndOf(pos + 1, Alnum) IN
  /\ state = "inside" /\ UNCHANGED depth
  /\ \/ G(pos) = "dollar"
     \/ G(pos) \in {"dot", "at"} /\ FieldAhead
  /\ IF ~atTerminator(e) THEN Error
     ELSE Out(IF G(pos) = "dollar" THEN "variable" ELSE IF e = pos + 1 THEN "dot" ELSE "field", e)

\* The last offset of sign, digits, point, digits; nothing at all of an @.
NumberEnd ==
  LET sign == pos + (IF G(pos) = "minus" THEN 1 ELSE 0)
      digits == EndOf(sign, {"digit"})
  IN IF G(digits) = "dot" THEN EndOf(digits + 1, {"digit"}) ELSE digits
lexNumber ==
  /\ state = "inside" /\ UNCHANGED depth
  /\ \/ G(pos) \in {"minus", "digit"}
     \/ G(pos) \in {"dot", "at"} /\ ~FieldAhead
  /\ IF G(NumberEnd) \in Alnum \cup {"minus"} THEN Error ELSE Out("number", NumberEnd)

\* lexQuote, lexChar and lexRawQuote, one character or escape at a time.
QuoteType == [dquote |-> "string", squote |-> "char constant", bquote |-> "raw string"]
lexQuoted ==
  /\ state \in DOMAIN QuoteType /\ UNCHANGED depth
  /\ LET escape == G(pos) = "backslash" /\ state # "bquote"
         last   == IF escape THEN pos + 1 ELSE pos
     IN IF G(last) \in (IF state = "bquote" THEN {"eof"} ELSE {"eof", "newline"}) THEN Error
        ELSE IF G(pos) = state THEN Out(QuoteType[state], pos + 1)
        ELSE /\ pos' = last + 1 /\ line' = line + Newlines(pos, last + 1)
             /\ Goto(state) /\ UNCHANGED <<start, startLine, inside>>

Done == state = "done" /\ UNCHANGED vars

Step == \/ lexText \/ lexTextEnd \/ lexLeftDelim \/ lexComment \/ lexRightDelim \/ lexInsideAction
        \/ lexSpace \/ lexIdentifier \/ lexFieldOrVariable \/ lexNumber \/ lexQuoted
Next == Step \/ Done
Spec == Init /\ [][Next]_vars /\ WF_vars(Step)
-----------------------------------------------------------------------------
ItemType == {"text", "left", "right", "assign", "declare", "pipe", "comma", "char", "lparen", "rparen", "space",
             "keyword", "identifier", "variable", "dot", "field", "number", "string", "char constant",
             "raw string", "error", "eof"}
\* Type invariant.
TypeOK ==
  /\ reader \in Reader /\ text \in Seq(Glyph) /\ input \in {text, <<>>}
  /\ state \in {"text", "left", "comment", "right", "inside", "space", "done"} \cup DOMAIN QuoteType
  /\ start \in 0..pos /\ pos \in 0..Len(input) /\ depth \in -1..Len(text) /\ inside \in BOOLEAN
  /\ startLine \in 1..line /\ line \in 1..Len(text) + 1
  /\ items \in Seq([typ : ItemType, start : 0..Len(text), end : 0..Len(text), line : 1..Len(text) + 1])
  /\ multi \in BOOLEAN /\ cond \in Seq(0..Len(text))
  /\ body \in Seq([typ : ItemType \cup {"point"}, at : 0..Len(text)])

T(p) == IF p \in 0..Len(text) - 1 THEN text[p + 1] ELSE "eof"
Spaces(p, q) == \A r \in p..q : T(r) \in Space
\* What the lexer may skip: the marks of trimmed delimiters with the spaces they take, and
\* comments with their delimiters.
TrimMark(p) == T(p) = "minus" /\ (T(p - 1) = "left" \/ T(p + 1) = "right")
TrimmedSpace(p) ==
  \/ T(p - 1) = "minus" /\ T(p - 2) = "left"
  \/ T(p + 1) = "minus" /\ T(p + 2) = "right"
  \/ \E q \in p..Len(text) : Spaces(p, q) /\ T(q + 1) = "left" /\ T(q + 2) = "minus"
  \/ \E q \in 0..p : Spaces(q, p) /\ T(q - 1) = "right" /\ T(q - 2) = "minus"
InComment(p) == \E a \in 0..p, b \in p..Len(text) - 1 :
  /\ T(a) = "left" /\ T(b) = "right"
  /\ \E c \in {a + 1, a + 3}, d \in {b - 1, b - 3} :
       T(c) = "copen" /\ T(d) = "cclose" /\ \A r \in c..d - 1 : T(r) # "cclose"

\* Items come in the order of the text and together with what may be skipped they make up
\* all of it: nothing of a statement is lost, read twice or attributed to two items.
Tiled ==
  /\ \A k \in 1..Len(items) - 1 : items[k].end <= items[k + 1].start
  /\ state \notin {"left", "comment"} => \A p \in 0..start - 1 :
                            \/ \E k \in DOMAIN items : p \in items[k].start..items[k].end - 1
                            \/ TrimMark(p) \/ (T(p) \in Space /\ TrimmedSpace(p)) \/ InComment(p)

\* The line of every item is the line it starts on, although newlines are counted in five
\* places: by next, by backup, by ignore, for texts and for comments.
LinesTrue == \A k \in DOMAIN items :
  items[k].line = 1 + Cardinality({p \in 0..items[k].start - 1 : T(p) = "newline"})

\* What the parser's look-ahead of three tokens and its grammar rely on: a space is never
\* followed by a space, delimiters alternate with no text between them and nothing but
\* text outside, and parentheses of an action are closed in it.
NumberOf(typ, k) == Cardinality({j \in 1..k : items[j].typ = typ})
ItemsFit == \A k \in DOMAIN items :
  LET open == NumberOf("left", k) - NumberOf("right", k)
      parens == NumberOf("lparen", k) - NumberOf("rparen", k)
  IN CASE items[k].typ = "text"  -> open = 0
       [] items[k].typ = "right" -> open = 0 /\ parens = 0
       [] OTHER -> /\ open = 1 /\ parens >= 0
                   /\ items[k].typ = "space" => k > 1 /\ items[k - 1].typ # "space"

\* However an action is split at its commas, its pieces are in delimiters that alternate
\* and, without a comment in it, nothing but its commas comes to stand outside of them.
BodyDelimited == \A k \in DOMAIN body :
  LET count(typ) == Cardinality({j \in 1..k : body[j].typ = typ})
      open == count("left") - count("right")
  IN /\ open \in {0, 1}
     /\ open = 0 => body[k].typ \in {"right", "comma", "text"}

\* A text is lexed in finitely many steps, if no @ in it stands before a digit or at the
\* end: there it makes a number without any characters, again and again.
BareAt == \E p \in 0..Len(text) - 1 : T(p) = "at" /\ T(p + 1) \in {"digit", "eof"}
Terminates == ~BareAt => <>(state = "done")

\* README.md calls template functions with a field, {like .user_name}: the function keeps
\* its name.
CallsKept == \A k \in 1..Len(items) - 1 :
  /\ reader = "fieldName" /\ state = "done" /\ k > 3 /\ items[k].typ = "field"
  /\ items[k + 1].typ = "right" /\ Len(items) = k + 1 /\ items[1].typ = "left" /\ items[2].typ = "identifier" /\ items[3].typ = "space"
  => \A j \in DOMAIN body : ~(body[j].typ = "point" /\ body[j].at = items[2].start)
=============================================================================
