----------------------------- MODULE LexerProof -----------------------------
(***************************************************************************)
(* What the lexer and handleFiledName do with texts of any length.         *)
(***************************************************************************)
EXTENDS Lexer, TLAPS, FiniteSetTheorems, WellFoundedInduction

-----------------------------------------------------------------------------
\* Glyphs and newlines of a text, as functions of the text.
At(t, p) == IF p \in 0..Len(t) - 1 THEN t[p + 1] ELSE "eof"
Lines(t, a, b) == Cardinality({r \in a..b - 1 : At(t, r) = "newline"})
TrimRight(t, p) == At(t, p) \in Space /\ At(t, p + 1) = "minus" /\ At(t, p + 2) = "right"
AtRight(t, p) == TrimRight(t, p) \/ At(t, p) = "right"

Quotes == {"dquote", "squote", "bquote"}
ItemRec == [typ : ItemType, start : 0..Len(text), end : 0..Len(text), line : 1..Len(text) + 1]
PieceRec == [typ : ItemType \cup {"point"}, at : 0..Len(text)]

\* Where a lexer that goes on stands.
Standing ==
  state # "done" =>
    /\ input = text
    /\ start \in 0..pos /\ pos \in 0..Len(text) /\ depth \in 0..pos
    /\ line = 1 + Lines(text, 0, pos) /\ startLine = 1 + Lines(text, 0, start)
    /\ IF state \in Quotes THEN start < pos ELSE start = pos
    /\ inside \in BOOLEAN /\ (inside <=> state \in {"inside", "space", "right"} \cup Quotes)
    /\ state = "left" => At(text, pos) = "left"
    /\ state = "comment" => At(text, pos) = "copen"
    /\ state = "right" => AtRight(text, pos) /\ depth = 0
    /\ state = "space" => At(text, pos) \in Space /\ ~AtRight(text, pos)

\* How often a type occurs among the first k.
Count(s, typ, k) == Cardinality({j \in 1..k : s[j].typ = typ})
Open(s) == Count(s, "left", Len(s)) - Count(s, "right", Len(s))
Parens(s) == Count(s, "lparen", Len(s)) - Count(s, "rparen", Len(s))
FitInv ==
  /\ ItemsFit
  /\ state # "done" =>
       /\ Open(items) = IF inside THEN 1 ELSE 0
       /\ Parens(items) = IF inside THEN depth ELSE 0
       /\ inside => items # <<>>
       /\ items # <<>> /\ items[Len(items)].typ = "space" =>
            state # "space" /\ (state = "inside" => At(text, pos) \notin Space \/ AtRight(text, pos))
BodyInv ==
  /\ BodyDelimited
  /\ reader = "parser" => body = <<>>
  /\ state # "done" /\ reader = "fieldName" => Open(body) = IF inside THEN 1 ELSE 0

Skipped(p) == TrimMark(p) \/ (T(p) \in Space /\ TrimmedSpace(p)) \/ InComment(p)
Held(p) == (\E k \in DOMAIN items : p \in items[k].start..items[k].end - 1) \/ Skipped(p)
TileInv ==
  /\ \A k \in 1..Len(items) - 1 : items[k].end <= items[k + 1].start
  /\ state # "done" => \A k \in DOMAIN items : items[k].end <= start
  /\ state # "comment" => \A p \in 0..start - 1 : Held(p)
  /\ state = "comment" => \E a \in {start - 1, start - 3} :
                            a >= 0 /\ At(text, a) = "left" /\ \A p \in 0..a - 1 : Held(p)
-----------------------------------------------------------------------------
LEMMA LeastNat ==
  ASSUME NEW S, S \subseteq Nat, S # {}
  PROVE  \E n \in S : \A m \in S : n <= m
<1> DEFINE R == OpToRel(<, Nat)
<1>1. IsWellFoundedOn(R, Nat)
  BY NatLessThanWellFounded
<1>2. \A n, m \in Nat : n < m => <<n, m>> \in R
  BY DEF OpToRel
<1> HIDE DEF R
<1>3. PICK n \in S : \A m \in S : ~ (<<m, n>> \in R)
  BY <1>1, WFMin
<1>4. \A m \in S : ~(m < n)
  BY <1>2, <1>3
<1> QED
  BY <1>3, <1>4

\* A scan that goes on while glyphs are in a set ends somewhere.
LEMMA ScanEnds ==
  ASSUME NEW t, Len(t) \in Nat, NEW p \in 0..Len(t), NEW set
  PROVE  \E q \in p..Len(t) : (q = Len(t) \/ At(t, q) \notin set) /\ \A r \in p..q - 1 : At(t, r) \in set
<1> DEFINE S == {q \in p..Len(t) : q = Len(t) \/ At(t, q) \notin set}
<1>1. S \subseteq Nat /\ Len(t) \in S
  OBVIOUS
<1>2. PICK q \in S : \A m \in S : q <= m
  BY <1>1, LeastNat
<1>3. \A r \in p..q - 1 : At(t, r) \in set
  BY <1>2
<1> QED
  BY <1>2, <1>3

\* The same backwards, over spaces.
LEMMA TrimEnds ==
  ASSUME NEW t, NEW a \in Nat, NEW x \in Nat, a <= x
  PROVE  \E q \in a..x : (q = a \/ At(t, q - 1) \notin Space) /\ \A r \in q..x - 1 : At(t, r) \in Space
<1> DEFINE S == {q \in a..x : \A r \in q..x - 1 : At(t, r) \in Space}
<1>1. S \subseteq Nat /\ x \in S
  OBVIOUS
<1>2. PICK q \in S : \A m \in S : q <= m
  BY <1>1, LeastNat
<1>3. q = a \/ At(t, q - 1) \notin Space
  <2> SUFFICES ASSUME q # a, At(t, q - 1) \in Space PROVE FALSE
    OBVIOUS
  <2>1. q - 1 \in a..x /\ \A r \in q - 1..x - 1 : r = q - 1 \/ r \in q..x - 1
    BY <1>2
  <2>2. q - 1 \in S
    BY <1>2, <2>1
  <2> QED BY <1>2, <2>2
<1> QED
  BY <1>2, <1>3

\* Newlines are counted piece by piece.
LEMMA LinesType ==
  ASSUME NEW t, NEW a \in Int, NEW b \in Int, a <= b
  PROVE  Lines(t, a, b) \in 0..b - a
<1> DEFINE S == {r \in a..b - 1 : At(t, r) = "newline"}
<1>1. IsFiniteSet(a..b - 1) /\ Cardinality(a..b - 1) = b - a
  <2>1. b - 1 \in Int
    OBVIOUS
  <2>2. IsFiniteSet(a..b - 1) /\ Cardinality(a..b - 1) = IF a > b - 1 THEN 0 ELSE b - 1 - a + 1
    BY <2>1, FS_Interval
  <2> QED BY <2>2
<1>2. S \in SUBSET (a..b - 1)
  OBVIOUS
<1>3. IsFiniteSet(S) /\ Cardinality(S) <= b - a
  BY <1>1, <1>2, FS_Subset
<1>4. Cardinality(S) \in Nat
  BY <1>3, FS_CardinalityType
<1> QED
  BY <1>3, <1>4 DEF Lines

LEMMA LinesAdd ==
  ASSUME NEW t, NEW a \in Int, NEW b \in Int, NEW c \in Int, a <= b, b <= c
  PROVE  Lines(t, a, b) + Lines(t, b, c) = Lines(t, a, c)
<1> DEFINE S == {r \in a..b - 1 : At(t, r) = "newline"}
           U == {r \in b..c - 1 : At(t, r) = "newline"}
           W == {r \in a..c - 1 : At(t, r) = "newline"}
<1>1. IsFiniteSet(a..b - 1) /\ IsFiniteSet(b..c - 1)
  BY FS_Interval
<1>2. IsFiniteSet(S) /\ IsFiniteSet(U)
  BY <1>1, FS_Subset
<1>3. Cardinality(S) \in Nat /\ Cardinality(U) \in Nat
  BY <1>2, FS_CardinalityType
<1>4. S \cap U = {}
  OBVIOUS
<1>5. S \cup U = W
  OBVIOUS
<1>6. Cardinality(S \cap U) = 0
  BY <1>4, FS_EmptySet
<1> HIDE DEF S, U, W
<1>7. Cardinality(W) = Cardinality(S) + Cardinality(U) - Cardinality(S \cap U)
  BY <1>2, <1>5, FS_Union
<1> QED
  BY <1>3, <1>6, <1>7 DEF Lines, S, U, W

LEMMA LinesNone ==
  ASSUME NEW t, NEW a \in Int
  PROVE  Lines(t, a, a) = 0 /\ (At(t, a) # "newline" => Lines(t, a, a + 1) = 0)
<1>1. {r \in a..a - 1 : At(t, r) = "newline"} = {}
  OBVIOUS
<1>2. At(t, a) # "newline" => {r \in a..(a + 1) - 1 : At(t, r) = "newline"} = {}
  OBVIOUS
<1> QED
  BY <1>1, <1>2, FS_EmptySet DEF Lines

\* Items and pieces are counted one by one.
LEMMA CountNext ==
  ASSUME NEW s, NEW typ, NEW k \in Nat
  PROVE  /\ Count(s, typ, 0) = 0
         /\ Count(s, typ, k) \in Nat
         /\ s[k + 1].typ = typ => Count(s, typ, k + 1) = Count(s, typ, k) + 1
         /\ s[k + 1].typ # typ => Count(s, typ, k + 1) = Count(s, typ, k)
<1> DEFINE C(n) == {j \in 1..n : s[j].typ = typ}
<1>0. /\ Count(s, typ, 0) = Cardinality(C(0)) /\ Count(s, typ, k) = Cardinality(C(k))
      /\ Count(s, typ, k + 1) = Cardinality(C(k + 1))
  BY DEF Count
<1>1. C(0) = {}
  OBVIOUS
<1>2. IsFiniteSet(1..k)
  BY FS_Interval
<1>3. IsFiniteSet(C(k)) /\ k + 1 \notin C(k)
  BY <1>2, FS_Subset
<1>4. Cardinality(C(k)) \in Nat
  BY <1>3, FS_CardinalityType
<1>5. CASE s[k + 1].typ = typ
  <2>1. C(k + 1) = C(k) \cup {k + 1}
    BY <1>5
  <2> HIDE DEF C
  <2>2. Cardinality(C(k + 1)) = Cardinality(C(k)) + 1
    BY <1>3, <2>1, FS_AddElement
  <2> QED BY <1>0, <1>1, <1>4, <1>5, <2>2, FS_EmptySet
<1>6. CASE s[k + 1].typ # typ
  <2>1. C(k + 1) = C(k)
    BY <1>6
  <2> HIDE DEF C
  <2> QED BY <1>0, <1>1, <1>4, <1>6, <2>1, FS_EmptySet
<1> QED
  BY <1>5, <1>6

LEMMA CountSame ==
  ASSUME NEW s, NEW u, NEW typ, NEW k \in Nat, \A j \in 1..k : s[j].typ = u[j].typ
  PROVE  Count(s, typ, k) = Count(u, typ, k)
<1>1. {j \in 1..k : s[j].typ = typ} = {j \in 1..k : u[j].typ = typ}
  OBVIOUS
<1> QED
  BY <1>1 DEF Count

LEMMA CountAppend ==
  ASSUME NEW S, NEW s \in Seq(S), NEW x, NEW typ
  PROVE  LET u == Append(s, x) IN
         /\ \A k \in 0..Len(s) : Count(u, typ, k) = Count(s, typ, k)
         /\ x.typ = typ => Count(u, typ, Len(u)) = Count(s, typ, Len(s)) + 1
         /\ x.typ # typ => Count(u, typ, Len(u)) = Count(s, typ, Len(s))
         /\ Count(s, typ, Len(s)) \in Nat
<1> DEFINE u == Append(s, x)
           n == Len(s)
<1>1. n \in Nat /\ Len(u) = n + 1 /\ u[n + 1] = x /\ \A j \in 1..n : u[j] = s[j]
  OBVIOUS
<1> HIDE DEF u, n
<1>2. \A k \in 0..n : Count(u, typ, k) = Count(s, typ, k)
  <2> TAKE k \in 0..n
  <2>1. k \in Nat /\ \A j \in 1..k : u[j].typ = s[j].typ
    BY <1>1
  <2> QED BY <2>1, CountSame
<1>3. /\ u[n + 1].typ = typ => Count(u, typ, n + 1) = Count(u, typ, n) + 1
      /\ u[n + 1].typ # typ => Count(u, typ, n + 1) = Count(u, typ, n)
  BY <1>1, CountNext
<1>4. Count(s, typ, n) \in Nat
  BY <1>1, CountNext
<1>5. Count(u, typ, n) = Count(s, typ, n)
  BY <1>1, <1>2
<1>6. /\ x.typ = typ => Count(u, typ, Len(u)) = Count(s, typ, n) + 1
      /\ x.typ # typ => Count(u, typ, Len(u)) = Count(s, typ, n)
  BY <1>1, <1>3, <1>5
<1> QED
  BY <1>2, <1>4, <1>6 DEF u, n
-----------------------------------------------------------------------------
\* While the lexer goes on, its input is the text.
LEMMA Seen ==
  ASSUME input = text, text \in Seq(Glyph)
  PROVE  /\ \A p : G(p) = At(text, p) /\ T(p) = At(text, p)
         /\ \A p, q : Newlines(p, q) = Lines(text, p, q)
         /\ \A p : hasRightTrimMarker(p) <=> TrimRight(text, p)
         /\ \A p : atRightDelim(p) <=> AtRight(text, p)
         /\ Len(text) \in Nat
<1>1. \A p : G(p) = At(text, p) /\ T(p) = At(text, p)
  BY DEF G, T, At
<1>2. \A p, q : Newlines(p, q) = Lines(text, p, q)
  <2> TAKE p, q
  <2>1. {r \in p..q - 1 : G(r) = "newline"} = {r \in p..q - 1 : At(text, r) = "newline"}
    BY <1>1
  <2> QED BY <2>1 DEF Newlines, Lines
<1>3. \A p : hasRightTrimMarker(p) <=> TrimRight(text, p)
  BY <1>1 DEF hasRightTrimMarker, TrimRight
<1>4. \A p : atRightDelim(p) <=> AtRight(text, p)
  BY <1>1, <1>3 DEF atRightDelim, AtRight
<1> QED
  BY <1>1, <1>2, <1>3, <1>4

LEMMA GlyphAt ==
  ASSUME text \in Seq(Glyph)
  PROVE  /\ \A p \in Int : At(text, p) # "eof" => p \in 0..Len(text) - 1
         /\ \A p \in 0..Len(text) - 1 : At(text, p) \in Glyph
  BY DEF At

LEMMA EndOfFacts ==
  ASSUME input = text, text \in Seq(Glyph), NEW p \in 0..Len(text), NEW set
  PROVE  LET q == EndOf(p, set) IN
         /\ q \in p..Len(text)
         /\ q = Len(text) \/ At(text, q) \notin set
         /\ \A r \in p..q - 1 : At(text, r) \in set
<1> DEFINE Ends(q) == (q = Len(input) \/ G(q) \notin set) /\ \A r \in p..q - 1 : G(r) \in set
<1>1. \A q \in p..Len(text) : Ends(q) <=>
         (q = Len(text) \/ At(text, q) \notin set) /\ \A r \in p..q - 1 : At(text, r) \in set
  BY Seen
<1>2. Len(text) \in Nat
  BY Seen
<1>3. \E q \in p..Len(text) : Ends(q)
  BY <1>1, <1>2, ScanEnds
<1>4. EndOf(p, set) = CHOOSE q \in p..Len(input) : Ends(q)
  BY DEF EndOf
<1> HIDE DEF Ends
<1>5. EndOf(p, set) \in p..Len(text) /\ Ends(EndOf(p, set))
  BY <1>3, <1>4
<1> QED
  BY <1>1, <1>5

LEMMA FindFacts ==
  ASSUME input = text, text \in Seq(Glyph), NEW p \in 0..Len(text), NEW g
  PROVE  LET q == Find(p, {g}) IN
         /\ q \in p..Len(text)
         /\ q # Len(text) => At(text, q) = g
         /\ \A r \in p..q - 1 : At(text, r) # g
<1> DEFINE q == Find(p, {g})
<1>1. q = EndOf(p, Glyph \ {g})
  BY DEF Find
<1> HIDE DEF q
<1>2. /\ q \in p..Len(text)
      /\ q = Len(text) \/ At(text, q) \notin Glyph \ {g}
      /\ \A r \in p..q - 1 : At(text, r) \in Glyph \ {g}
  BY <1>1, EndOfFacts
<1>3. q # Len(text) => q \in 0..Len(text) - 1
  BY <1>2, Seen
<1>4. q # Len(text) => At(text, q) \in Glyph
  BY <1>3, GlyphAt
<1> QED
  BY <1>2, <1>4 DEF q

LEMMA TrimmedEndFacts ==
  ASSUME input = text, text \in Seq(Glyph), start \in Nat, NEW x \in Nat, start <= x
  PROVE  LET q == TrimmedEnd(x) IN
         q \in start..x /\ \A r \in q..x - 1 : At(text, r) \in Space
<1> DEFINE Ends(q) == (q = start \/ G(q - 1) \notin Space) /\ \A r \in q..x - 1 : G(r) \in Space
<1>1. \A q \in start..x : Ends(q) <=>
         (q = start \/ At(text, q - 1) \notin Space) /\ \A r \in q..x - 1 : At(text, r) \in Space
  BY Seen
<1>2. \E q \in start..x : Ends(q)
  BY <1>1, TrimEnds
<1>3. TrimmedEnd(x) = CHOOSE q \in start..x : Ends(q)
  BY DEF TrimmedEnd
<1> HIDE DEF Ends
<1>4. TrimmedEnd(x) \in start..x /\ Ends(TrimmedEnd(x))
  BY <1>2, <1>3
<1> QED
  BY <1>1, <1>4
-----------------------------------------------------------------------------
\* The forms of a step: it emits an item, is an error, or only moves on.
LineAt(p) == 1 + Lines(text, 0, p)
Inner == ItemType \ {"text", "left", "right", "error", "eof"}
Fits(i) ==
  \/ i.typ = "text" /\ ~inside /\ ~inside' /\ depth' = depth
  \/ i.typ = "eof" /\ i.end = i.start /\ ~inside /\ ~inside'
  \/ i.typ = "left" /\ i.end > i.start /\ ~inside /\ inside' /\ depth' = 0
  \/ i.typ = "right" /\ i.end > i.start /\ inside /\ ~inside' /\ depth = 0 /\ depth' = 0
  \/ /\ i.typ \in Inner /\ inside /\ inside' /\ i.start = start /\ i.end = pos'
     /\ i.typ \in {"lparen", "rparen"} => i.end > i.start
     /\ i.typ = "lparen" => depth' = depth + 1
     /\ i.typ = "rparen" => depth' = depth - 1
     /\ i.typ \notin {"lparen", "rparen"} => depth' = depth
     /\ i.typ = "space" => state = "space" /\ (At(text, pos') \notin Space \/ AtRight(text, pos'))
Emits(i) ==
  /\ UNCHANGED <<text, reader, input>> /\ state # "comment"
  /\ i \in ItemRec /\ i.typ # "error"
  /\ start <= i.start /\ i.start <= i.end /\ i.end <= pos' /\ pos' \in 0..Len(text) /\ pos <= pos'
  /\ start' = pos' /\ line' = LineAt(pos') /\ startLine' = line'
  /\ i.line = LineAt(i.start)
  /\ \A p \in start..pos' - 1 : p \in i.start..i.end - 1 \/ Skipped(p)
  /\ inside' \in BOOLEAN /\ depth' \in 0..pos'
  /\ Fits(i)
  /\ Emit(i)
Fails ==
  /\ UNCHANGED <<text, reader, line, startLine, inside, items, multi, cond, body>>
  /\ input' = <<>> /\ pos' = 0 /\ start' = 0 /\ state' = "done"
  /\ depth' \in {depth, depth - 1}
Moves ==
  /\ UNCHANGED <<text, reader, input, inside, depth, items, multi, cond, body>>
  /\ state' \notin {"done", "inside"} /\ start <= start' /\ Standing'
  /\ state' \in {"text", "left", "comment", "right", "space"} \cup Quotes
  /\ state' = "space" => state = "inside" /\ At(text, pos) \in Space /\ ~AtRight(text, pos)
  /\ state = "comment" =>
       /\ state' # "comment"
       /\ \A a \in {start - 1, start - 3} : a >= 0 /\ At(text, a) = "left" => \A p \in a..start' - 1 : Skipped(p)
  /\ state' = "comment" => start \in {start' - 1, start' - 3} /\ At(text, start) = "left"
  /\ state # "comment" /\ state' # "comment" => \A p \in start..start' - 1 : Skipped(p)
Form == (\E i : Emits(i)) \/ Fails \/ Moves
Live == text \in Seq(Glyph) /\ Standing /\ state # "done"

LEMMA ErrorForm ==
  ASSUME Error, start \in Int, depth' \in {depth, depth - 1}
  PROVE  Form
<1>1. Fails
  BY DEF Error, Fails, Emit, Item, reading
<1> QED
  BY <1>1 DEF Form

\* An item of what was read from its start on.
LEMMA OutForm ==
  ASSUME Live, state # "comment", NEW typ \in ItemType \ {"error"}, NEW p \in pos..Len(text), Out(typ, p),
         depth' \in 0..p, Fits(Item(typ, start, p, startLine))
  PROVE  Form
<1> DEFINE i == Item(typ, start, p, startLine)
<1>1. /\ input = text /\ start \in 0..pos /\ pos \in 0..Len(text) /\ Len(text) \in Nat
      /\ line = LineAt(pos) /\ startLine = LineAt(start) /\ inside \in BOOLEAN
  BY Seen DEF Live, Standing, LineAt
<1>2. /\ pos' = p /\ start' = p /\ line' = line + Newlines(pos, p) /\ startLine' = line'
      /\ UNCHANGED <<text, reader, input, inside>> /\ Emit(i)
  BY DEF Out, MoveTo, reading
<1>3. line' = LineAt(p)
  <2>1. line' = line + Lines(text, pos, p)
    BY <1>1, <1>2, Seen DEF Live
  <2>2. Lines(text, 0, pos) + Lines(text, pos, p) = Lines(text, 0, p)
    BY <1>1, LinesAdd
  <2>3. Lines(text, 0, pos) \in Nat /\ Lines(text, pos, p) \in Nat
    BY <1>1, LinesType
  <2> QED BY <1>1, <2>1, <2>2, <2>3 DEF LineAt
<1>4. i \in ItemRec
  <2>1. Lines(text, 0, start) \in 0..start
    BY <1>1, LinesType
  <2> QED BY <1>1, <2>1 DEF Item, ItemRec, LineAt
<1>5. i.typ # "error" /\ i.start = start /\ i.end = p /\ i.line = startLine
  BY DEF Item
<1> HIDE DEF i
<1>6. Fits(i)
  BY DEF i
<1>7. Emits(i)
  BY <1>1, <1>2, <1>3, <1>4, <1>5, <1>6 DEF Emits
<1> QED
  BY <1>7 DEF Form

LEMMA LiveFacts ==
  ASSUME Live
  PROVE  /\ input = text /\ text \in Seq(Glyph) /\ Len(text) \in Nat /\ Len(input) = Len(text)
         /\ start \in 0..pos /\ pos \in 0..Len(text) /\ depth \in 0..pos
         /\ line = LineAt(pos) /\ startLine = LineAt(start) /\ inside \in BOOLEAN
         /\ state \notin Quotes => start = pos
         /\ inside <=> state \in {"inside", "space", "right"} \cup Quotes
         /\ DOMAIN QuoteType = Quotes
<1>1. DOMAIN QuoteType = Quotes
  BY DEF QuoteType, Quotes
<1> QED
  BY <1>1, Seen DEF Live, Standing, LineAt

\* The line after moving from the start of an item.
LEMMA LineMoves ==
  ASSUME NEW a \in Nat, NEW b \in Nat, a <= b
  PROVE  /\ LineAt(a) + Lines(text, a, b) = LineAt(b)
         /\ LineAt(a) \in 1..a + 1
<1>1. Lines(text, 0, a) + Lines(text, a, b) = Lines(text, 0, b)
  BY LinesAdd
<1>2. Lines(text, 0, a) \in 0..a /\ Lines(text, a, b) \in Nat
  BY LinesType
<1> QED
  BY <1>1, <1>2 DEF LineAt

LEMMA StartLine ==
  ASSUME Live
  PROVE  startLine \in 1..Len(text) + 1 /\ start \in 0..Len(text)
<1>1. start \in Nat /\ start <= Len(text)
  BY LiveFacts
<1>2. LineAt(start) \in 1..start + 1
  BY <1>1, LineMoves
<1> QED
  BY <1>1, <1>2, LiveFacts

\* Where the lexer stands after a step.
LEMMA StandingNext ==
  ASSUME text' = text, input' = text, pos' \in 0..Len(text), start' \in 0..pos', depth' \in 0..pos',
         line' = LineAt(pos'), startLine' = LineAt(start'),
         IF state' \in Quotes THEN start' < pos' ELSE start' = pos',
         inside' \in BOOLEAN, inside' <=> state' \in {"inside", "space", "right"} \cup Quotes,
         state' = "left" => At(text, pos') = "left",
         state' = "comment" => At(text, pos') = "copen",
         state' = "right" => AtRight(text, pos') /\ depth' = 0,
         state' = "space" => At(text, pos') \in Space /\ ~AtRight(text, pos')
  PROVE  Standing'
  BY DEF Standing, LineAt

LEMMA TextEndForm ==
  ASSUME Live, lexTextEnd
  PROVE  Form
<1> DEFINE typ == IF Len(text) > start THEN "text" ELSE "eof"
           p == Len(text)
<1>1. Out(typ, p) /\ depth' = depth /\ state = "text"
  BY LiveFacts DEF lexTextEnd
<1>2. typ \in ItemType \ {"error"} /\ p \in pos..Len(text) /\ depth' \in 0..p
  BY <1>1, LiveFacts DEF ItemType
<1>3. ~inside /\ inside' = inside
  BY <1>1, LiveFacts DEF Out, Quotes
<1>4. Fits(Item(typ, start, p, startLine))
  BY <1>1, <1>3, LiveFacts DEF Fits, Item
<1> HIDE DEF typ, p
<1> QED
  BY <1>1, <1>2, <1>4, OutForm

\* Spaces before a left delimiter with a trim mark are skipped, and so are those behind a
\* right one.
LEMMA SkipBefore ==
  ASSUME text \in Seq(Glyph), NEW a \in Nat, NEW x \in 0..Len(text),
         \A r \in a..x - 1 : At(text, r) \in Space,
         At(text, x) = "left", At(text, x + 1) = "minus"
  PROVE  \A p \in a..x - 1 : Skipped(p)
<1> TAKE p \in a..x - 1
<1>1. \A q : T(q) = At(text, q)
  BY DEF T, At
<1>2. x - 1 \in p..Len(text) /\ x - 1 + 1 = x /\ x - 1 + 2 = x + 1 /\ \A r \in p..x - 1 : r \in a..x - 1
  OBVIOUS
<1>3. Spaces(p, x - 1)
  BY <1>1, <1>2 DEF Spaces
<1>4. TrimmedSpace(p)
  BY <1>1, <1>2, <1>3 DEF TrimmedSpace
<1> QED
  BY <1>1, <1>4 DEF Skipped

LEMMA SkipAfter ==
  ASSUME text \in Seq(Glyph), NEW x \in Nat, NEW e \in Nat, NEW z \in Nat, NEW y \in Nat,
         x - 1 = z, x - 2 = y, At(text, z) = "right", At(text, y) = "minus",
         \A r \in x..e - 1 : At(text, r) \in Space
  PROVE  \A p \in x..e - 1 : Skipped(p)
<1> TAKE p \in x..e - 1
<1>1. \A q : T(q) = At(text, q)
  BY DEF T, At
<1>2. x \in 0..p /\ \A r \in x..p : r \in x..e - 1
  OBVIOUS
<1>3. Spaces(x, p)
  BY <1>1, <1>2 DEF Spaces
<1>4. TrimmedSpace(p)
  BY <1>1, <1>2, <1>3 DEF TrimmedSpace
<1> QED
  BY <1>1, <1>4 DEF Skipped

LEMMA SkipMark ==
  ASSUME NEW p \in Nat, At(text, p) = "left", At(text, p + 1) = "minus", At(text, p + 2) \in Space
  PROVE  Skipped(p + 1) /\ Skipped(p + 2)
<1>1. p + 1 - 1 = p /\ p + 2 - 1 = p + 1 /\ p + 2 - 2 = p
  OBVIOUS
<1>2. T(p) = "left" /\ T(p + 1) = "minus" /\ T(p + 2) \in Space
  BY DEF T, At
<1>3. TrimMark(p + 1)
  BY <1>1, <1>2 DEF TrimMark
<1>4. TrimmedSpace(p + 2)
  BY <1>1, <1>2 DEF TrimmedSpace
<1> QED
  BY <1>2, <1>3, <1>4 DEF Skipped

LEMMA SkipRight ==
  ASSUME NEW p \in Nat, At(text, p) \in Space, At(text, p + 1) = "minus", At(text, p + 2) = "right"
  PROVE  Skipped(p) /\ Skipped(p + 1)
<1>1. p + 1 + 1 = p + 2
  OBVIOUS
<1>2. T(p) \in Space /\ T(p + 1) = "minus" /\ T(p + 2) = "right"
  BY DEF T, At
<1>3. TrimMark(p + 1)
  BY <1>1, <1>2 DEF TrimMark
<1>4. TrimmedSpace(p)
  BY <1>2 DEF TrimmedSpace
<1> QED
  BY <1>2, <1>3, <1>4 DEF Skipped

LEMMA TextForm ==
  ASSUME Live, lexText
  PROVE  Form
<1> DEFINE x == Find(pos, {"left"})
           trim == hasLeftTrimMarker(x + 1)
           cut == IF trim THEN TrimmedEnd(x) ELSE x
           i == Item("text", start, cut, startLine)
<1>1. /\ state = "text" /\ x < Len(text) /\ MoveTo(x, line + Newlines(start, x)) /\ depth' = depth
      /\ cut > start => UNCHANGED <<inside, text, reader, input>> /\ Emit(i)
      /\ ~(cut > start) => Goto("left") /\ UNCHANGED inside
  BY LiveFacts DEF lexText, reading
<1>2. start = pos /\ ~inside
  BY <1>1, LiveFacts DEF Quotes
<1>3. x \in pos..Len(text) /\ At(text, x) = "left" /\ x \in Nat
  <2>1. input = text /\ text \in Seq(Glyph) /\ pos \in 0..Len(text)
    BY LiveFacts
  <2>2. x \in pos..Len(text) /\ (x # Len(text) => At(text, x) = "left")
    BY <2>1, FindFacts
  <2> HIDE DEF x
  <2> QED BY <1>1, <2>1, <2>2, LiveFacts
<1>4. trim => At(text, x + 1) = "minus"
  BY LiveFacts, Seen DEF hasLeftTrimMarker
<1>5. cut \in start..x /\ \A r \in cut..x - 1 : trim /\ At(text, r) \in Space
  <2>1. CASE trim
    BY <1>2, <1>3, <2>1, LiveFacts, TrimmedEndFacts
  <2>2. CASE ~trim
    BY <1>2, <1>3, <2>2, LiveFacts
  <2> QED BY <2>1, <2>2
<1> HIDE DEF x, trim, cut
<1>6. \A p \in cut..x - 1 : Skipped(p)
  <2>1. CASE trim
    BY <1>3, <1>4, <1>5, <2>1, LiveFacts, SkipBefore
  <2>2. CASE ~trim
    BY <1>5, <2>2
  <2> QED BY <2>1, <2>2
<1>7. pos' = x /\ start' = x /\ line' = LineAt(x) /\ startLine' = line'
  <2>1. Newlines(start, x) = Lines(text, start, x)
    BY LiveFacts, Seen
  <2> QED BY <1>1, <1>2, <1>3, <2>1, LiveFacts, LineMoves DEF MoveTo
<1>8. CASE cut > start
  <2>1. i \in ItemRec /\ i.typ = "text" /\ i.start = start /\ i.end = cut /\ i.line = LineAt(start)
    <3>1. startLine \in 1..Len(text) + 1 /\ start \in 0..Len(text) /\ cut \in 0..Len(text)
      BY <1>3, <1>5, LiveFacts, StartLine
    <3> QED BY <3>1, LiveFacts DEF Item, ItemRec, ItemType
  <2> HIDE DEF i
  <2>2. Fits(i)
    BY <1>1, <1>2, <1>8, <2>1 DEF Fits
  <2>3. \A p \in start..x - 1 : p \in start..cut - 1 \/ Skipped(p)
    BY <1>3, <1>5, <1>6, LiveFacts
  <2>4. Emits(i)
    BY <1>1, <1>2, <1>3, <1>5, <1>7, <1>8, <2>1, <2>2, <2>3, LiveFacts DEF Emits
  <2> QED BY <2>4 DEF Form
<1>9. CASE ~(cut > start)
  <2>1. cut = start /\ \A p \in start..x - 1 : Skipped(p)
    BY <1>3, <1>5, <1>6, <1>9, LiveFacts
  <2>2. /\ state' = "left" /\ inside' = inside
        /\ UNCHANGED <<text, reader, input, items, multi, cond, body>>
    BY <1>1, <1>9 DEF Goto, reading
  <2>3. Standing'
    BY <1>1, <1>2, <1>3, <1>7, <2>2, LiveFacts, StandingNext DEF Quotes
  <2>4. Moves
    BY <1>1, <1>2, <1>3, <1>7, <2>1, <2>2, <2>3, LiveFacts DEF Moves
  <2> QED BY <2>4 DEF Form
<1> QED
  BY <1>8, <1>9

LEMMA LeftDelimForm ==
  ASSUME Live, lexLeftDelim
  PROVE  Form
<1> DEFINE trim == hasLeftTrimMarker(pos + 1)
           after == pos + 1 + (IF trim THEN 2 ELSE 0)
           i == Item("left", start, pos + 1, startLine)
<1>1. /\ state = "left" /\ MoveTo(after, line + Newlines(start, after))
      /\ G(after) = "copen" => Goto("comment") /\ UNCHANGED <<depth, inside>>
      /\ G(after) # "copen" => depth' = 0 /\ inside' = TRUE /\ UNCHANGED <<text, reader, input>> /\ Emit(i)
  BY DEF lexLeftDelim, reading
<1>2. start = pos /\ ~inside /\ At(text, pos) = "left"
  BY <1>1, LiveFacts DEF Quotes, Live, Standing
<1>3. pos \in 0..Len(text) - 1
  BY <1>2, LiveFacts, GlyphAt
<1>4. trim => At(text, pos + 1) = "minus" /\ At(text, pos + 2) \in Space
  <2>1. pos + 1 + 1 = pos + 2
    BY LiveFacts
  <2> QED BY <2>1, LiveFacts, Seen DEF hasLeftTrimMarker
<1>5. trim => pos + 2 \in 0..Len(text) - 1
  BY <1>3, <1>4, LiveFacts, GlyphAt DEF Space
<1>6. after \in pos + 1..Len(text) /\ after \in {pos + 1, pos + 3} /\ (after = pos + 3 => trim)
  BY <1>3, <1>5, LiveFacts
<1> HIDE DEF trim, after
<1>7. pos' = after /\ start' = after /\ line' = LineAt(after) /\ startLine' = line'
  <2>1. Newlines(start, after) = Lines(text, start, after)
    BY LiveFacts, Seen
  <2> QED BY <1>1, <1>2, <1>6, <2>1, LiveFacts, LineMoves DEF MoveTo
<1>8. CASE G(after) = "copen"
  <2>1. /\ state' = "comment" /\ inside' = inside /\ depth' = depth /\ At(text, after) = "copen"
        /\ UNCHANGED <<text, reader, input, items, multi, cond, body>>
    BY <1>1, <1>8, LiveFacts, Seen DEF Goto, reading
  <2>2. /\ pos' \in 0..Len(text) /\ start' \in 0..pos' /\ depth' \in 0..pos'
        /\ line' = LineAt(pos') /\ startLine' = LineAt(start')
        /\ inside' \in BOOLEAN /\ ~inside'
    BY <1>2, <1>6, <1>7, <2>1, LiveFacts
  <2>a. Standing'
    BY <1>7, <2>1, <2>2, LiveFacts, StandingNext DEF Quotes
  <2>3. start \in {start' - 1, start' - 3} /\ At(text, start) = "left"
    BY <1>2, <1>6, <1>7, LiveFacts
  <2>4. Moves
    BY <1>1, <1>2, <1>6, <1>7, <2>1, <2>a, <2>3, LiveFacts DEF Moves
  <2> QED BY <2>4 DEF Form
<1>9. CASE G(after) # "copen"
  <2>1. i \in ItemRec /\ i.typ = "left" /\ i.start = start /\ i.end = pos + 1 /\ i.line = LineAt(start)
    <3>1. startLine \in 1..Len(text) + 1 /\ start \in 0..Len(text) /\ pos + 1 \in 0..Len(text)
      BY <1>3, LiveFacts, StartLine
    <3> QED BY <3>1, LiveFacts DEF Item, ItemRec, ItemType
  <2> HIDE DEF i
  <2>2. Fits(i)
    BY <1>1, <1>2, <1>9, <2>1, LiveFacts DEF Fits
  <2>3. \A p \in start..after - 1 : p \in start..pos \/ (trim /\ p \in {pos + 1, pos + 2})
    BY <1>2, <1>6, LiveFacts
  <2>4. trim => Skipped(pos + 1) /\ Skipped(pos + 2)
    BY <1>2, <1>4, LiveFacts, SkipMark
  <2>5. \A p \in start..after - 1 : p \in i.start..i.end - 1 \/ Skipped(p)
    BY <2>1, <2>3, <2>4, LiveFacts
  <2>6. Emits(i)
    BY <1>1, <1>2, <1>6, <1>7, <1>9, <2>1, <2>2, <2>5, LiveFacts DEF Emits
  <2> QED BY <2>6 DEF Form
<1> QED
  BY <1>8, <1>9

LEMMA SkipComment ==
  ASSUME NEW a \in Nat, NEW b \in 0..Len(text) - 1, NEW c \in {a + 1, a + 3}, NEW d \in {b - 1, b - 3},
         At(text, a) = "left", At(text, b) = "right", At(text, c) = "copen", At(text, d) = "cclose",
         \A r \in c..d - 1 : At(text, r) # "cclose"
  PROVE  \A p \in a..b : Skipped(p)
<1> TAKE p \in a..b
<1>1. \A q : T(q) = At(text, q)
  BY DEF T, At
<1>2. a \in 0..p /\ b \in p..Len(text) - 1
  OBVIOUS
<1>3. InComment(p)
  BY <1>1, <1>2 DEF InComment
<1> QED
  BY <1>3 DEF Skipped

LEMMA CommentForm ==
  ASSUME Live, lexComment
  PROVE  Form
<1> DEFINE close == Find(pos + 1, {"cclose"})
           delim == close + 1
           trim == hasRightTrimMarker(delim)
           e == IF trim THEN EndOf(delim + 3, Space) ELSE delim + 1
<1>1. /\ state = "comment" /\ depth' = depth
      /\ close = Len(text) \/ ~atRightDelim(delim) => Error
      /\ ~(close = Len(text) \/ ~atRightDelim(delim)) =>
           /\ MoveTo(e, line + Newlines(start, delim) + Newlines(delim, e))
           /\ Goto("text") /\ UNCHANGED inside
  BY LiveFacts DEF lexComment
<1>2. start = pos /\ ~inside /\ At(text, pos) = "copen"
  BY <1>1, LiveFacts DEF Quotes, Live, Standing
<1>3. pos \in 0..Len(text) - 1 /\ pos + 1 \in 0..Len(text)
  BY <1>2, LiveFacts, GlyphAt
<1>4. /\ close \in pos + 1..Len(text)
      /\ close # Len(text) => At(text, close) = "cclose"
      /\ \A r \in pos + 1..close - 1 : At(text, r) # "cclose"
  BY <1>3, LiveFacts, FindFacts
<1>5. trim <=> TrimRight(text, delim)
  BY LiveFacts, Seen
<1>6. atRightDelim(delim) <=> AtRight(text, delim)
  BY LiveFacts, Seen
<1> HIDE DEF close
<1>7. CASE close = Len(text) \/ ~atRightDelim(delim)
  BY <1>1, <1>7, ErrorForm, LiveFacts
<1>8. CASE close # Len(text) /\ atRightDelim(delim)
  <2>1. close \in pos + 1..Len(text) - 1 /\ delim \in Nat /\ delim = close + 1
    <3>1. pos \in Nat /\ Len(text) \in Nat
      BY LiveFacts
    <3>2. close # Len(text) /\ close \in pos + 1..Len(text)
      BY <1>4, <1>8
    <3> QED BY <3>1, <3>2
  <2>2. trim => /\ At(text, delim) \in Space /\ At(text, delim + 1) = "minus" /\ At(text, delim + 2) = "right"
                /\ delim + 2 \in 0..Len(text) - 1 /\ delim + 3 \in 0..Len(text)
    <3>1. delim + 1 \in Int /\ delim + 2 \in Int
      BY <2>1
    <3>2. trim => At(text, delim) \in Space /\ At(text, delim + 1) = "minus" /\ At(text, delim + 2) = "right"
      BY <1>5 DEF TrimRight
    <3>3. trim => delim + 2 \in 0..Len(text) - 1
      BY <3>1, <3>2, LiveFacts, GlyphAt
    <3> QED BY <2>1, <3>2, <3>3, LiveFacts
  <2>3. ~trim => At(text, delim) = "right" /\ delim \in 0..Len(text) - 1
    <3>1. ~trim => At(text, delim) = "right"
      BY <1>5, <1>6, <1>8 DEF AtRight
    <3> QED BY <2>1, <3>1, LiveFacts, GlyphAt
  <2>4. /\ trim => e \in delim + 3..Len(text) /\ \A r \in delim + 3..e - 1 : At(text, r) \in Space
        /\ ~trim => e = delim + 1
    <3>1. trim => e = EndOf(delim + 3, Space)
      OBVIOUS
    <3>2. trim => e \in delim + 3..Len(text) /\ \A r \in delim + 3..e - 1 : At(text, r) \in Space
      BY <2>2, <3>1, LiveFacts, EndOfFacts
    <3> QED BY <3>2
  <2> HIDE DEF trim, e, delim
  <2>5. e \in delim + 1..Len(text)
    BY <2>1, <2>2, <2>3, <2>4, LiveFacts
  <2>6. pos' = e /\ start' = e /\ line' = LineAt(e) /\ startLine' = line'
    <3>1. Newlines(start, delim) = Lines(text, start, delim) /\ Newlines(delim, e) = Lines(text, delim, e)
      BY LiveFacts, Seen
    <3>2. line + Lines(text, start, delim) = LineAt(delim)
      BY <1>2, <2>1, LiveFacts, LineMoves
    <3>3. LineAt(delim) + Lines(text, delim, e) = LineAt(e)
      BY <2>1, <2>5, LiveFacts, LineMoves
    <3> QED BY <1>1, <1>8, <3>1, <3>2, <3>3 DEF MoveTo
  <2>7. /\ state' = "text" /\ inside' = inside
        /\ UNCHANGED <<text, reader, input, items, multi, cond, body>>
    BY <1>1, <1>8 DEF Goto, reading
  <2>8. /\ pos' \in 0..Len(text) /\ start' \in 0..pos' /\ depth' \in 0..pos' /\ start < start'
        /\ line' = LineAt(pos') /\ startLine' = LineAt(start')
        /\ inside' \in BOOLEAN /\ ~inside'
    <3>1. /\ pos \in Nat /\ Len(text) \in Nat /\ start = pos /\ depth \in 0..pos
          /\ inside \in BOOLEAN /\ ~inside
      BY <1>2, LiveFacts
    <3>2. e \in Nat /\ pos < e /\ e <= Len(text)
      BY <2>1, <2>5, <3>1
    <3>3. pos' \in 0..Len(text) /\ start' \in 0..pos' /\ depth' \in 0..pos' /\ start < start'
      BY <1>1, <2>6, <3>1, <3>2
    <3>4. inside' \in BOOLEAN /\ ~inside'
      BY <2>7, <3>1
    <3> QED BY <2>6, <3>3, <3>4
  <2>9. Standing'
    BY <2>6, <2>7, <2>8, LiveFacts, StandingNext DEF Quotes
  <2>10. ASSUME NEW a \in {start - 1, start - 3}, a >= 0, At(text, a) = "left"
         PROVE  \A p \in a..start' - 1 : Skipped(p)
    <3> DEFINE b == IF trim THEN delim + 2 ELSE delim
    <3>1. b \in 0..Len(text) - 1 /\ At(text, b) = "right" /\ close \in {b - 1, b - 3}
      BY <2>1, <2>2, <2>3, LiveFacts
    <3>2. a \in Nat /\ start \in {a + 1, a + 3} /\ close # Len(text) /\ At(text, close) = "cclose"
      <4>1. start \in Nat
        BY LiveFacts
      <4>2. close # Len(text)
        BY <1>8
      <4>3. At(text, close) = "cclose"
        BY <1>4, <4>2
      <4> QED BY <2>10, <4>1, <4>2, <4>3
    <3>3. \A r \in start..close - 1 : At(text, r) # "cclose"
      <4>1. pos \in Nat /\ close \in Nat /\ start = pos
        BY <1>2, <2>1, LiveFacts
      <4>2. \A r \in start..close - 1 : r = pos \/ r \in pos + 1..close - 1
        BY <4>1
      <4>3. "copen" # "cclose"
        OBVIOUS
      <4> QED BY <1>2, <1>4, <4>2
    <3>4. \A p \in b + 1..e - 1 : Skipped(p)
      <4>1. CASE trim
        <5> DEFINE x == delim + 3
        <5>1. /\ x \in Nat /\ x - 1 = delim + 2 /\ x - 2 = delim + 1
              /\ e \in Nat /\ delim + 1 \in Nat /\ delim + 2 \in Nat
          BY <2>1, <2>5, LiveFacts
        <5>2. \A r \in x..e - 1 : At(text, r) \in Space
          BY <2>4, <4>1
        <5>3. b + 1 = x
          BY <2>1, <4>1
        <5> HIDE DEF x, b
        <5>4. \A p \in x..e - 1 : Skipped(p)
          BY <2>2, <4>1, <5>1, <5>2, LiveFacts, SkipAfter
        <5> QED BY <5>3, <5>4
      <4>2. CASE ~trim
        BY <2>1, <2>4, <4>2
      <4> QED BY <4>1, <4>2
    <3> HIDE DEF b
    <3>5. \A p \in a..b : Skipped(p)
      BY <1>2, <2>10, <3>1, <3>2, <3>3, SkipComment
    <3> QED BY <2>6, <3>1, <3>2, <3>4, <3>5, <2>5
  <2>11. Moves
    <3>1. start <= start' /\ depth' = depth /\ state = "comment"
      BY <1>1, <2>8, LiveFacts
    <3>2. \A a \in {start - 1, start - 3} :
             a >= 0 /\ At(text, a) = "left" => \A p \in a..start' - 1 : Skipped(p)
      BY <2>10
    <3> QED BY <2>7, <2>9, <3>1, <3>2 DEF Moves
  <2> QED BY <2>11 DEF Form
<1> QED
  BY <1>7, <1>8

LEMMA RightDelimForm ==
  ASSUME Live, lexRightDelim
  PROVE  Form
<1> DEFINE trim == hasRightTrimMarker(pos)
           delim == IF trim THEN pos + 2 ELSE pos
           e == IF trim THEN EndOf(delim + 1, Space) ELSE delim + 1
           ln == IF trim THEN line + Newlines(start, delim) ELSE startLine
           i == Item("right", delim, delim + 1, ln)
<1>1. /\ state = "right" /\ inside' = FALSE /\ depth' = depth
      /\ MoveTo(e, line + Newlines(start, delim) + Newlines(delim + 1, e))
      /\ UNCHANGED <<text, reader, input>> /\ Emit(i)
  BY DEF lexRightDelim, reading
<1>2. start = pos /\ inside /\ AtRight(text, pos) /\ depth = 0 /\ pos \in Nat
  BY <1>1, LiveFacts DEF Quotes, Live, Standing
<1>3. trim <=> TrimRight(text, pos)
  BY LiveFacts, Seen
<1>4. delim \in Nat /\ (trim => delim = pos + 2) /\ (~trim => delim = pos)
  BY <1>2
<1>5. At(text, delim) = "right" /\ (trim => At(text, pos) \in Space /\ At(text, pos + 1) = "minus")
  BY <1>2, <1>3 DEF AtRight, TrimRight
<1>6. delim \in 0..Len(text) - 1 /\ delim + 1 \in 0..Len(text)
  <2> HIDE DEF delim
  <2> QED BY <1>4, <1>5, LiveFacts, GlyphAt
<1>7. /\ trim => e \in delim + 1..Len(text) /\ \A r \in delim + 1..e - 1 : At(text, r) \in Space
      /\ ~trim => e = delim + 1
  <2>1. trim => e = EndOf(delim + 1, Space)
    OBVIOUS
  <2> HIDE DEF delim, e
  <2>2. trim => e \in delim + 1..Len(text) /\ \A r \in delim + 1..e - 1 : At(text, r) \in Space
    BY <1>6, <2>1, LiveFacts, EndOfFacts
  <2> QED BY <2>2 DEF e
<1>8. ln = LineAt(delim)
  <2>1. trim => ln = line + Lines(text, start, delim)
    BY LiveFacts, Seen
  <2>2. line + Lines(text, start, delim) = LineAt(delim)
    <3> HIDE DEF delim
    <3> QED BY <1>2, <1>4, LiveFacts, LineMoves
  <2>3. ~trim => ln = LineAt(delim)
    BY <1>2, LiveFacts
  <2> QED BY <2>1, <2>2, <2>3
<1> HIDE DEF trim, delim, e, ln
<1>9. e \in delim + 1..Len(text)
  BY <1>4, <1>6, <1>7, LiveFacts
<1>10. pos' = e /\ start' = e /\ line' = LineAt(e) /\ startLine' = line'
  <2>1. Newlines(start, delim) = Lines(text, start, delim) /\ Newlines(delim + 1, e) = Lines(text, delim + 1, e)
    BY LiveFacts, Seen
  <2>2. line + Lines(text, start, delim) = LineAt(delim)
    BY <1>2, <1>4, LiveFacts, LineMoves
  <2>3. LineAt(delim) + Lines(text, delim, e) = LineAt(e)
    BY <1>4, <1>9, LiveFacts, LineMoves
  <2>4. Lines(text, delim, delim + 1) = 0
    BY <1>4, <1>5, LinesNone
  <2>5. Lines(text, delim, delim + 1) + Lines(text, delim + 1, e) = Lines(text, delim, e)
    BY <1>4, <1>9, LiveFacts, LinesAdd
  <2>6. Lines(text, delim + 1, e) \in Nat /\ Lines(text, delim, e) \in Nat
    BY <1>4, <1>9, LiveFacts, LinesType
  <2>7. Lines(text, delim + 1, e) = Lines(text, delim, e)
    BY <2>4, <2>5, <2>6
  <2> QED BY <1>1, <2>1, <2>2, <2>3, <2>7 DEF MoveTo
<1>11. i \in ItemRec /\ i.typ = "right" /\ i.start = delim /\ i.end = delim + 1 /\ i.line = LineAt(delim)
  <2>1. LineAt(delim) \in 1..delim + 1
    BY <1>4, LineMoves
  <2>2. ln \in 1..Len(text) + 1
    BY <1>4, <1>6, <1>8, <2>1, LiveFacts
  <2>3. delim \in 0..Len(text) /\ "right" \in ItemType
    BY <1>6, LiveFacts DEF ItemType
  <2> QED BY <1>6, <1>8, <2>2, <2>3 DEF Item, ItemRec
<1> HIDE DEF i
<1>12. Fits(i)
  BY <1>1, <1>2, <1>4, <1>11 DEF Fits
<1>13. \A p \in start..e - 1 : p = delim \/ Skipped(p)
  <2>1. CASE trim
    <3>1. Skipped(pos) /\ Skipped(pos + 1)
      BY <1>2, <1>4, <1>5, <2>1, SkipRight
    <3> DEFINE x == delim + 1
    <3>2. x \in Nat /\ x - 1 = delim /\ x - 2 = pos + 1 /\ e \in Nat /\ pos + 1 \in Nat
      BY <1>2, <1>4, <1>9, <2>1, LiveFacts
    <3>3. \A r \in x..e - 1 : At(text, r) \in Space
      BY <1>7, <2>1
    <3> HIDE DEF x
    <3>4. \A p \in x..e - 1 : Skipped(p)
      BY <1>4, <1>5, <2>1, <3>2, <3>3, LiveFacts, SkipAfter
    <3>5. \A p \in start..e - 1 : p \in {pos, pos + 1, delim} \/ p \in x..e - 1
      BY <1>2, <1>4, <1>9, <2>1, LiveFacts DEF x
    <3> QED BY <3>1, <3>4, <3>5
  <2>2. CASE ~trim
    BY <1>2, <1>4, <1>7, <2>2
  <2> QED BY <2>1, <2>2
<1>14. \A p \in start..e - 1 : p \in i.start..i.end - 1 \/ Skipped(p)
  <2>1. delim \in i.start..i.end - 1
    BY <1>4, <1>11
  <2> QED BY <1>13, <2>1
<1>15. /\ start <= i.start /\ i.start <= i.end /\ i.end <= pos' /\ pos' \in 0..Len(text) /\ pos <= pos'
       /\ depth' \in 0..pos'
  BY <1>1, <1>2, <1>4, <1>9, <1>10, <1>11, LiveFacts
<1>16. Emits(i)
  BY <1>1, <1>10, <1>11, <1>12, <1>14, <1>15 DEF Emits
<1> QED
  BY <1>16 DEF Form

\* An item inside an action that is neither a parenthesis nor a space.
Plain == Inner \ {"lparen", "rparen", "space"}

LEMMA PlainForm ==
  ASSUME Live, inside, NEW typ \in Plain, NEW p \in pos..Len(text), Out(typ, p), depth' = depth
  PROVE  Form
<1>1. typ \in ItemType \ {"error"} /\ typ \in Inner /\ typ \notin {"lparen", "rparen", "space"}
  BY DEF Plain, Inner
<1>2. inside' = inside /\ pos' = p
  BY DEF Out, MoveTo
<1>3. Fits(Item(typ, start, p, startLine))
  BY <1>1, <1>2 DEF Fits, Item
<1>4. depth' \in 0..p /\ state # "comment"
  BY LiveFacts DEF Quotes
<1> QED
  BY <1>1, <1>3, <1>4, OutForm

LEMMA PlainTypes ==
  {"assign", "declare", "pipe", "comma", "char", "keyword", "identifier", "variable", "dot", "field", "number",
   "string", "char constant", "raw string"} \subseteq Plain
  BY DEF Plain, Inner, ItemType

\* A move that stays where the item begins.
LEMMA StayForm ==
  ASSUME Live, state = "inside", UNCHANGED <<pos, start, line, startLine, inside, depth>>, NEW s, Goto(s),
         \/ s = "right" /\ AtRight(text, pos) /\ depth = 0 /\ start = pos
         \/ s = "space" /\ At(text, pos) \in Space /\ ~AtRight(text, pos) /\ start = pos
  PROVE  Form
<1>1. state' = s /\ UNCHANGED <<text, reader, input, items, multi, cond, body>>
  BY DEF Goto, reading
<1>2. /\ pos' \in 0..Len(text) /\ start' \in 0..pos' /\ depth' \in 0..pos' /\ start' = start
      /\ line' = LineAt(pos') /\ startLine' = LineAt(start') /\ inside' \in BOOLEAN /\ inside'
  BY LiveFacts
<1>3. Standing'
  BY <1>1, <1>2, LiveFacts, StandingNext DEF Quotes
<1>4. state # "comment" /\ state' \notin {"done", "inside", "comment"} /\ state' \in {"right", "space"}
  BY <1>1, LiveFacts DEF Quotes
<1>5. start <= start' /\ \A p \in start..start' - 1 : Skipped(p)
  BY <1>2, LiveFacts
<1>6. Moves
  BY <1>1, <1>2, <1>3, <1>4, <1>5 DEF Moves
<1> QED
  BY <1>6 DEF Form

LEMMA InsideForm ==
  ASSUME Live, lexInsideAction
  PROVE  Form
<1>1. state = "inside" /\ inside /\ start = pos
  BY LiveFacts DEF lexInsideAction, Quotes
<1>2. \A g : G(pos) = g /\ g # "eof" => pos + 1 \in pos..Len(text) /\ pos \in 0..Len(text) - 1 /\ At(text, pos) = g
  BY LiveFacts, Seen, GlyphAt
<1>3. CASE atRightDelim(pos) /\ depth = 0 /\ Goto("right") /\ UNCHANGED <<pos, start, line, startLine, inside, depth>>
  <2>1. AtRight(text, pos)
    BY <1>3, LiveFacts, Seen
  <2> QED BY <1>1, <1>3, <2>1, StayForm
<1>4. CASE Error /\ UNCHANGED depth
  BY <1>4, ErrorForm, LiveFacts
<1>5. CASE ~atRightDelim(pos) /\ UNCHANGED depth /\ G(pos) \in Space /\ Goto("space")
           /\ UNCHANGED <<pos, start, line, startLine, inside>>
  <2>1. ~AtRight(text, pos) /\ At(text, pos) \in Space
    BY <1>5, LiveFacts, Seen
  <2> QED BY <1>1, <1>5, <2>1, StayForm
<1>6. CASE G(pos) = "equals" /\ Out("assign", pos + 1) /\ UNCHANGED depth
  BY <1>1, <1>2, <1>6, PlainForm, PlainTypes
<1>7. CASE G(pos) = "colon" /\ G(pos + 1) = "equals" /\ Out("declare", pos + 2) /\ UNCHANGED depth
  <2>1. At(text, pos + 1) = "equals" /\ pos + 1 \in Int
    BY <1>7, LiveFacts, Seen
  <2>2. pos + 1 \in 0..Len(text) - 1
    BY <2>1, LiveFacts, GlyphAt
  <2>3. pos + 2 \in pos..Len(text)
    BY <2>2, LiveFacts
  <2> QED BY <1>1, <1>7, <2>3, PlainForm, PlainTypes
<1>8. CASE G(pos) \in {"pipe", "comma"} /\ Out(G(pos), pos + 1) /\ UNCHANGED depth
  <2>1. G(pos) \in Plain /\ G(pos) # "eof"
    BY <1>8, PlainTypes
  <2> QED BY <1>1, <1>2, <1>8, <2>1, PlainForm
<1>9. CASE G(pos) \in {"left", "copen", "cclose", "backslash"} /\ Out("char", pos + 1) /\ UNCHANGED depth
  BY <1>1, <1>2, <1>9, PlainForm, PlainTypes
<1>10. CASE G(pos) \in {"dquote", "squote", "bquote"} /\ Goto(G(pos))
            /\ pos' = pos + 1 /\ UNCHANGED <<start, line, startLine, inside, depth>>
  <2>1. /\ state' = G(pos) /\ state' \in Quotes
        /\ state' \notin {"inside", "right", "left", "comment", "space", "done"}
        /\ UNCHANGED <<text, reader, input, items, multi, cond, body>>
    BY <1>10 DEF Goto, reading, Quotes
  <2>2. pos \in Nat /\ pos + 1 <= Len(text) /\ At(text, pos) # "newline"
    BY <1>2, <1>10, LiveFacts
  <2>3. LineAt(pos + 1) = LineAt(pos)
    <3>1. Lines(text, pos, pos + 1) = 0
      BY <2>2, LinesNone
    <3>2. LineAt(pos) + Lines(text, pos, pos + 1) = LineAt(pos + 1) /\ LineAt(pos) \in Nat
      BY <2>2, LineMoves
    <3> QED BY <3>1, <3>2
  <2>4. /\ pos' \in 0..Len(text) /\ start' \in 0..pos' /\ depth' \in 0..pos' /\ start' = start /\ start' < pos'
        /\ line' = LineAt(pos') /\ startLine' = LineAt(start') /\ inside' \in BOOLEAN /\ inside'
    BY <1>1, <1>10, <2>2, <2>3, LiveFacts
  <2>5. Standing'
    BY <2>1, <2>4, LiveFacts, StandingNext
  <2>6. start <= start' /\ \A p \in start..start' - 1 : Skipped(p)
    BY <2>4, LiveFacts
  <2>7. Moves
    BY <1>1, <1>10, <2>1, <2>4, <2>5, <2>6 DEF Moves
  <2> QED BY <2>7 DEF Form
<1>11. CASE G(pos) = "lparen" /\ depth' = depth + 1 /\ Out("lparen", pos + 1)
  <2>1. inside' = inside /\ pos' = pos + 1 /\ pos + 1 > start /\ pos + 1 \in pos..Len(text) /\ depth' \in 0..pos + 1
    BY <1>2, <1>11, LiveFacts DEF Out, MoveTo
  <2>2. "lparen" \in Inner /\ "lparen" \in ItemType \ {"error"}
    BY DEF Inner, ItemType
  <2>3. Fits(Item("lparen", start, pos + 1, startLine))
    BY <1>1, <1>11, <2>1, <2>2 DEF Fits, Item
  <2> QED BY <1>1, <1>11, <2>1, <2>2, <2>3, OutForm
<1>12. CASE G(pos) = "rparen" /\ depth' = depth - 1 /\ (IF depth = 0 THEN Error ELSE Out("rparen", pos + 1))
  <2>1. CASE depth = 0
    BY <1>12, <2>1, ErrorForm, LiveFacts
  <2>2. CASE depth # 0
    <3>1. inside' = inside /\ pos' = pos + 1 /\ pos + 1 > start /\ pos + 1 \in pos..Len(text) /\ depth' \in 0..pos + 1
      BY <1>2, <1>12, <2>2, LiveFacts DEF Out, MoveTo
    <3>2. "rparen" \in Inner /\ "rparen" \in ItemType \ {"error"}
      BY DEF Inner, ItemType
    <3>3. Fits(Item("rparen", start, pos + 1, startLine))
      BY <1>1, <1>12, <3>1, <3>2 DEF Fits, Item
    <3> QED BY <1>1, <1>12, <2>2, <3>1, <3>2, <3>3, OutForm
  <2> QED BY <2>1, <2>2
<1> QED
  BY <1>3, <1>4, <1>5, <1>6, <1>7, <1>8, <1>9, <1>10, <1>11, <1>12 DEF lexInsideAction

LEMMA SpaceForm ==
  ASSUME Live, lexSpace
  PROVE  Form
<1> DEFINE e == EndOf(pos, Space)
<1>1. /\ state = "space" /\ depth' = depth
      /\ ~hasRightTrimMarker(e - 1) => Out("space", e)
      /\ hasRightTrimMarker(e - 1) /\ e - 1 > pos => Out("space", e - 1)
      /\ hasRightTrimMarker(e - 1) /\ ~(e - 1 > pos) =>
           Goto("right") /\ UNCHANGED <<pos, start, line, startLine, inside>>
  BY DEF lexSpace
<1>2. start = pos /\ inside /\ At(text, pos) \in Space /\ ~AtRight(text, pos)
  BY <1>1, LiveFacts DEF Quotes, Live, Standing
<1>3. pos \in 0..Len(text) - 1 /\ pos \in Nat /\ Len(text) \in Nat
  BY <1>2, LiveFacts, GlyphAt DEF Space
<1>4. e \in pos..Len(text) /\ (e = Len(text) \/ At(text, e) \notin Space)
  BY <1>3, LiveFacts, EndOfFacts
<1>5. hasRightTrimMarker(e - 1) <=> TrimRight(text, e - 1)
  BY LiveFacts, Seen
<1> HIDE DEF e
<1>6. e # pos
  BY <1>2, <1>3, <1>4
<1>7. e - 1 \in pos..Len(text) /\ e \in Nat
  BY <1>3, <1>4, <1>6
<1>8. "space" \in Inner /\ "space" \in ItemType \ {"error"}
  BY DEF Inner, ItemType
<1>9. CASE ~hasRightTrimMarker(e - 1)
  <2>1. Out("space", e) /\ inside' = inside /\ pos' = e
    BY <1>1, <1>9 DEF Out, MoveTo
  <2>2. At(text, e) \notin Space
    BY <1>3, <1>4 DEF At, Space
  <2>3. Fits(Item("space", start, e, startLine))
    BY <1>1, <1>2, <1>8, <2>1, <2>2 DEF Fits, Item
  <2>4. depth' \in 0..e
    <3>1. depth' = depth /\ depth \in 0..pos
      BY <1>1, LiveFacts
    <3>2. e >= pos /\ e \in Nat
      BY <1>3, <1>4
    <3> QED BY <1>3, <3>1, <3>2
  <2> QED BY <1>1, <1>4, <1>8, <2>1, <2>3, <2>4, OutForm
<1>10. CASE hasRightTrimMarker(e - 1) /\ e - 1 > pos
  <2> DEFINE p == e - 1
  <2>1. Out("space", p) /\ inside' = inside /\ pos' = p /\ AtRight(text, p) /\ p \in pos..Len(text)
    BY <1>1, <1>5, <1>7, <1>10 DEF Out, MoveTo, AtRight
  <2> HIDE DEF p
  <2>3. Fits(Item("space", start, p, startLine))
    BY <1>1, <1>2, <1>8, <2>1 DEF Fits, Item
  <2>4. depth' \in 0..p
    BY <1>1, <1>3, <2>1, LiveFacts
  <2> QED BY <1>1, <1>8, <2>1, <2>3, <2>4, OutForm
<1>11. CASE hasRightTrimMarker(e - 1) /\ ~(e - 1 > pos)
  <2>1. e - 1 = pos
    BY <1>3, <1>7, <1>11
  <2>2. AtRight(text, pos)
    BY <1>5, <1>11, <2>1 DEF AtRight
  <2> QED BY <1>2, <2>2
<1> QED
  BY <1>9, <1>10, <1>11

LEMMA IdentifierForm ==
  ASSUME Live, lexIdentifier
  PROVE  Form
<1> DEFINE e == EndOf(pos, Alnum)
           keyword == e = pos + 1 /\ G(pos) \in (IF reader = "parser" THEN {"keyword", "break"} ELSE {"keyword"})
           typ == IF keyword THEN "keyword" ELSE "identifier"
<1>1. /\ state = "inside" /\ depth' = depth
      /\ IF atTerminator(e) THEN Out(typ, e) ELSE Error
  BY DEF lexIdentifier
<1>2. inside
  BY <1>1, LiveFacts
<1>3. e \in pos..Len(text)
  BY LiveFacts, EndOfFacts
<1>4. typ \in Plain
  BY PlainTypes
<1> HIDE DEF e, typ
<1>5. CASE atTerminator(e)
  BY <1>1, <1>2, <1>3, <1>4, <1>5, PlainForm
<1>6. CASE ~atTerminator(e)
  BY <1>1, <1>6, ErrorForm, LiveFacts
<1> QED
  BY <1>5, <1>6

LEMMA FieldForm ==
  ASSUME Live, lexFieldOrVariable
  PROVE  Form
<1> DEFINE e == EndOf(pos + 1, Alnum)
           typ == IF G(pos) = "dollar" THEN "variable" ELSE IF e = pos + 1 THEN "dot" ELSE "field"
<1>1. /\ state = "inside" /\ depth' = depth /\ G(pos) \in {"dollar", "dot", "at"}
      /\ IF ~atTerminator(e) THEN Error ELSE Out(typ, e)
  BY DEF lexFieldOrVariable
<1>2. inside
  BY <1>1, LiveFacts
<1>3. At(text, pos) # "eof"
  BY <1>1, LiveFacts, Seen
<1>4. pos + 1 \in 0..Len(text)
  BY <1>3, LiveFacts, GlyphAt
<1>5. e \in pos + 1..Len(text)
  BY <1>4, LiveFacts, EndOfFacts
<1>6. typ \in Plain
  BY PlainTypes
<1> HIDE DEF e, typ
<1>7. e \in pos..Len(text)
  BY <1>5, LiveFacts
<1>8. CASE atTerminator(e)
  BY <1>1, <1>2, <1>6, <1>7, <1>8, PlainForm
<1>9. CASE ~atTerminator(e)
  BY <1>1, <1>9, ErrorForm, LiveFacts
<1> QED
  BY <1>8, <1>9

LEMMA NumberForm ==
  ASSUME Live, lexNumber
  PROVE  Form
<1> DEFINE sign == pos + (IF G(pos) = "minus" THEN 1 ELSE 0)
           digits == EndOf(sign, {"digit"})
           e == NumberEnd
<1>1. /\ state = "inside" /\ depth' = depth
      /\ IF G(e) \in Alnum \cup {"minus"} THEN Error ELSE Out("number", e)
  BY DEF lexNumber
<1>2. inside
  BY <1>1, LiveFacts
<1>3. sign \in pos..Len(text)
  <2>1. G(pos) = "minus" => pos \in 0..Len(text) - 1
    BY LiveFacts, Seen, GlyphAt
  <2> QED BY <2>1, LiveFacts
<1>4. e = IF G(digits) = "dot" THEN EndOf(digits + 1, {"digit"}) ELSE digits
  BY DEF NumberEnd
<1> HIDE DEF sign, e
<1>5. digits \in sign..Len(text) /\ sign \in 0..Len(text)
  <2>1. sign \in 0..Len(text)
    BY <1>3, LiveFacts
  <2> QED BY <2>1, LiveFacts, EndOfFacts
<1> HIDE DEF digits
<1>6. ASSUME G(digits) = "dot" PROVE e \in pos..Len(text)
  <2>1. digits \in Int /\ At(text, digits) # "eof"
    BY <1>5, <1>6, LiveFacts, Seen
  <2>2. digits + 1 \in 0..Len(text)
    BY <1>5, <2>1, LiveFacts, GlyphAt
  <2>3. e \in digits + 1..Len(text)
    BY <1>4, <1>6, <2>2, LiveFacts, EndOfFacts
  <2>4. e \in pos..Len(text)
    BY <1>3, <1>5, <2>3, LiveFacts
  <2> QED BY <2>4
<1>7. ASSUME G(digits) # "dot" PROVE e \in pos..Len(text)
  BY <1>3, <1>4, <1>5, <1>7, LiveFacts
<1>8. e \in pos..Len(text)
  BY <1>6, <1>7
<1>9. CASE G(e) \in Alnum \cup {"minus"}
  BY <1>1, <1>9, ErrorForm, LiveFacts
<1>10. CASE G(e) \notin Alnum \cup {"minus"}
  BY <1>1, <1>2, <1>8, <1>10, PlainForm, PlainTypes
<1> QED
  BY <1>9, <1>10

LEMMA QuotedForm ==
  ASSUME Live, lexQuoted
  PROVE  Form
<1> DEFINE escape == G(pos) = "backslash" /\ state # "bquote"
           last == IF escape THEN pos + 1 ELSE pos
           stops == G(last) \in (IF state = "bquote" THEN {"eof"} ELSE {"eof", "newline"})
<1>1. /\ state \in Quotes /\ depth' = depth
      /\ stops => Error
      /\ ~stops /\ G(pos) = state => Out(QuoteType[state], pos + 1)
      /\ ~stops /\ G(pos) # state => /\ pos' = last + 1 /\ line' = line + Newlines(pos, last + 1)
                                     /\ Goto(state) /\ UNCHANGED <<start, startLine, inside>>
  BY LiveFacts DEF lexQuoted
<1>2. inside /\ start < pos /\ start \in Nat /\ pos \in Nat /\ Len(text) \in Nat
  BY <1>1, LiveFacts DEF Live, Standing
<1>3. ~stops => last \in 0..Len(text) - 1
  <2>1. ~stops => G(last) # "eof"
    OBVIOUS
  <2>2. last \in Int
    BY <1>2
  <2> HIDE DEF last, stops
  <2> QED BY <2>1, <2>2, LiveFacts, Seen, GlyphAt
<1>4. last \in {pos, pos + 1}
  BY <1>2
<1>5. CASE stops
  BY <1>1, <1>5, ErrorForm, LiveFacts
<1> HIDE DEF last, stops
<1>6. CASE ~stops /\ G(pos) = state
  <2>1. pos + 1 \in pos..Len(text)
    BY <1>2, <1>3, <1>4, <1>6
  <2>2. QuoteType[state] \in Plain
    <3>1. /\ QuoteType["dquote"] = "string" /\ QuoteType["squote"] = "char constant"
          /\ QuoteType["bquote"] = "raw string"
      BY DEF QuoteType
    <3> QED BY <1>1, <3>1, PlainTypes DEF Quotes
  <2> QED BY <1>1, <1>2, <1>6, <2>1, <2>2, PlainForm
<1>7. CASE ~stops /\ G(pos) # state
  <2> DEFINE p == last + 1
  <2>1. p \in pos..Len(text) /\ pos < p /\ p \in Nat
    BY <1>2, <1>3, <1>4, <1>7
  <2>2. pos' = p /\ line' = line + Lines(text, pos, p) /\ start' = start /\ startLine' = startLine /\ inside' = inside
    BY <1>1, <1>7, LiveFacts, Seen
  <2> HIDE DEF p
  <2>3. line' = LineAt(p)
    BY <1>2, <2>1, <2>2, LiveFacts, LineMoves
  <2>4. /\ state' = state /\ state' \notin {"inside", "right", "left", "comment", "space", "done"}
        /\ UNCHANGED <<text, reader, input, items, multi, cond, body>>
    BY <1>1, <1>7 DEF Goto, reading, Quotes
  <2>5. /\ pos' \in 0..Len(text) /\ start' \in 0..pos' /\ depth' \in 0..pos' /\ start' < pos'
        /\ line' = LineAt(pos') /\ startLine' = LineAt(start') /\ inside' \in BOOLEAN /\ inside'
    BY <1>1, <1>2, <2>1, <2>2, <2>3, LiveFacts
  <2>6. Standing'
    BY <1>1, <2>4, <2>5, LiveFacts, StandingNext
  <2>7. start <= start' /\ \A r \in start..start' - 1 : Skipped(r)
    BY <1>2, <2>2
  <2>8. Moves
    BY <1>1, <2>2, <2>4, <2>6, <2>7 DEF Moves
  <2> QED BY <2>8 DEF Form
<1> QED
  BY <1>5, <1>6, <1>7

\* Every step has one of the three forms.
LEMMA StepForm ==
  ASSUME text \in Seq(Glyph), Standing, Step
  PROVE  Live /\ Form
<1>1. state # "done"
  BY DEF Step, lexText, lexTextEnd, lexLeftDelim, lexComment, lexRightDelim, lexInsideAction, lexSpace,
         lexIdentifier, lexFieldOrVariable, lexNumber, lexQuoted, QuoteType
<1>2. Live
  BY <1>1 DEF Live
<1> QED
  BY <1>2, TextForm, TextEndForm, LeftDelimForm, CommentForm, RightDelimForm, InsideForm, SpaceForm,
     IdentifierForm, FieldForm, NumberForm, QuotedForm DEF Step
-----------------------------------------------------------------------------
\* What the reader does with an item.
LEMMA EmitFacts ==
  ASSUME NEW i, Emits(i)
  PROVE  /\ state' \in {"done", "inside", "text"}
         /\ state' # "done" => (inside' <=> state' = "inside") /\ i.typ # "eof"
         /\ i.end > i.start => items' = Append(items, i)
         /\ ~(i.end > i.start) => items' = items
         /\ text' = text /\ input' = input /\ reader' = reader
<1>1. i.end > i.start => items' = Append(items, i)
  BY DEF Emits, Emit
<1>2. ~(i.end > i.start) => items' = items
  BY DEF Emits, Emit
<1>3. state' \in {"done", "inside", "text"} /\ (state' # "done" => (inside' <=> state' = "inside") /\ i.typ # "eof")
  BY DEF Emits, Emit
<1> QED
  BY <1>1, <1>2, <1>3 DEF Emits

LEMMA StandingStep ==
  ASSUME Live, Form
  PROVE  Standing'
<1>1. ASSUME NEW i, Emits(i)
      PROVE  Standing'
  <2>1. CASE state' = "done"
    BY <2>1 DEF Standing
  <2>2. CASE state' # "done"
    <3>1. /\ text' = text /\ input' = text /\ pos' \in 0..Len(text) /\ start' = pos' /\ depth' \in 0..pos'
          /\ line' = LineAt(pos') /\ startLine' = LineAt(start') /\ inside' \in BOOLEAN
      BY <1>1, LiveFacts DEF Emits
    <3>2. start' \in 0..pos'
      BY <3>1, LiveFacts
    <3>3. state' \in {"inside", "text"} /\ (inside' <=> state' = "inside")
      BY <1>1, <2>2, EmitFacts
    <3> QED BY <3>1, <3>2, <3>3, StandingNext DEF Quotes
  <2> QED BY <2>1, <2>2
<1>2. CASE Fails
  BY <1>2 DEF Fails, Standing
<1>3. CASE Moves
  BY <1>3 DEF Moves
<1> QED
  BY <1>1, <1>2, <1>3 DEF Form

\* Types: items and pieces are of the text.
Pieces == body \in Seq(PieceRec) /\ cond \in Seq(0..Len(text)) /\ multi \in BOOLEAN
Typed == text \in Seq(Glyph) /\ reader \in Reader /\ items \in Seq(ItemRec) /\ Pieces

LEMMA RewrittenType ==
  ASSUME NEW i \in ItemRec
  PROVE  /\ Rewritten(i) \in Seq(PieceRec) /\ Piece(i.typ, i) \in PieceRec /\ Cond(i) \in Seq(0..Len(text))
<1>1. i.typ \in ItemType /\ i.start \in 0..Len(text)
  BY DEF ItemRec
<1>2. \A typ \in ItemType \cup {"point"} : Piece(typ, i) \in PieceRec
  BY <1>1 DEF Piece, PieceRec
<1>3. {"point", "right", "comma", "left", "string"} \subseteq ItemType \cup {"point"}
  BY DEF ItemType
<1>4. \A a, b, c \in PieceRec : <<a>> \in Seq(PieceRec) /\ <<a, b>> \in Seq(PieceRec) /\ <<a, b, c>> \in Seq(PieceRec)
  OBVIOUS
<1>5. Rewritten(i) \in Seq(PieceRec)
  BY <1>1, <1>2, <1>3, <1>4 DEF Rewritten
<1>6. Cond(i) \in Seq(0..Len(text))
  <2>1. \A S : <<>> \in Seq(S)
    OBVIOUS
  <2>2. \A S : \A x \in S : <<x>> \in Seq(S)
    OBVIOUS
  <2>3. Cond(i) = <<>> \/ Cond(i) = <<i.start>>
    BY DEF Cond
  <2> QED BY <1>1, <2>1, <2>2, <2>3
<1> QED
  BY <1>1, <1>2, <1>5, <1>6

LEMMA TypedStep ==
  ASSUME Typed, Live, Form
  PROVE  Typed'
<1>1. ASSUME NEW i, Emits(i)
      PROVE  Typed'
  <2>1. i \in ItemRec /\ Emit(i) /\ text' = text /\ reader' = reader
    BY <1>1 DEF Emits
  <2>2. items' \in Seq(ItemRec)
    BY <1>1, <2>1, EmitFacts DEF Typed
  <2>3. CASE reader = "parser" \/ i.end = i.start
    BY <2>1, <2>2, <2>3 DEF Emit, Typed, Pieces, ItemRec, PieceRec
  <2>4. CASE ~(reader = "parser" \/ i.end = i.start) /\ multi /\ Malformed(i)
    <3>1. cond' = <<>> /\ body' = <<>> /\ multi' = multi
      BY <2>1, <2>4 DEF Emit
    <3>2. \A S : <<>> \in Seq(S)
      OBVIOUS
    <3> QED BY <2>1, <2>2, <3>1, <3>2 DEF Typed, Pieces, ItemRec, PieceRec
  <2>5. CASE ~(reader = "parser" \/ i.end = i.start) /\ ~(multi /\ Malformed(i))
    <3>1. HandleItem(i)
      BY <2>1, <2>5 DEF Emit
    <3>2. multi' \in BOOLEAN
      BY <3>1 DEF HandleItem, Typed, Pieces
    <3>3. cond' \in Seq(0..Len(text))
      <4>1. cond' = <<>> \/ cond' = cond \o Cond(i)
        BY <3>1 DEF HandleItem
      <4>2. Cond(i) \in Seq(0..Len(text)) /\ cond \in Seq(0..Len(text))
        BY <2>1, RewrittenType DEF Typed, Pieces
      <4>3. \A S : <<>> \in Seq(S) /\ \A a, b \in Seq(S) : a \o b \in Seq(S)
        OBVIOUS
      <4> QED BY <4>1, <4>2, <4>3
    <3>4. body' \in Seq(PieceRec)
      BY <2>1, <3>1, RewrittenType DEF HandleItem, Typed, Pieces
    <3> QED BY <2>1, <2>2, <3>2, <3>3, <3>4 DEF Typed, Pieces, ItemRec, PieceRec
  <2> QED BY <2>3, <2>4, <2>5
<1>2. CASE Fails
  BY <1>2 DEF Fails, Typed, Pieces, ItemRec, PieceRec
<1>3. CASE Moves
  BY <1>3 DEF Moves, Typed, Pieces, ItemRec, PieceRec
<1> QED
  BY <1>1, <1>2, <1>3 DEF Form

\* Lines: an item is emitted with the line it starts on.
LineInv == \A k \in DOMAIN items : items[k].line = LineAt(items[k].start)

LEMMA LineStep ==
  ASSUME Typed, Live, Form, LineInv
  PROVE  LineInv'
<1>1. ASSUME NEW i, Emits(i)
      PROVE  LineInv'
  <2>1. i.line = LineAt(i.start) /\ text' = text
    BY <1>1 DEF Emits
  <2>2. CASE items' = items
    BY <2>1, <2>2 DEF LineInv, LineAt
  <2>3. CASE items' = Append(items, i)
    <3>1. \A k \in DOMAIN items' : items'[k] = i \/ (k \in DOMAIN items /\ items'[k] = items[k])
      BY <2>3 DEF Typed
    <3> QED BY <2>1, <3>1 DEF LineInv, LineAt
  <2> QED BY <1>1, <2>2, <2>3, EmitFacts
<1>2. CASE Fails
  BY <1>2 DEF Fails, LineInv, LineAt
<1>3. CASE Moves
  BY <1>3 DEF Moves, LineInv, LineAt
<1> QED
  BY <1>1, <1>2, <1>3 DEF Form

LEMMA LineInvLines == LineInv => LinesTrue
<1> SUFFICES ASSUME LineInv, NEW k \in DOMAIN items
             PROVE  items[k].line = 1 + Cardinality({p \in 0..items[k].start - 1 : T(p) = "newline"})
  BY DEF LinesTrue
<1>1. \A p : T(p) = At(text, p)
  BY DEF T, At
<1>2. {p \in 0..items[k].start - 1 : T(p) = "newline"} = {p \in 0..items[k].start - 1 : At(text, p) = "newline"}
  BY <1>1
<1> QED
  BY <1>2 DEF LineInv, LineAt, Lines

\* The types of everything, also when the reader has stopped.
Bounds ==
  /\ input \in {text, <<>>} /\ pos \in 0..Len(input) /\ start \in 0..pos /\ depth \in -1..Len(text)
  /\ inside \in BOOLEAN /\ line \in 1..Len(text) + 1 /\ startLine \in 1..line
  /\ state \in {"text", "left", "comment", "right", "inside", "space", "done"} \cup Quotes

LEMMA BoundsStep ==
  ASSUME Live, Form
  PROVE  Bounds'
<1>1. ASSUME NEW i, Emits(i)
      PROVE  Bounds'
  <2>1. /\ text' = text /\ input' = text /\ pos' \in 0..Len(text) /\ start' = pos' /\ depth' \in 0..pos'
        /\ line' = LineAt(pos') /\ startLine' = line' /\ inside' \in BOOLEAN
    BY <1>1, LiveFacts DEF Emits
  <2>2. state' \in {"done", "inside", "text"}
    BY <1>1, EmitFacts
  <2>3. line' \in 1..pos' + 1
    BY <2>1, LiveFacts, LineMoves
  <2> QED BY <2>1, <2>2, <2>3, LiveFacts DEF Bounds
<1>2. /\ line \in 1..Len(text) + 1 /\ startLine \in 1..line
  <2>1. /\ start \in Nat /\ pos \in Nat /\ start <= pos /\ pos <= Len(text) /\ Len(text) \in Nat
    BY LiveFacts
  <2>2. /\ LineAt(start) + Lines(text, start, pos) = LineAt(pos)
        /\ LineAt(start) \in 1..start + 1 /\ LineAt(pos) \in 1..pos + 1
    BY <2>1, LineMoves
  <2>3. Lines(text, start, pos) \in Nat
    BY <2>1, LinesType
  <2>4. line = LineAt(pos) /\ startLine = LineAt(start)
    BY LiveFacts
  <2> QED BY <2>1, <2>2, <2>3, <2>4
<1>3. CASE Fails
  BY <1>2, <1>3, LiveFacts DEF Fails, Bounds
<1>4. CASE Moves
  <2>1. /\ text' = text /\ input' = text /\ Standing' /\ state' # "done"
        /\ state' \in {"text", "left", "comment", "right", "space"} \cup Quotes
    BY <1>4, LiveFacts DEF Moves
  <2>2. /\ start' \in 0..pos' /\ pos' \in 0..Len(text) /\ depth' \in 0..pos' /\ inside' \in BOOLEAN
        /\ line' = LineAt(pos') /\ startLine' = LineAt(start')
    BY <2>1 DEF Standing, LineAt
  <2>3. line' \in 1..Len(text) + 1 /\ startLine' \in 1..line'
    <3>1. /\ start' \in Nat /\ pos' \in Nat /\ start' <= pos' /\ pos' <= Len(text) /\ Len(text) \in Nat
      BY <2>2, LiveFacts
    <3>2. /\ LineAt(start') + Lines(text, start', pos') = LineAt(pos')
          /\ LineAt(start') \in 1..start' + 1 /\ LineAt(pos') \in 1..pos' + 1
      BY <3>1, LineMoves
    <3>3. Lines(text, start', pos') \in Nat
      BY <3>1, LinesType
    <3> QED BY <2>2, <3>1, <3>2, <3>3
  <2> QED BY <2>1, <2>2, <2>3, LiveFacts DEF Bounds
<1> QED
  BY <1>1, <1>3, <1>4 DEF Form

\* Items that fit: the condition for the k-th, and what the last one adds.
FitAt(s, k) ==
  LET open == Count(s, "left", k) - Count(s, "right", k)
      parens == Count(s, "lparen", k) - Count(s, "rparen", k)
  IN CASE s[k].typ = "text"  -> open = 0
       [] s[k].typ = "right" -> open = 0 /\ parens = 0
       [] OTHER -> /\ open = 1 /\ parens >= 0
                   /\ s[k].typ = "space" => k > 1 /\ s[k - 1].typ # "space"

LEMMA FitAppend ==
  ASSUME NEW S, NEW s \in Seq(S), NEW x, NEW u, u = Append(s, x), \A k \in DOMAIN s : FitAt(s, k),
         FitAt(u, Len(u))
  PROVE  \A k \in DOMAIN u : FitAt(u, k)
<1> TAKE k \in DOMAIN u
<1> DEFINE n == Len(s)
<1>1. n \in Nat /\ Len(u) = n + 1 /\ u[n + 1] = x /\ \A j \in 1..n : u[j] = s[j]
  OBVIOUS
<1>2. DOMAIN s = 1..n /\ (k = n + 1 \/ k \in 1..n)
  OBVIOUS
<1>3. \A typ : \A j \in 0..n : Count(u, typ, j) = Count(s, typ, j)
  BY CountAppend
<1> HIDE DEF n
<1>4. CASE k = n + 1
  BY <1>1, <1>4
<1>5. CASE k \in 1..n
  <2>1. FitAt(s, k) /\ k \in 0..n /\ u[k] = s[k] /\ (k > 1 => u[k - 1] = s[k - 1])
    BY <1>1, <1>2, <1>5
  <2>2. /\ Count(u, "left", k) = Count(s, "left", k) /\ Count(u, "right", k) = Count(s, "right", k)
        /\ Count(u, "lparen", k) = Count(s, "lparen", k) /\ Count(u, "rparen", k) = Count(s, "rparen", k)
    BY <1>3, <2>1
  <2> QED BY <2>1, <2>2 DEF FitAt
<1> QED
  BY <1>2, <1>4, <1>5

LEMMA FitIsFit == ItemsFit <=> \A k \in DOMAIN items : FitAt(items, k)
  BY DEF ItemsFit, FitAt, NumberOf, Count

\* How a new item changes the balance of delimiters and of parentheses.
LEMMA OpenAppend ==
  ASSUME NEW S, NEW s \in Seq(S), NEW x, NEW u, u = Append(s, x)
  PROVE  /\ Open(s) \in Int /\ Parens(s) \in Int
         /\ x.typ = "left" => Open(u) = Open(s) + 1
         /\ x.typ = "right" => Open(u) = Open(s) - 1
         /\ x.typ \notin {"left", "right"} => Open(u) = Open(s)
         /\ x.typ = "lparen" => Parens(u) = Parens(s) + 1
         /\ x.typ = "rparen" => Parens(u) = Parens(s) - 1
         /\ x.typ \notin {"lparen", "rparen"} => Parens(u) = Parens(s)
<1>1. /\ x.typ = "left" => Count(u, "left", Len(u)) = Count(s, "left", Len(s)) + 1
      /\ x.typ # "left" => Count(u, "left", Len(u)) = Count(s, "left", Len(s))
      /\ Count(s, "left", Len(s)) \in Nat
  BY CountAppend
<1>2. /\ x.typ = "right" => Count(u, "right", Len(u)) = Count(s, "right", Len(s)) + 1
      /\ x.typ # "right" => Count(u, "right", Len(u)) = Count(s, "right", Len(s))
      /\ Count(s, "right", Len(s)) \in Nat
  BY CountAppend
<1>3. /\ x.typ = "lparen" => Count(u, "lparen", Len(u)) = Count(s, "lparen", Len(s)) + 1
      /\ x.typ # "lparen" => Count(u, "lparen", Len(u)) = Count(s, "lparen", Len(s))
      /\ Count(s, "lparen", Len(s)) \in Nat
  BY CountAppend
<1>4. /\ x.typ = "rparen" => Count(u, "rparen", Len(u)) = Count(s, "rparen", Len(s)) + 1
      /\ x.typ # "rparen" => Count(u, "rparen", Len(u)) = Count(s, "rparen", Len(s))
      /\ Count(s, "rparen", Len(s)) \in Nat
  BY CountAppend
<1>5. /\ Open(s) \in Int
      /\ x.typ = "left" => Open(u) = Open(s) + 1
      /\ x.typ = "right" => Open(u) = Open(s) - 1
      /\ x.typ \notin {"left", "right"} => Open(u) = Open(s)
  BY <1>1, <1>2 DEF Open
<1>6. /\ Parens(s) \in Int
      /\ x.typ = "lparen" => Parens(u) = Parens(s) + 1
      /\ x.typ = "rparen" => Parens(u) = Parens(s) - 1
      /\ x.typ \notin {"lparen", "rparen"} => Parens(u) = Parens(s)
  BY <1>3, <1>4 DEF Parens
<1> QED
  BY <1>5, <1>6

LEMMA FitStep ==
  ASSUME Typed, Live, Form, FitInv
  PROVE  FitInv'
<1>0. /\ \A k \in DOMAIN items : FitAt(items, k)
      /\ Open(items) = IF inside THEN 1 ELSE 0
      /\ Parens(items) = IF inside THEN depth ELSE 0
      /\ inside => items # <<>>
      /\ items # <<>> /\ items[Len(items)].typ = "space" =>
           state # "space" /\ (state = "inside" => At(text, pos) \notin Space \/ AtRight(text, pos))
      /\ items \in Seq(ItemRec) /\ inside \in BOOLEAN /\ depth \in Nat
  BY FitIsFit, LiveFacts DEF FitInv, Live, Typed
<1>1. ASSUME NEW i, Emits(i), i.end > i.start
      PROVE  FitInv'
  <2>1. items' = Append(items, i) /\ text' = text
    BY <1>1, EmitFacts
  <2>2. Fits(i) /\ pos' \in 0..Len(text) /\ inside' \in BOOLEAN /\ depth' \in Nat
    BY <1>1, LiveFacts DEF Emits
  <2>3. state' # "done" => state' \in {"inside", "text"} /\ (inside' <=> state' = "inside")
    BY <1>1, EmitFacts
  <2> DEFINE u == Append(items, i)
             n == Len(items)
  <2>4. /\ Len(u) = n + 1 /\ u[n + 1] = i /\ n \in Nat /\ u # <<>>
        /\ (n > 0 => u[n] = items[n]) /\ (n = 0 <=> items = <<>>)
    BY <1>0
  <2>5. /\ i.typ = "left" => Open(u) = Open(items) + 1
        /\ i.typ = "right" => Open(u) = Open(items) - 1
        /\ i.typ \notin {"left", "right"} => Open(u) = Open(items)
        /\ i.typ = "lparen" => Parens(u) = Parens(items) + 1
        /\ i.typ = "rparen" => Parens(u) = Parens(items) - 1
        /\ i.typ \notin {"lparen", "rparen"} => Parens(u) = Parens(items)
    BY <1>0, OpenAppend
  <2> HIDE DEF u, n
  <2>6. /\ Open(u) = IF inside' THEN 1 ELSE 0
        /\ Parens(u) = IF inside' THEN depth' ELSE 0
    <3>1. CASE i.typ = "text" /\ ~inside /\ ~inside'
      BY <1>0, <2>5, <3>1
    <3>2. CASE i.typ = "eof" /\ i.end = i.start
      BY <1>1, <3>2 DEF Emits, ItemRec
    <3>3. CASE i.typ = "left" /\ ~inside /\ inside' /\ depth' = 0
      BY <1>0, <2>5, <3>3
    <3>4. CASE i.typ = "right" /\ inside /\ ~inside' /\ depth = 0
      BY <1>0, <2>5, <3>4
    <3>5. CASE /\ i.typ \in Inner /\ inside /\ inside'
               /\ i.typ = "lparen" => depth' = depth + 1
               /\ i.typ = "rparen" => depth' = depth - 1
               /\ i.typ \notin {"lparen", "rparen"} => depth' = depth
      <4>1. i.typ \notin {"left", "right"}
        BY <3>5 DEF Inner
      <4>2. Open(u) = 1
        BY <1>0, <2>5, <3>5, <4>1
      <4>3. Parens(u) = depth'
        BY <1>0, <2>5, <3>5
      <4> QED BY <3>5, <4>2, <4>3
    <3> QED BY <2>2, <3>1, <3>2, <3>3, <3>4, <3>5 DEF Fits
  <2>7. i.typ = "space" => /\ state = "space" /\ inside
                           /\ At(text, pos') \notin Space \/ AtRight(text, pos')
    BY <2>2 DEF Fits
  <2>8. FitAt(u, n + 1)
    <3>1. /\ Open(u) = Count(u, "left", n + 1) - Count(u, "right", n + 1)
          /\ Parens(u) = Count(u, "lparen", n + 1) - Count(u, "rparen", n + 1)
      BY <2>4 DEF Open, Parens
    <3>2. i.typ = "text" => Open(u) = 0
      BY <2>2, <2>6 DEF Fits, Inner
    <3>3. i.typ = "right" => Open(u) = 0 /\ Parens(u) = 0
      BY <2>2, <2>6 DEF Fits, Inner
    <3>4. i.typ \notin {"text", "right"} => Open(u) = 1 /\ Parens(u) >= 0
      <4>1. i.typ \notin {"text", "right"} => inside'
        BY <1>1, <2>2 DEF Fits, Emits, ItemRec
      <4> QED BY <2>2, <2>6, <4>1
    <3>5. i.typ = "space" => n + 1 > 1 /\ u[n + 1 - 1].typ # "space"
      <4>1. n + 1 - 1 = n
        BY <2>4
      <4>2. i.typ = "space" => n > 0 /\ items[n].typ # "space"
        BY <1>0, <2>4, <2>7 DEF n
      <4> QED BY <2>4, <4>1, <4>2
    <3> QED BY <2>4, <3>1, <3>2, <3>3, <3>4, <3>5 DEF FitAt
  <2>9. \A k \in DOMAIN u : FitAt(u, k)
    <3>1. FitAt(u, Len(u))
      BY <2>4, <2>8
    <3> QED BY <1>0, <3>1, FitAppend DEF u
  <2>10. ItemsFit'
    <3>1. items' = u
      BY <2>1 DEF u
    <3>2. \A k \in DOMAIN items' : FitAt(items', k)
      BY <2>9, <3>1
    <3> QED BY <3>2 DEF ItemsFit, FitAt, NumberOf, Count
  <2>11. state' # "done" =>
           /\ Open(items') = IF inside' THEN 1 ELSE 0
           /\ Parens(items') = IF inside' THEN depth' ELSE 0
           /\ inside' => items' # <<>>
           /\ items' # <<>> /\ items'[Len(items')].typ = "space" =>
                state' # "space" /\ (state' = "inside" => At(text', pos') \notin Space \/ AtRight(text', pos'))
    <3>1. items' = u
      BY <2>1 DEF u
    <3> QED BY <2>1, <2>3, <2>4, <2>6, <2>7, <3>1
  <2> QED BY <2>10, <2>11 DEF FitInv, Open, Parens, Count, At, AtRight, TrimRight
<1>2. ASSUME NEW i, Emits(i), ~(i.end > i.start)
      PROVE  FitInv'
  <2>1. items' = items /\ text' = text /\ Fits(i) /\ inside' \in BOOLEAN
    BY <1>2, EmitFacts DEF Emits
  <2>2. state' # "done" => state' \in {"inside", "text"} /\ (inside' <=> state' = "inside") /\ i.typ # "eof"
    BY <1>2, EmitFacts
  <2>3. state' # "done" =>
          inside' = inside /\ (inside => depth' = depth /\ start <= pos' /\ pos' <= start /\ pos <= pos')
    <3>1. i.start \in Int /\ i.end \in Int /\ i.start <= i.end /\ pos <= pos' /\ start \in Int
      BY <1>2, LiveFacts DEF Emits, ItemRec
    <3>2. ~(i.typ = "left" /\ i.end > i.start) /\ ~(i.typ = "right" /\ i.end > i.start)
      BY <1>2
    <3>3. ASSUME state' # "done"
          PROVE  \/ ~inside /\ ~inside'
                 \/ /\ inside /\ inside' /\ i.start = start /\ i.end = pos'
                    /\ i.typ \notin {"lparen", "rparen"} /\ depth' = depth
      BY <1>2, <2>1, <2>2, <3>2, <3>3 DEF Fits
    <3>4. inside' \in BOOLEAN /\ inside \in BOOLEAN
      BY <1>0, <2>1
    <3>5. state' # "done" => inside' = inside
      BY <3>3, <3>4
    <3>6. state' # "done" /\ inside => depth' = depth /\ i.start = start /\ i.end = pos'
      BY <3>3
    <3> QED BY <1>2, <3>1, <3>5, <3>6
  <2>4. ASSUME state' # "done", inside, items[Len(items)].typ = "space"
        PROVE  At(text, pos') \notin Space \/ AtRight(text, pos')
    <3>1. start = pos /\ pos' = pos
      <4>1. start \in Int /\ pos \in Int /\ start <= pos /\ pos' \in Int
        BY <1>2, LiveFacts DEF Emits
      <4> QED BY <2>3, <2>4, <4>1
    <3>2. state \in {"inside", "right"}
      <4>1. state \notin Quotes
        BY <3>1, LiveFacts DEF Live, Standing
      <4>2. state # "space"
        BY <1>0, <2>4
      <4> QED BY <2>4, <4>1, <4>2, LiveFacts
    <3>3. state = "right" => AtRight(text, pos)
      BY DEF Live, Standing
    <3> QED BY <1>0, <2>4, <3>1, <3>2, <3>3
  <2>5. ItemsFit'
    <3>1. \A k \in DOMAIN items' : FitAt(items', k)
      BY <1>0, <2>1
    <3> QED BY <3>1 DEF ItemsFit, FitAt, NumberOf, Count
  <2>6. state' # "done" =>
          /\ Open(items') = IF inside' THEN 1 ELSE 0
          /\ Parens(items') = IF inside' THEN depth' ELSE 0
          /\ inside' => items' # <<>>
          /\ items' # <<>> /\ items'[Len(items')].typ = "space" =>
               state' # "space" /\ (state' = "inside" => At(text', pos') \notin Space \/ AtRight(text', pos'))
    BY <1>0, <2>1, <2>2, <2>3, <2>4
  <2> QED BY <2>5, <2>6 DEF FitInv, Open, Parens, Count, At, AtRight, TrimRight
<1>3. CASE Fails
  <2>1. items' = items /\ state' = "done"
    BY <1>3 DEF Fails
  <2>2. ItemsFit'
    <3>1. \A k \in DOMAIN items' : FitAt(items', k)
      BY <1>0, <2>1
    <3> QED BY <3>1 DEF ItemsFit, FitAt, NumberOf, Count
  <2> QED BY <2>1, <2>2 DEF FitInv
<1>4. CASE Moves
  <2>1. /\ items' = items /\ text' = text /\ inside' = inside /\ depth' = depth
        /\ state' \notin {"done", "inside"} /\ Standing'
        /\ input' = input
    BY <1>4 DEF Moves
  <2>2. ItemsFit'
    <3>1. \A k \in DOMAIN items' : FitAt(items', k)
      BY <1>0, <2>1
    <3> QED BY <3>1 DEF ItemsFit, FitAt, NumberOf, Count
  <2>3. state' = "space" /\ items # <<>> => items[Len(items)].typ # "space"
    BY <1>0, <1>4 DEF Moves
  <2>4. state' # "done" =>
          /\ Open(items') = IF inside' THEN 1 ELSE 0
          /\ Parens(items') = IF inside' THEN depth' ELSE 0
          /\ inside' => items' # <<>>
          /\ items' # <<>> /\ items'[Len(items')].typ = "space" =>
               state' # "space" /\ (state' = "inside" => At(text', pos') \notin Space \/ AtRight(text', pos'))
    BY <1>0, <2>1, <2>3
  <2> QED BY <2>2, <2>4 DEF FitInv, Open, Parens, Count, At, AtRight, TrimRight
<1> QED
  BY <1>1, <1>2, <1>3, <1>4 DEF Form

\* Pieces that are delimited: the condition for the k-th, and what one more adds.
DelimAt(b, k) ==
  LET open == Count(b, "left", k) - Count(b, "right", k)
  IN /\ open \in {0, 1}
     /\ open = 0 => b[k].typ \in {"right", "comma", "text"}
Delimited(b) == \A k \in DOMAIN b : DelimAt(b, k)

LEMMA DelimAppend ==
  ASSUME NEW S, NEW b \in Seq(S), NEW x, NEW u, u = Append(b, x), Delimited(b),
         Open(u) \in {0, 1}, Open(u) = 0 => x.typ \in {"right", "comma", "text"}
  PROVE  Delimited(u)
<1> SUFFICES ASSUME NEW k \in DOMAIN u PROVE DelimAt(u, k)
  BY DEF Delimited
<1> DEFINE n == Len(b)
<1>1. n \in Nat /\ Len(u) = n + 1 /\ u[n + 1] = x /\ \A j \in 1..n : u[j] = b[j]
  OBVIOUS
<1>2. DOMAIN b = 1..n /\ (k = n + 1 \/ k \in 1..n)
  OBVIOUS
<1>3. \A typ : \A j \in 0..n : Count(u, typ, j) = Count(b, typ, j)
  BY CountAppend
<1> HIDE DEF n
<1>4. CASE k = n + 1
  <2>1. Open(u) = Count(u, "left", k) - Count(u, "right", k)
    BY <1>1, <1>4 DEF Open
  <2> QED BY <1>1, <1>4, <2>1 DEF DelimAt
<1>5. CASE k \in 1..n
  <2>1. DelimAt(b, k) /\ k \in 0..n /\ u[k] = b[k]
    BY <1>1, <1>2, <1>5 DEF Delimited
  <2>2. Count(u, "left", k) = Count(b, "left", k) /\ Count(u, "right", k) = Count(b, "right", k)
    BY <1>3, <2>1
  <2> QED BY <2>1, <2>2 DEF DelimAt
<1> QED
  BY <1>2, <1>4, <1>5

LEMMA Appended ==
  ASSUME NEW S, NEW b \in Seq(S), NEW x \in S, NEW y \in S, NEW z \in S
  PROVE  /\ b \o <<x>> = Append(b, x)
         /\ b \o <<x, y>> = Append(Append(b, x), y)
         /\ b \o <<x, y, z>> = Append(Append(Append(b, x), y), z)
  OBVIOUS

\* The pieces an item becomes.
LEMMA PiecesOf ==
  ASSUME NEW i \in ItemRec, HandleItem(i), body \in Seq(PieceRec)
  PROVE  \/ \E x \in PieceRec : /\ body' = Append(body, x)
                                /\ x.typ = i.typ \/ (x.typ = "string" /\ i.typ = "char constant")
         \/ \E x, y \in PieceRec : /\ body' = Append(Append(body, x), y)
                                   /\ i.typ = "identifier" /\ x.typ = "point" /\ y.typ = "identifier"
         \/ \E x, y, z \in PieceRec : /\ body' = Append(Append(Append(body, x), y), z)
                                      /\ i.typ = "comma" /\ x.typ = "right" /\ y.typ = "comma" /\ z.typ = "left"
<1>1. \A typ \in ItemType \cup {"point"} : Piece(typ, i) \in PieceRec /\ Piece(typ, i).typ = typ
  BY DEF Piece, PieceRec, ItemRec
<1>2. /\ i.typ \in ItemType
      /\ {"point", "right", "comma", "left", "string", "identifier"} \subseteq ItemType \cup {"point"}
  BY DEF ItemType, ItemRec
<1>3. body' = body \o Rewritten(i) \/ body' = body \o <<Piece(i.typ, i)>>
  BY DEF HandleItem
<1>4. \/ Rewritten(i) = <<Piece("point", i), Piece("identifier", i)>> /\ i.typ = "identifier"
      \/ Rewritten(i) = <<Piece("right", i), Piece("comma", i), Piece("left", i)>> /\ i.typ = "comma"
      \/ Rewritten(i) = <<Piece("string", i)>> /\ i.typ = "char constant"
      \/ Rewritten(i) = <<Piece(i.typ, i)>>
  BY DEF Rewritten, LongConstant
<1>5. CASE body' = body \o <<Piece(i.typ, i)>>
  <2>1. Piece(i.typ, i) \in PieceRec /\ Piece(i.typ, i).typ = i.typ
    BY <1>1, <1>2
  <2>2. body' = Append(body, Piece(i.typ, i))
    BY <1>5, <2>1, Appended
  <2> QED BY <2>1, <2>2
<1>6. CASE body' = body \o <<Piece("string", i)>> /\ i.typ = "char constant"
  <2>1. Piece("string", i) \in PieceRec /\ Piece("string", i).typ = "string"
    BY <1>1, <1>2
  <2>2. body' = Append(body, Piece("string", i))
    BY <1>6, <2>1, Appended
  <2> QED BY <1>6, <2>1, <2>2
<1>7. CASE body' = body \o <<Piece("point", i), Piece("identifier", i)>> /\ i.typ = "identifier"
  <2>1. body' = Append(Append(body, Piece("point", i)), Piece("identifier", i))
    BY <1>1, <1>2, <1>7, Appended
  <2> QED BY <1>1, <1>2, <1>7, <2>1
<1>8. CASE body' = body \o <<Piece("right", i), Piece("comma", i), Piece("left", i)>> /\ i.typ = "comma"
  <2>1. body' = Append(Append(Append(body, Piece("right", i)), Piece("comma", i)), Piece("left", i))
    BY <1>1, <1>2, <1>8, Appended
  <2> QED BY ZenonT(60), <1>1, <1>2, <1>8, <2>1
<1> QED
  BY <1>3, <1>4, <1>5, <1>6, <1>7, <1>8

LEMMA DelimIsDelim == BodyDelimited <=> Delimited(body)
  BY DEF BodyDelimited, Delimited, DelimAt, Count

LEMMA BodyStep ==
  ASSUME Typed, Live, Form, BodyInv
  PROVE  BodyInv'
<1>0. /\ Delimited(body) /\ body \in Seq(PieceRec) /\ inside \in BOOLEAN
      /\ reader = "parser" => body = <<>>
      /\ reader = "fieldName" => Open(body) = IF inside THEN 1 ELSE 0
      /\ reader \in {"parser", "fieldName"}
  BY DelimIsDelim, LiveFacts DEF BodyInv, Live, Typed, Pieces, Reader
<1>a. ASSUME Delimited(body')
      PROVE  BodyDelimited'
  BY <1>a DEF BodyDelimited, Delimited, DelimAt, Count
<1>1. ASSUME NEW i, Emits(i), reader = "fieldName", i.end # i.start
      PROVE  BodyInv'
  <2>1. Fits(i) /\ inside' \in BOOLEAN /\ i \in ItemRec /\ Emit(i) /\ reader' = reader /\ i.end > i.start
    BY <1>1 DEF Emits, ItemRec
  <2>2. CASE multi /\ Malformed(i)
    <3>1. body' = <<>> /\ state' = "done"
      BY <1>1, <2>1, <2>2 DEF Emit
    <3>2. Delimited(body')
      BY <3>1 DEF Delimited
    <3> QED BY <1>a, <3>1, <3>2 DEF BodyInv
  <2>3. CASE ~(multi /\ Malformed(i))
    <3>1. HandleItem(i)
      BY <1>1, <2>1, <2>3 DEF Emit
    <3> SUFFICES Delimited(body') /\ Open(body') = IF inside' THEN 1 ELSE 0
      <4>1. ASSUME Open(body') = IF inside' THEN 1 ELSE 0
            PROVE  Open(body)' = IF inside' THEN 1 ELSE 0
        BY <4>1 DEF Open, Count
      <4> QED BY <1>1, <1>a, <2>1, <4>1 DEF BodyInv
    <3>2. CASE \E x \in PieceRec : /\ body' = Append(body, x)
                                   /\ x.typ = i.typ \/ (x.typ = "string" /\ i.typ = "char constant")
      <4>1. PICK x \in PieceRec : /\ body' = Append(body, x)
                                  /\ x.typ = i.typ \/ (x.typ = "string" /\ i.typ = "char constant")
        BY <3>2
      <4>2. /\ x.typ = "left" => Open(body') = Open(body) + 1
            /\ x.typ = "right" => Open(body') = Open(body) - 1
            /\ x.typ \notin {"left", "right"} => Open(body') = Open(body)
        BY <1>0, <4>1, OpenAppend
      <4>3. /\ x.typ = "text" <=> i.typ = "text"
            /\ x.typ = "left" <=> i.typ = "left"
            /\ x.typ = "right" <=> i.typ = "right"
        BY <4>1
      <4>4. /\ Open(body') = IF inside' THEN 1 ELSE 0
            /\ ~inside' => x.typ \in {"right", "text"}
        <5>1. CASE i.typ = "text" /\ ~inside /\ ~inside'
          BY <1>0, <1>1, <4>2, <4>3, <5>1
        <5>2. CASE i.typ = "eof" /\ i.end = i.start
          BY <1>1, <5>2
        <5>3. CASE i.typ = "left" /\ ~inside /\ inside'
          BY <1>0, <1>1, <4>2, <4>3, <5>3
        <5>4. CASE i.typ = "right" /\ inside /\ ~inside'
          BY <1>0, <1>1, <4>2, <4>3, <5>4
        <5>5. CASE i.typ \in Inner /\ inside /\ inside'
          <6>1. i.typ \notin {"left", "right"}
            BY <5>5 DEF Inner
          <6> QED BY <1>0, <1>1, <4>2, <4>3, <5>5, <6>1
        <5> QED BY <2>1, <5>1, <5>2, <5>3, <5>4, <5>5 DEF Fits
      <4>5. Delimited(body')
        <5>1. Open(body') \in {0, 1} /\ (Open(body') = 0 => x.typ \in {"right", "comma", "text"})
          BY <4>4
        <5> QED BY <1>0, <4>1, <5>1, DelimAppend
      <4> QED BY <4>4, <4>5
    <3>3. ASSUME i.typ \in {"identifier", "comma"}
          PROVE  inside /\ inside' /\ Open(body) = 1
      <4>1. inside /\ inside'
        BY <2>1, <3>3 DEF Fits
      <4> QED BY <1>0, <1>1, <4>1
    <3>4. CASE \E x, y \in PieceRec : /\ body' = Append(Append(body, x), y)
                                      /\ i.typ = "identifier" /\ x.typ = "point" /\ y.typ = "identifier"
      <4>1. PICK x, y \in PieceRec : /\ body' = Append(Append(body, x), y)
                                     /\ i.typ = "identifier" /\ x.typ = "point" /\ y.typ = "identifier"
        BY <3>4
      <4> DEFINE u == Append(body, x)
      <4>2. u \in Seq(PieceRec) /\ body' = Append(u, y) /\ u = Append(body, x)
        BY <1>0, <4>1
      <4> HIDE DEF u
      <4>3. Open(u) = 1 /\ inside'
        BY <1>0, <3>3, <4>1, <4>2, OpenAppend
      <4>4. Delimited(u)
        <5>1. Open(u) \in {0, 1} /\ ~(Open(u) = 0)
          BY <4>3
        <5> QED BY <1>0, <4>2, <5>1, DelimAppend
      <4>5. Open(body') = 1
        <5>1. y.typ \notin {"left", "right"}
          BY <4>1
        <5> QED BY ZenonT(60), <4>2, <4>3, <5>1, OpenAppend
      <4>6. Delimited(body')
        <5>1. Open(body') \in {0, 1} /\ ~(Open(body') = 0)
          BY <4>5
        <5> QED BY <4>2, <4>4, <5>1, DelimAppend
      <4> QED BY <4>3, <4>5, <4>6
    <3>5. CASE \E x, y, z \in PieceRec : /\ body' = Append(Append(Append(body, x), y), z)
                                         /\ i.typ = "comma" /\ x.typ = "right" /\ y.typ = "comma" /\ z.typ = "left"
      <4>1. PICK x, y, z \in PieceRec : /\ body' = Append(Append(Append(body, x), y), z)
                                        /\ i.typ = "comma" /\ x.typ = "right" /\ y.typ = "comma" /\ z.typ = "left"
        BY <3>5
      <4> DEFINE u == Append(body, x)
                 w == Append(u, y)
      <4>2. /\ u \in Seq(PieceRec) /\ w \in Seq(PieceRec)
            /\ body' = Append(w, z) /\ u = Append(body, x) /\ w = Append(u, y)
        BY <1>0, <4>1
      <4> HIDE DEF u, w
      <4>a. x.typ = "right" /\ y.typ = "comma" /\ z.typ = "left" /\ y.typ \notin {"left", "right"}
        BY <4>1
      <4>3. Open(u) = 0 /\ inside'
        <5>1. Open(u) = Open(body) - 1
          BY <1>0, <4>2, <4>a, OpenAppend
        <5> QED BY <1>0, <3>3, <4>1, <5>1
      <4>4. Delimited(u)
        <5>1. Open(u) \in {0, 1} /\ (Open(u) = 0 => x.typ \in {"right", "comma", "text"})
          BY <4>3, <4>a
        <5> QED BY <1>0, <4>2, <5>1, DelimAppend
      <4>5. Open(w) = 0
        BY ZenonT(60), <4>2, <4>3, <4>a, OpenAppend
      <4>6. Delimited(w)
        <5>1. Open(w) \in {0, 1} /\ (Open(w) = 0 => y.typ \in {"right", "comma", "text"})
          BY <4>5, <4>a
        <5> QED BY <4>2, <4>4, <5>1, DelimAppend
      <4>7. Open(body') = 1
        <5>1. w \in Seq(PieceRec) /\ body' = Append(w, z)
          BY <4>2
        <5>2. z.typ = "left"
          BY <4>a
        <5>3. Open(body') = Open(w) + 1
          BY <5>1, <5>2, OpenAppend
        <5> QED BY <4>5, <5>3
      <4>8. Delimited(body')
        <5>1. Open(body') \in {0, 1} /\ ~(Open(body') = 0)
          BY <4>7
        <5> QED BY <4>2, <4>6, <5>1, DelimAppend
      <4> QED BY <4>3, <4>7, <4>8
    <3> QED BY <1>0, <2>1, <3>1, <3>2, <3>4, <3>5, PiecesOf
  <2> QED BY <2>2, <2>3
<1>2. ASSUME NEW i, Emits(i), reader = "parser" \/ i.end = i.start
      PROVE  BodyInv'
  <2>1. body' = body /\ reader' = reader /\ Fits(i) /\ inside' \in BOOLEAN
    BY <1>2 DEF Emits, Emit
  <2>2. state' # "done" => i.typ # "eof"
    BY <1>2, EmitFacts
  <2>3. reader = "fieldName" /\ state' # "done" => (inside <=> inside')
    <3>1. reader = "fieldName" => ~(i.end > i.start)
      <4>1. i.end \in Int
        BY <1>2 DEF Emits, ItemRec
      <4> QED BY <1>2, <4>1
    <3> QED BY <2>1, <2>2, <3>1 DEF Fits
  <2>4. Delimited(body')
    BY <1>0, <2>1
  <2>5. reader' = "fieldName" /\ state' # "done" => Open(body') = IF inside' THEN 1 ELSE 0
    BY <1>0, <2>1, <2>3
  <2> QED BY <1>0, <1>a, <2>1, <2>4, <2>5 DEF BodyInv, Open, Count
<1>3. CASE Fails \/ Moves
  <2>1. body' = body /\ reader' = reader /\ inside' = inside
    BY <1>3 DEF Fails, Moves
  <2>2. Delimited(body')
    BY <1>0, <2>1
  <2>3. reader' = "fieldName" => Open(body') = IF inside' THEN 1 ELSE 0
    BY <1>0, <2>1
  <2> QED BY <1>0, <1>a, <2>1, <2>2, <2>3 DEF BodyInv, Open, Count
<1> QED
  BY <1>0, <1>1, <1>2, <1>3 DEF Form

LEMMA Below ==
  ASSUME NEW a \in Nat, NEW b \in Nat
  PROVE  \A p \in 0..b - 1 : p \in 0..a - 1 \/ p \in a..b - 1
OBVIOUS

\* Tiles: nothing before the start of the next item is left out.
LEMMA TileStep ==
  ASSUME Typed, Live, Form, TileInv
  PROVE  TileInv'
<1>0. /\ items \in Seq(ItemRec) /\ start \in Nat /\ Len(items) \in Nat
      /\ \A k \in 1..Len(items) - 1 : items[k].end <= items[k + 1].start
      /\ \A k \in DOMAIN items : items[k].end <= start
      /\ state # "comment" => \A p \in 0..start - 1 : Held(p)
      /\ state = "comment" => \E a \in {start - 1, start - 3} :
                                a >= 0 /\ At(text, a) = "left" /\ \A p \in 0..a - 1 : Held(p)
  BY LiveFacts DEF TileInv, Live, Typed
<1>b. \A k \in DOMAIN items : items[k].start \in Nat /\ items[k].end \in Nat
  <2>1. \A k \in DOMAIN items : items[k] \in ItemRec
    BY <1>0
  <2>2. \A j \in ItemRec : j.start \in Nat /\ j.end \in Nat
    BY DEF ItemRec
  <2> QED BY <2>1, <2>2
<1>a. ASSUME text' = text
      PROVE  \A p : Skipped(p) => Skipped(p)'
  BY <1>a DEF Skipped, TrimMark, TrimmedSpace, InComment, Spaces, T
<1>1. ASSUME NEW i, Emits(i)
      PROVE  TileInv'
  <2>1. /\ state # "comment" /\ state' # "comment" /\ text' = text /\ start' = pos' /\ pos' \in Nat
        /\ i.start \in Nat /\ i.end \in Nat /\ start <= i.start /\ i.start <= i.end /\ i.end <= start'
        /\ i \in ItemRec
        /\ \A p \in start..start' - 1 : p \in i.start..i.end - 1 \/ Skipped(p)
    <3>1. i.start \in Nat /\ i.end \in Nat
      BY <1>1 DEF Emits, ItemRec
    <3>2. state # "comment" /\ state' # "comment" /\ text' = text /\ start' = pos'
      BY <1>1, EmitFacts DEF Emits
    <3>3. pos' \in Nat
      <4>1. pos' \in 0..Len(text) /\ Len(text) \in Nat
        BY <1>1, LiveFacts DEF Emits
      <4> QED BY <4>1
    <3>4. start <= i.start /\ i.start <= i.end /\ i.end <= pos' /\ i \in ItemRec
      BY <1>1 DEF Emits
    <3>5. \A p \in start..pos' - 1 : p \in i.start..i.end - 1 \/ Skipped(p)
      BY <1>1 DEF Emits
    <3>6. \A p \in start..start' - 1 : p \in i.start..i.end - 1 \/ Skipped(p)
      BY <3>2, <3>5
    <3>7. i.end <= start'
      BY <3>2, <3>4
    <3> QED BY <3>1, <3>2, <3>3, <3>4, <3>6, <3>7
  <2>2. CASE i.end > i.start
    <3> DEFINE n == Len(items)
    <3>1. /\ items' = Append(items, i) /\ Len(items') = n + 1 /\ items'[n + 1] = i /\ DOMAIN items' = 1..n + 1
          /\ \A k \in 1..n : items'[k] = items[k]
      BY <1>0, <1>1, <2>2, EmitFacts
    <3>2. \A k \in 1..n + 1 - 1 : items'[k].end <= items'[k + 1].start
      <4> TAKE k \in 1..n + 1 - 1
      <4>1. items'[k] = items[k] /\ items[k].end <= start /\ items[k].end \in Nat
        BY <1>0, <1>b, <3>1
      <4>2. CASE k = n
        BY <2>1, <3>1, <4>1, <4>2, <1>0
      <4>3. CASE k # n
        <5>1. k \in 1..n - 1 /\ k + 1 \in 1..n
          BY <1>0, <4>3
        <5> QED BY <1>0, <3>1, <5>1
      <4> QED BY <4>2, <4>3
    <3>3. \A k \in 1..n + 1 : items'[k].end <= start'
      <4> TAKE k \in 1..n + 1
      <4>1. CASE k = n + 1
        BY <2>1, <3>1, <4>1
      <4>2. CASE k # n + 1
        <5>1. k \in 1..n /\ k \in DOMAIN items
          BY <1>0, <4>2
        <5>2. items'[k] = items[k] /\ items[k].end <= start /\ items[k].end \in Nat
          BY <1>0, <1>b, <3>1, <5>1
        <5> QED BY <1>0, <2>1, <5>2
      <4> QED BY <4>1, <4>2
    <3>4. \A p \in 0..start' - 1 : Held(p)'
      <4> TAKE p \in 0..start' - 1
      <4>1. CASE p \in 0..start - 1
        <5>1. Held(p)
          BY <1>0, <2>1, <4>1
        <5>2. CASE \E k \in DOMAIN items : p \in items[k].start..items[k].end - 1
          <6>1. \E k \in DOMAIN items' : p \in items'[k].start..items'[k].end - 1
            BY <1>0, <3>1, <5>2
          <6> QED BY <6>1 DEF Held
        <5>3. CASE Skipped(p)
          BY <1>a, <2>1, <5>3 DEF Held
        <5> QED BY <5>1, <5>2, <5>3 DEF Held
      <4>2. CASE p \in start..start' - 1
        <5>1. CASE p \in i.start..i.end - 1
          <6>1. n + 1 \in DOMAIN items' /\ p \in items'[n + 1].start..items'[n + 1].end - 1
            BY <1>0, <3>1, <5>1
          <6> QED BY <6>1 DEF Held
        <5>2. CASE Skipped(p)
          BY <1>a, <2>1, <5>2 DEF Held
        <5> QED BY <2>1, <4>2, <5>1, <5>2
      <4>3. p \in 0..start - 1 \/ p \in start..start' - 1
        <5>1. start \in Nat /\ start' \in Nat
          BY <1>0, <2>1
        <5> QED BY <5>1, Below
      <4> QED BY <4>1, <4>2, <4>3
    <3>5. Len(items') - 1 = n + 1 - 1
      BY <3>1
    <3> HIDE DEF n
    <3>6. \A k \in 1..Len(items') - 1 : items'[k].end <= items'[k + 1].start
      BY <3>2, <3>5
    <3>7. \A k \in DOMAIN items' : items'[k].end <= start'
      BY <3>1, <3>3
    <3> QED BY <2>1, <3>4, <3>6, <3>7 DEF TileInv
  <2>3. CASE ~(i.end > i.start)
    <3>1. items' = items
      BY <1>1, <2>3, EmitFacts
    <3>2. \A k \in DOMAIN items : items[k].end <= start'
      <4>1. start <= start' /\ start' \in Nat
        BY <1>0, <2>1
      <4> QED BY <1>0, <1>b, <4>1
    <3>3. \A p \in 0..start' - 1 : Held(p)'
      <4> TAKE p \in 0..start' - 1
      <4>1. Held(p)
        <5>1. p \in 0..start - 1 \/ p \in start..start' - 1
          <6>1. start \in Nat /\ start' \in Nat
            BY <1>0, <2>1
          <6> QED BY <6>1, Below
        <5>2. p \notin i.start..i.end - 1
          BY <2>1, <2>3
        <5> QED BY <1>0, <2>1, <5>1, <5>2 DEF Held
      <4> QED BY <1>a, <2>1, <3>1, <4>1 DEF Held
    <3> QED BY <1>0, <2>1, <3>1, <3>2, <3>3 DEF TileInv
  <2> QED BY <2>2, <2>3
<1>2. CASE Fails
  <2>1. items' = items /\ start' = 0 /\ state' = "done"
    BY <1>2 DEF Fails
  <2>2. 0..start' - 1 = {}
    BY <2>1
  <2> QED BY <1>0, <2>1, <2>2 DEF TileInv
<1>3. CASE Moves
  <2>1. items' = items /\ text' = text /\ start <= start' /\ start' \in Nat
    <3>1. /\ items' = items /\ text' = text /\ start <= start' /\ Standing' /\ state' # "done"
      BY <1>3 DEF Moves
    <3> QED BY <3>1, LiveFacts DEF Standing
  <2>2. \A k \in DOMAIN items : items[k].end <= start'
    <3>1. \A k \in DOMAIN items : items[k].end \in Nat /\ items[k].end <= start
      BY <1>0, <1>b
    <3>2. \A e \in Nat : e <= start => e <= start'
      BY <1>0, <2>1
    <3> QED BY <3>1, <3>2
  <2>3. \A p : Held(p) => Held(p)'
    BY <1>a, <2>1 DEF Held
  <2>4. CASE state = "comment"
    <3>1. PICK a \in {start - 1, start - 3} : a >= 0 /\ At(text, a) = "left" /\ \A p \in 0..a - 1 : Held(p)
      BY <1>0, <2>4
    <3>2. state' # "comment" /\ \A p \in a..start' - 1 : Skipped(p)
      BY <1>3, <2>4, <3>1 DEF Moves
    <3>3. \A p \in 0..start' - 1 : p \in 0..a - 1 \/ p \in a..start' - 1
      BY <1>0, <2>1, <3>1
    <3>4. \A p \in 0..start' - 1 : Held(p)'
      BY <2>3, <3>1, <3>2, <3>3 DEF Held
    <3> QED BY <1>0, <2>1, <2>2, <3>2, <3>4 DEF TileInv
  <2>5. CASE state # "comment" /\ state' = "comment"
    <3>1. start \in {start' - 1, start' - 3} /\ At(text, start) = "left"
      BY <1>3, <2>5 DEF Moves
    <3>2. \A p \in 0..start - 1 : Held(p)'
      BY <1>0, <2>3, <2>5
    <3>3. start >= 0 /\ At(text', start) = "left"
      BY <1>0, <2>1, <3>1
    <3> QED BY <1>0, <2>1, <2>2, <2>5, <3>1, <3>2, <3>3 DEF TileInv, At
  <2>6. CASE state # "comment" /\ state' # "comment"
    <3>1. \A p \in start..start' - 1 : Skipped(p)
      BY <1>3, <2>6 DEF Moves
    <3>2. \A p \in 0..start' - 1 : p \in 0..start - 1 \/ p \in start..start' - 1
      <4>1. start \in Nat /\ start' \in Nat
        BY <1>0, <2>1
      <4> QED BY <4>1, Below
    <3>3. \A p \in 0..start' - 1 : Held(p)'
      BY <1>0, <2>3, <2>6, <3>1, <3>2 DEF Held
    <3> QED BY <1>0, <2>1, <2>2, <2>6, <3>3 DEF TileInv
  <2> QED BY <2>4, <2>5, <2>6
<1> QED
  BY <1>1, <1>2, <1>3 DEF Form

-----------------------------------------------------------------------------
Inv == Typed /\ Bounds /\ Standing /\ LineInv /\ FitInv /\ BodyInv /\ TileInv

LEMMA InitInv == Init => Inv
<1> SUFFICES ASSUME Init PROVE Inv
  OBVIOUS
<1>1. /\ text \in Seq(Glyph) /\ reader \in Reader /\ input = text /\ Len(text) \in Nat
      /\ state = "text" /\ pos = 0 /\ start = 0 /\ line = 1 /\ startLine = 1
      /\ depth = 0 /\ inside = FALSE /\ items = <<>> /\ multi = TRUE /\ cond = <<>> /\ body = <<>>
  <2>1. PICK i \in Input : reader = i[1] /\ text = i[2] /\ input = i[2]
    BY DEF Init
  <2>2. i \in Reader \X Seq(Glyph)
    BY <2>1, InputAssumption
  <2>3. text \in Seq(Glyph) /\ reader \in Reader
    BY <2>1, <2>2
  <2> QED BY <2>1, <2>3 DEF Init
<1>2. Lines(text, 0, 0) = 0
  BY LinesNone
<1>3. Standing
  <2>1. start \in 0..pos /\ pos \in 0..Len(text) /\ depth \in 0..pos
    BY <1>1
  <2>2. line = 1 + Lines(text, 0, pos) /\ startLine = 1 + Lines(text, 0, start)
    BY <1>1, <1>2
  <2>3. state \notin Quotes /\ state \notin {"inside", "space", "right"} \cup Quotes
    BY <1>1 DEF Quotes
  <2>4. inside \in BOOLEAN /\ ~inside
    BY <1>1
  <2> QED BY <1>1, <2>1, <2>2, <2>3, <2>4 DEF Standing
<1>4. Typed /\ Bounds
  <2>1. items \in Seq(ItemRec) /\ body \in Seq(PieceRec) /\ cond \in Seq(0..Len(text)) /\ multi \in BOOLEAN
    BY <1>1
  <2>2. Typed
    BY <1>1, <2>1 DEF Typed, Pieces
  <2>3. input \in {text, <<>>} /\ pos \in 0..Len(input) /\ start \in 0..pos
    BY <1>1
  <2>4. depth \in -1..Len(text) /\ line \in 1..Len(text) + 1 /\ startLine \in 1..line
    BY <1>1
  <2> QED BY <1>1, <2>2, <2>3, <2>4 DEF Bounds
<1>5. LineInv /\ TileInv
  BY <1>1 DEF LineInv, TileInv
<1>6. /\ DOMAIN items = {} /\ DOMAIN body = {} /\ Len(items) = 0 /\ Len(body) = 0
  BY <1>1
<1>7. Open(items) = 0 /\ Parens(items) = 0
  <2>1. \A s, typ : Count(s, typ, 0) = 0
    BY CountNext
  <2> QED BY <1>6, <2>1 DEF Open, Parens
<1>8. Open(body) = 0
  BY <1>1, <1>7
<1>9. FitInv
  BY <1>1, <1>6, <1>7 DEF FitInv, ItemsFit
<1>10. BodyInv
  BY <1>1, <1>6, <1>8 DEF BodyInv, BodyDelimited
<1> QED
  BY <1>3, <1>4, <1>5, <1>9, <1>10 DEF Inv

LEMMA NextInv == Inv /\ [Next]_vars => Inv'
<1> SUFFICES ASSUME Inv, [Next]_vars PROVE Inv'
  OBVIOUS
<1>0. Typed /\ Bounds /\ Standing /\ LineInv /\ FitInv /\ BodyInv /\ TileInv /\ text \in Seq(Glyph)
  BY DEF Inv, Typed
<1>1. CASE Step
  <2>1. Live /\ Form
    BY <1>0, <1>1, StepForm
  <2>2. Typed' /\ Bounds'
    BY <1>0, <2>1, TypedStep, BoundsStep
  <2>3. Standing' /\ LineInv'
    BY <1>0, <2>1, StandingStep, LineStep
  <2>4. FitInv'
    BY <1>0, <2>1, FitStep
  <2>5. BodyInv'
    BY <1>0, <2>1, BodyStep
  <2>6. TileInv'
    BY <1>0, <2>1, TileStep
  <2> QED BY <2>2, <2>3, <2>4, <2>5, <2>6 DEF Inv
<1>2. CASE UNCHANGED vars
  <2>1. Typed' /\ Bounds'
    BY <1>0, <1>2 DEF vars, Typed, Pieces, Bounds, ItemRec, PieceRec
  <2>2. Standing' /\ LineInv'
    BY <1>0, <1>2 DEF vars, Standing, LineInv, LineAt, Lines, At, AtRight, TrimRight
  <2>3. FitInv'
    <3>1. UNCHANGED <<text, state, pos, inside, depth, items>>
      BY <1>2 DEF vars
    <3>2. FitInv
      BY <1>0
    <3>3. ItemsFit' <=> ItemsFit
      BY <3>1 DEF ItemsFit, NumberOf
    <3>4. Open(items)' = Open(items) /\ Parens(items)' = Parens(items)
      BY <3>1 DEF Open, Parens, Count
    <3>5. At(text, pos)' = At(text, pos) /\ (AtRight(text, pos)' <=> AtRight(text, pos))
      BY <3>1 DEF AtRight, TrimRight, At
    <3> QED BY <3>1, <3>2, <3>3, <3>4, <3>5 DEF FitInv
  <2>4. BodyInv'
    BY <1>0, <1>2 DEF vars, BodyInv, BodyDelimited, Open, Count
  <2>5. TileInv'
    <3>1. UNCHANGED <<text, state, start, items>>
      BY <1>2 DEF vars
    <3>2. \A p : Skipped(p)' <=> Skipped(p)
      BY <3>1 DEF Skipped, TrimMark, TrimmedSpace, InComment, Spaces, T
    <3>3. \A p : Held(p)' <=> Held(p)
      BY <3>1, <3>2 DEF Held
    <3>4. \A p : At(text, p)' = At(text, p)
      BY <3>1 DEF At
    <3>5. TileInv
      BY <1>0
    <3> QED BY <3>1, <3>3, <3>4, <3>5 DEF TileInv
  <2> QED BY <2>1, <2>2, <2>3, <2>4, <2>5 DEF Inv
<1> QED
  BY <1>1, <1>2 DEF Next, Done

LEMMA AlwaysInv == Spec => []Inv
BY InitInv, NextInv, PTL DEF Spec

\* The type invariant: every field of the lexer, and what both readers hold of its items, stays
\* in its type, the offsets in order within the input that is left.
THEOREM TypeCorrect == Spec => []TypeOK
<1>1. Inv => TypeOK
  <2> SUFFICES ASSUME Inv PROVE TypeOK
    OBVIOUS
  <2>1. DOMAIN QuoteType = Quotes
    BY DEF QuoteType, Quotes
  <2>2. Typed /\ Bounds
    BY DEF Inv
  <2> QED BY <2>1, <2>2 DEF TypeOK, Typed, Pieces, Bounds, ItemRec, PieceRec, Quotes
<1> QED
  BY <1>1, AlwaysInv, PTL

\* Every item the lexer emits carries the line it starts on, whichever of next, backup, ignore,
\* lexText and lexComment counted the newlines before it.
THEOREM LinesRight == Spec => []LinesTrue
<1>1. Inv => LinesTrue
  BY LineInvLines DEF Inv
<1> QED
  BY <1>1, AlwaysInv, PTL

\* What peekNonSpace and the grammar of the parser rely on: text only outside of delimiters,
\* delimiters that alternate, spaces apart, and the parentheses of an action closed within it.
THEOREM ItemsFitGrammar == Spec => []ItemsFit
<1>1. Inv => ItemsFit
  BY DEF Inv, FitInv
<1> QED
  BY <1>1, AlwaysInv, PTL

\* However handleFiledName splits an action at its commas, the pieces of its result stand in
\* delimiters that alternate, with nothing but text and the commas outside of them.
THEOREM ActionsDelimited == Spec => []BodyDelimited
<1>1. Inv => BodyDelimited
  BY DEF Inv, BodyInv
<1> QED
  BY <1>1, AlwaysInv, PTL

\* The items are in the order of the text, do not overlap, and leave out nothing of it before
\* the lexer but trim markers, the spaces these take, and comments.
THEOREM TextTiled == Spec => []Tiled
<1>1. Inv => Tiled
  <2> SUFFICES ASSUME TileInv PROVE Tiled
    BY DEF Inv
  <2> QED BY DEF TileInv, Tiled, Held, Skipped
<1> QED
  BY <1>1, AlwaysInv, PTL
=============================================================================
