--------------------------- MODULE PreHandleProof ---------------------------
(***************************************************************************)
(* The pre-processor keeps its pieces in the order of the tokens they came *)
(* from; outside INSERT statements it loses none that it reads, names      *)
(* every ? after the identifier before it and guards every parameter of an *)
(* option, for statements of any length and any nesting of brackets.  In   *)
(* an INSERT a ? of the first tuple has the name of the column at its place. *)
(***************************************************************************)
EXTENDS PreHandle, FiniteSetTheorems, SequenceTheorems, TLAPS

USE InputAssumption

\* Pieces p and q stand in the right order.
Before(p, q) == p.at < q.at \/ (p.at = q.at /\ q.kind = "end")
Sorted(s) == \A i, j \in DOMAIN s : i < j => Before(s[i], s[j])

\* A piece behind all others keeps a sequence sorted.
LEMMA SortedAppend ==
  ASSUME NEW S, NEW s \in Seq(S), Sorted(s), NEW e \in S,
         \A i \in DOMAIN s : Before(s[i], e)
  PROVE  Sorted(Append(s, e))
<1>1. /\ DOMAIN s = 1..Len(s) /\ Len(s) \in Nat
      /\ DOMAIN Append(s, e) = 1..(Len(s) + 1)
      /\ \A i \in 1..Len(s) : Append(s, e)[i] = s[i]
      /\ Append(s, e)[Len(s) + 1] = e
  BY LenProperties, AppendProperties
<1>2. ASSUME NEW i \in 1..(Len(s) + 1), NEW j \in 1..(Len(s) + 1), i < j
      PROVE  Before(Append(s, e)[i], Append(s, e)[j])
  <2>1. i \in 1..Len(s) /\ (j \in 1..Len(s) \/ j = Len(s) + 1)
    BY <1>1, <1>2
  <2> QED
    BY <1>1, <1>2, <2>1 DEF Sorted
<1> QED
  BY <1>1, <1>2 DEF Sorted

\* Two sorted sequences, one behind the other.
LEMMA SortedConcat ==
  ASSUME NEW S, NEW s \in Seq(S), NEW t \in Seq(S), Sorted(s), Sorted(t),
         \A i \in DOMAIN s, j \in DOMAIN t : Before(s[i], t[j])
  PROVE  Sorted(s \o t)
<1>1. /\ DOMAIN s = 1..Len(s) /\ Len(s) \in Nat
      /\ DOMAIN t = 1..Len(t) /\ Len(t) \in Nat
      /\ DOMAIN (s \o t) = 1..(Len(s) + Len(t))
      /\ \A i \in 1..(Len(s) + Len(t)) :
           (s \o t)[i] = IF i <= Len(s) THEN s[i] ELSE t[i - Len(s)]
  <2>1. s \o t \in Seq(S) /\ Len(s \o t) = Len(s) + Len(t)
    BY ConcatProperties
  <2>2. DOMAIN (s \o t) = 1..Len(s \o t)
    BY <2>1, LenProperties
  <2> QED
    BY <2>1, <2>2, LenProperties, ConcatProperties
<1>2. ASSUME NEW i \in 1..(Len(s) + Len(t)), NEW j \in 1..(Len(s) + Len(t)), i < j
      PROVE  Before((s \o t)[i], (s \o t)[j])
  <2>1. CASE j <= Len(s)
    <3>1. i \in 1..Len(s) /\ j \in 1..Len(s)
      BY <1>1, <1>2, <2>1
    <3> QED
      BY <1>1, <1>2, <3>1 DEF Sorted
  <2>2. CASE i <= Len(s) /\ j > Len(s)
    <3>1. i \in 1..Len(s) /\ j - Len(s) \in 1..Len(t)
      BY <1>1, <2>2
    <3> QED
      BY <1>1, <2>2, <3>1
  <2>3. CASE i > Len(s)
    <3>1. i - Len(s) \in 1..Len(t) /\ j - Len(s) \in 1..Len(t) /\ i - Len(s) < j - Len(s)
      BY <1>1, <1>2, <2>3
    <3>2. ~(i <= Len(s)) /\ ~(j <= Len(s))
      BY <1>1, <1>2, <2>3
    <3> QED
      BY <1>1, <3>1, <3>2 DEF Sorted
  <2> QED
    BY <1>1, <2>1, <2>2, <2>3
<1> QED
  BY <1>1, <1>2 DEF Sorted
-----------------------------------------------------------------------------
\* Consuming a token: the lexer moves by one within the statement.
LEMMA TokenFacts ==
  ASSUME TypeOK, NEW kinds, At(kinds)
  PROVE  /\ UNCHANGED input /\ pos' = pos + 1 /\ pos' \in 0..Len(input) /\ pos + 1 \in 1..pos'
         /\ Tok.name \in Name /\ Tok.kind \in kinds
<1>1. input \in Seq(Token) /\ pos \in 0..Len(input) /\ pos < Len(input) /\ Len(input) \in Nat
  BY LenProperties DEF TypeOK, At
<1>2. Tok \in Token
  BY <1>1, ElementOfSeq DEF Tok
<1> QED
  BY <1>1, <1>2 DEF At, Token

\* The end of the statement, or an @ the lexer takes for it.
LEMMA EndFacts ==
  ASSUME TypeOK, AtEnd
  PROVE  UNCHANGED input /\ pos' \in {pos, pos + 1} /\ pos' \in 0..Len(input)
<1>1. CASE At({"stop"})
  BY <1>1, TokenFacts
<1> QED
  BY <1>1 DEF AtEnd, TypeOK

\* Pieces stay pieces while the lexer moves on.
LEMMA PiecesGrow ==
  ASSUME NEW m \in Nat, NEW n \in Nat, m <= n
  PROVE  /\ \A s \in Seq(PieceAt(1..m)) : s \in Seq(PieceAt(1..n))
         /\ \A s \in Seq(OutAt(1..m)) : s \in Seq(OutAt(1..n))
<1>1. PieceAt(1..m) \subseteq PieceAt(1..n)
  BY DEF PieceAt
<1>2. OutAt(1..m) \subseteq OutAt(1..n)
  BY <1>1 DEF OutAt
<1> QED
  BY <1>1, <1>2, SeqMonotonic

\* handleAtsign starts with nothing read and nothing written.
LEMMA InitType == Init => TypeOK /\ OptionInv /\ InOrder
<1> SUFFICES ASSUME Init PROVE TypeOK /\ OptionInv /\ InOrder
  OBVIOUS
<1>1. input \in Seq(Token) /\ Len(input) \in Nat
  BY LenProperties DEF Init
<1>2. out \in Seq(OutAt(1..pos)) /\ body \in Seq(PieceAt(1..pos)) /\ cond \in Conds /\ columns \in Seq(Name)
  BY EmptySeq DEF Init, Conds
<1>3. /\ pos = 0 /\ mode = "atsign" /\ preKey = NoName /\ optKey = NoName /\ brackets = 0
      /\ start = 0 /\ opened = FALSE /\ slot = 1 /\ parens = 0
  BY DEF Init
<1>4. TypeOK
  <2>1. pos \in 0..Len(input) /\ brackets \in -pos..pos /\ parens \in -pos..pos /\ start \in 0..pos
        /\ slot \in 1..pos + 1
    BY <1>1, <1>3
  <2> QED
    BY <1>1, <1>2, <1>3, <2>1 DEF TypeOK, Ref
<1>5. OptionInv
  BY <1>3 DEF OptionInv
<1>6. InOrder
  BY DEF Init, InOrder
<1> QED
  BY <1>4, <1>5, <1>6

\* The pieces the handlers write.
LEMMA PieceTypes ==
  ASSUME TypeOK, NEW kinds, At(kinds)
  PROVE  /\ Text \in PieceAt(1..pos') /\ Text \in OutAt(1..pos')
         /\ \A name \in Ref : Field(name) \in PieceAt(1..pos') /\ Field(name) \in OutAt(1..pos')
         /\ Text.at = pos + 1 /\ \A name : Field(name).at = pos + 1
BY TokenFacts DEF Text, Field, Piece, PieceAt, OutAt, Ref

\* Where a step can leave the lexer.
LEMMA Moves ==
  ASSUME TypeOK, Step
  PROVE  UNCHANGED input /\ pos' \in {pos, pos + 1} /\ pos' \in 0..Len(input) /\ pos \in Nat
<1>1. pos \in Nat
  BY DEF TypeOK
<1>2. CASE \E kinds : At(kinds)
  BY <1>1, <1>2, TokenFacts
<1>3. CASE AtEnd
  BY <1>1, <1>3, EndFacts
<1>4. (\E kinds : At(kinds)) \/ AtEnd
  BY DEF Step, AtsignItem, AtsignOption, AtsignInsert, AtsignEnd, OptionItem, OptionMark, OptionBracket,
     OptionEnd, ColumnsItem, ColumnsEnd, ValuesItem, ValuesMark, ValuesEnd
<1> QED
  BY <1>2, <1>3, <1>4

\* What a step may write: nothing, one piece for the token it consumes, or an option.
Written(s, t) ==
  \/ t = s
  \/ \E e \in PieceAt(1..pos') : e.at = pos + 1 /\ pos' = pos + 1 /\ t = Append(s, e)

\* What handleAtsign itself writes.
LEMMA AtsignWrites ==
  ASSUME TypeOK, AtsignItem \/ AtsignOption \/ AtsignInsert \/ AtsignEnd
  PROVE  Written(out, out')
<1>1. preKey \in Ref /\ Name \subseteq Ref
  BY DEF TypeOK, Ref
<1>2. ASSUME NEW kinds, At(kinds), Emit(Text) \/ Emit(Field(Tok.name)) \/ Emit(Field(preKey))
      PROVE  Written(out, out')
  BY <1>1, <1>2, TokenFacts, PieceTypes DEF Emit, Written
<1>3. CASE AtsignItem \/ AtsignInsert
  BY <1>2, <1>3 DEF AtsignItem, AtsignInsert
<1>4. CASE AtsignOption \/ AtsignEnd
  BY <1>4 DEF AtsignOption, AtsignEnd, Written
<1> QED
  BY <1>3, <1>4

\* What handleInsertColumns and handleInsertValues write.
LEMMA InsertWrites ==
  ASSUME TypeOK, ColumnsItem \/ ColumnsEnd \/ ValuesItem \/ ValuesEnd
  PROVE  Written(out, out')
<1>1. Name \subseteq Ref
  BY DEF Ref
<1>2. ASSUME NEW kinds, At(kinds), Emit(Text) \/ Emit(Field(Tok.name))
      PROVE  Written(out, out')
  BY <1>1, <1>2, TokenFacts, PieceTypes DEF Emit, Written
<1>3. CASE ColumnsItem
  BY <1>2, <1>3 DEF ColumnsItem
<1>4. CASE ColumnsEnd
  BY <1>2, <1>4 DEF ColumnsEnd, Written
<1>5. CASE ValuesItem
  <2>1. ASSUME ValuesMark PROVE Written(out, out')
    <3>1. CASE slot <= Len(columns)
      <4>1. columns[slot] \in Ref
        <5>1. columns \in Seq(Name) /\ slot \in 1..Len(columns)
          BY <3>1, LenProperties DEF TypeOK
        <5> QED
          BY <1>1, <5>1, ElementOfSeq
      <4>2. At({"mark"}) /\ Emit(Field(columns[slot]))
        BY <2>1, <3>1 DEF ValuesMark
      <4> QED
        BY <4>1, <4>2, TokenFacts, PieceTypes DEF Emit, Written
    <3>2. CASE ~(slot <= Len(columns))
      BY <2>1, <3>2 DEF ValuesMark, Written
    <3> QED
      BY <3>1, <3>2
  <2> QED
    BY <1>2, <1>5, <2>1 DEF ValuesItem, Written
<1>6. CASE ValuesEnd
  BY <1>6 DEF ValuesEnd, Written
<1> QED
  BY <1>3, <1>4, <1>5, <1>6

\* Append, for an element of any set.
LEMMA AppendAny ==
  ASSUME NEW S, NEW s \in Seq(S), NEW e
  PROVE  /\ DOMAIN s = 1..Len(s) /\ Len(s) \in Nat
         /\ DOMAIN Append(s, e) = 1..(Len(s) + 1)
         /\ \A i \in 1..Len(s) : Append(s, e)[i] = s[i]
         /\ Append(s, e)[Len(s) + 1] = e
<1>1. s \in Seq(S \cup {e}) /\ e \in S \cup {e}
  BY SeqMonotonic
<1> DEFINE T == S \cup {e}
<1>2. s \in Seq(T) /\ e \in T
  BY <1>1
<1> HIDE DEF T
<1> QED
  BY <1>2, AppendProperties, LenProperties

\* A name more for the condition: it is asked for, and so is what was before.
LEMMA CondFacts ==
  ASSUME cond \in Conds, NEW name \in Ref, Cond(name) \/ Joined(name)
  PROVE  /\ cond' \in Conds /\ Asks(cond', name)
         /\ \A other : Asks(cond, other) => Asks(cond', other)
<1> DEFINE arg == <<name>>
<1>0. cond \in Seq(Arguments) /\ DOMAIN cond = 1..Len(cond) /\ Len(cond) \in Nat
  BY LenProperties DEF Conds
<1>1. arg \in Arguments /\ Len(arg) = 1
  BY DEF Arguments
<1>2. CASE Cond(name)
  <2>1. cond' = Append(cond, arg)
    BY <1>2 DEF Cond
  <2> HIDE DEF arg
  <2>2. /\ DOMAIN cond' = 1..(Len(cond) + 1) /\ cond'[Len(cond) + 1] = arg
        /\ \A n \in 1..Len(cond) : cond'[n] = cond[n]
    BY <1>0, <2>1, AppendAny
  <2>3. cond' \in Conds
    BY <1>0, <1>1, <2>1, AppendProperties DEF Conds
  <2>4. Len(cond) + 1 \in DOMAIN cond' /\ \A n \in DOMAIN cond : n \in DOMAIN cond' /\ cond'[n] = cond[n]
    BY <1>0, <2>2
  <2> QED
    BY <2>2, <2>3, <2>4 DEF Asks, arg
<1>3. CASE Joined(name) /\ cond = <<>>
  <2>1. cond' = <<arg>>
    BY <1>3 DEF Joined
  <2> HIDE DEF arg
  <2>2. cond' \in Seq(Arguments) /\ DOMAIN cond' = {1} /\ cond'[1] = arg
    BY <1>1, <2>1
  <2>3. ~\E n \in DOMAIN cond : TRUE
    BY <1>3
  <2> QED
    BY <2>2, <2>3 DEF Conds, Asks, arg
<1>4. CASE Joined(name) /\ cond # <<>>
  <2> DEFINE l == Len(cond)
             more == Append(cond[l], name)
  <2>1. l \in 1..l /\ l \in DOMAIN cond
    BY <1>0, <1>4, EmptySeq
  <2>2. cond[l] \in Seq(Ref) /\ cond[l] # <<>>
    BY <1>0, <2>1, ElementOfSeq DEF Arguments
  <2>3. more \in Seq(Ref) /\ Len(more) = Len(cond[l]) + 1 /\ Len(cond[l]) > 0
    BY <2>2, AppendProperties, EmptySeq, LenProperties
  <2>4. Len(more) > 1 /\ more \in Arguments
    <3>1. Len(more) > 1
      BY <2>2, <2>3, LenProperties
    <3>2. more # <<>>
      BY <2>3, <3>1, EmptySeq
    <3> QED
      BY <2>3, <3>1, <3>2 DEF Arguments
  <2>5. cond' = [cond EXCEPT ![l] = more]
    BY <1>4 DEF Joined
  <2> HIDE DEF more, l
  <2>6. cond' \in Seq(Arguments)
    BY <1>0, <2>1, <2>4, <2>5, ExceptSeq
  <2>7. l \in DOMAIN cond' /\ cond'[l] = more
    BY <2>1, <2>5
  <2> QED
    BY <2>4, <2>6, <2>7 DEF Conds, Asks
<1> QED
  BY <1>2, <1>3, <1>4

\* What handleOption writes, and what it collects for the condition.
LEMMA OptionWrites ==
  ASSUME TypeOK, OptionItem \/ OptionBracket
  PROVE  /\ UNCHANGED out /\ Written(body, body')
         /\ cond' \in Conds /\ optKey' \in Ref
<1>1. cond \in Conds /\ optKey \in Ref /\ Name \subseteq Ref
  BY DEF TypeOK, Ref
<1>2. ASSUME NEW kinds, At(kinds), Body(Text) \/ Body(Field(Tok.name)) \/ Body(Field(optKey))
      PROVE  Written(body, body')
  BY <1>1, <1>2, TokenFacts, PieceTypes DEF Body, Written
<1>3. ASSUME NEW name \in Ref, Cond(name) \/ Joined(name)
      PROVE  cond' \in Conds
  BY <1>1, <1>3, CondFacts
<1>4. CASE OptionItem
  <2>1. CASE OptionMark
    BY <1>1, <1>2, <1>3, <1>4, <2>1 DEF OptionItem, OptionMark
  <2>2. CASE (\E kinds : At(kinds)) /\ (Cond(Tok.name) \/ Joined(Tok.name)) /\ Body(Field(Tok.name)) /\ UNCHANGED optKey
    BY <1>1, <1>2, <1>3, <1>4, <2>2, TokenFacts DEF OptionItem
  <2>3. CASE At(Ident) /\ Body(Text) /\ optKey' = Key /\ UNCHANGED cond
    BY <1>1, <1>2, <1>4, <2>3, TokenFacts DEF OptionItem, Key
  <2>4. CASE At({"keyword", "comma", "char", "text", "lparen", "rparen"}) /\ Body(Text)
             /\ UNCHANGED <<cond, optKey>>
    BY <1>1, <1>2, <1>4, <2>4 DEF OptionItem
  <2> QED
    BY <1>4, <2>1, <2>2, <2>3, <2>4 DEF OptionItem
<1>5. CASE OptionBracket
  BY <1>1, <1>5 DEF OptionBracket, Written
<1> QED
  BY <1>4, <1>5

\* Writing a piece keeps a buffer well-formed.
LEMMA WrittenTypes ==
  ASSUME TypeOK, Step, NEW s, NEW t, Written(s, t)
  PROVE  /\ s \in Seq(PieceAt(1..pos)) => t \in Seq(PieceAt(1..pos'))
         /\ s \in Seq(OutAt(1..pos)) => t \in Seq(OutAt(1..pos'))
<1>1. pos \in Nat /\ pos' \in Nat /\ pos <= pos'
  BY Moves
<1>2. PieceAt(1..pos') \subseteq OutAt(1..pos')
  BY DEF OutAt
<1> DEFINE P == PieceAt(1..pos')
           O == OutAt(1..pos')
<1>3. ASSUME s \in Seq(PieceAt(1..pos)) PROVE t \in Seq(P)
  <2>1. s \in Seq(P)
    BY <1>1, <1>3, PiecesGrow
  <2> HIDE DEF P
  <2>2. ASSUME NEW e \in P, t = Append(s, e) PROVE t \in Seq(P)
    BY <2>1, <2>2, AppendProperties
  <2> QED
    BY <2>1, <2>2 DEF Written, P
<1>4. ASSUME s \in Seq(OutAt(1..pos)) PROVE t \in Seq(O)
  <2>1. s \in Seq(O)
    BY <1>1, <1>4, PiecesGrow
  <2> HIDE DEF O
  <2>2. ASSUME NEW e \in O, t = Append(s, e) PROVE t \in Seq(O)
    BY <2>1, <2>2, AppendProperties
  <2> QED
    BY <1>2, <2>1, <2>2 DEF Written, O
<1> QED
  BY <1>3, <1>4

\* The end of an option: its pieces, in order, between the if and the end.
LEMMA WrappedFacts ==
  ASSUME TypeOK, OptionInv, OptionEnd
  PROVE  /\ Wrapped \in Seq(OutAt(1..pos')) /\ Sorted(Wrapped)
         /\ \A i \in DOMAIN Wrapped : Wrapped[i].at >= start
<1> DEFINE O == OutAt(1..pos')
<1>1. mode = "option" /\ start \in 1..pos /\ pos \in Nat /\ pos' \in Nat /\ pos <= pos'
  BY Moves DEF OptionEnd, OptionInv, TypeOK, Step
<1>2. body \in Seq(O)
  <2>1. body \in Seq(PieceAt(1..pos'))
    BY <1>1, PiecesGrow DEF TypeOK
  <2>2. PieceAt(1..pos') \subseteq O
    BY DEF OutAt
  <2> QED
    BY <2>1, <2>2, SeqMonotonic
<1>3. \A i \in DOMAIN body : body[i].at \in 1..pos /\ body[i].at > start
  <2>1. body \in Seq(PieceAt(1..pos)) /\ DOMAIN body = 1..Len(body)
    BY LenProperties DEF TypeOK
  <2>2. \A i \in DOMAIN body : body[i] \in PieceAt(1..pos)
    BY <2>1, ElementOfSeq
  <2> QED
    BY <1>1, <2>2 DEF PieceAt, OptionInv
<1>4. Sorted(body)
  BY <1>1 DEF OptionInv, Sorted, Before
<1>5. CASE cond = <<>>
  <2>1. Wrapped = body
    BY <1>5 DEF Wrapped
  <2> QED
    BY <1>1, <1>2, <1>3, <1>4, <2>1
<1>6. CASE cond # <<>>
  <2>1. If \in O /\ If.at = start
    BY <1>1 DEF If, OutAt, TypeOK
  <2>2. End \in O /\ End.at = pos' /\ End.kind = "end"
    BY <1>1 DEF End, OutAt
  <2>3. Wrapped = (<<If>> \o body) \o <<End>>
    BY <1>6 DEF Wrapped
  <2> HIDE DEF O
  <2>4. /\ <<If>> \in Seq(O) /\ DOMAIN <<If>> = {1} /\ <<If>>[1] = If
        /\ <<End>> \in Seq(O) /\ DOMAIN <<End>> = {1} /\ <<End>>[1] = End
    BY <2>1, <2>2
  <2>5. Sorted(<<If>>) /\ Sorted(<<End>>)
    BY <2>4 DEF Sorted
  <2>6. <<If>> \o body \in Seq(O) /\ Sorted(<<If>> \o body)
    <3>1. \A i \in DOMAIN <<If>>, j \in DOMAIN body : Before(<<If>>[i], body[j])
      BY <1>1, <1>3, <2>1, <2>4 DEF Before
    <3> QED
      BY <1>2, <1>4, <2>4, <2>5, <3>1, SortedConcat, ConcatProperties
  <2>7. \A i \in DOMAIN (<<If>> \o body) : (<<If>> \o body)[i].at \in start..pos
    <3>1. /\ DOMAIN (<<If>> \o body) = 1..(1 + Len(body)) /\ Len(body) \in Nat /\ DOMAIN body = 1..Len(body)
          /\ \A i \in 1..(1 + Len(body)) : (<<If>> \o body)[i] = IF i <= 1 THEN If ELSE body[i - 1]
      BY <1>2, <2>4, ConcatProperties, LenProperties
    <3>2. \A i \in 1..(1 + Len(body)) : i <= 1 \/ i - 1 \in DOMAIN body
      BY <3>1
    <3> QED
      BY <1>1, <1>3, <2>1, <3>1, <3>2
  <2>8. \A i \in DOMAIN (<<If>> \o body), j \in DOMAIN <<End>> : Before((<<If>> \o body)[i], <<End>>[j])
    BY <1>1, <2>2, <2>4, <2>7 DEF Before
  <2>9. Wrapped \in Seq(O) /\ Sorted(Wrapped)
    BY <2>3, <2>4, <2>5, <2>6, <2>8, SortedConcat, ConcatProperties
  <2>10. \A i \in DOMAIN Wrapped : Wrapped[i].at >= start
    <3> DEFINE w == <<If>> \o body
    <3>1. /\ Len(w) \in Nat /\ DOMAIN w = 1..Len(w) /\ DOMAIN Wrapped = 1..(Len(w) + 1)
          /\ \A i \in 1..(Len(w) + 1) : Wrapped[i] = IF i <= Len(w) THEN w[i] ELSE <<End>>[i - Len(w)]
      BY <2>3, <2>4, <2>6, <2>9, ConcatProperties, LenProperties
    <3>2. \A i \in 1..Len(w) : w[i].at \in start..pos
      BY <2>7, <3>1
    <3> HIDE DEF w
    <3>3. ASSUME NEW i \in 1..(Len(w) + 1) PROVE Wrapped[i].at >= start
      <4>1. CASE i <= Len(w)
        BY <1>1, <3>1, <3>2, <4>1
      <4>2. CASE i = Len(w) + 1
        BY <1>1, <2>2, <2>4, <3>1, <4>2
      <4> QED
        BY <3>1, <4>1, <4>2
    <3> QED
      BY <3>1, <3>3
  <2> QED
    BY <2>9, <2>10 DEF O
<1> QED
  BY <1>5, <1>6

\* The bounds of the counters move with the lexer.
LEMMA Ranges ==
  ASSUME NEW p \in Nat, NEW q \in {p, p + 1}
  PROVE  /\ \A n \in -p..p : n \in -q..q
         /\ \A n \in 0..p : n \in 0..q
         /\ \A n \in 1..p + 1 : n \in 1..q + 1
         /\ 0 \in -q..q /\ 1 \in 1..q + 1
OBVIOUS

\* No piece is from a token that has not been read.
LEMMA AtNat ==
  ASSUME NEW n \in Nat, NEW s \in Seq(OutAt(1..n))
  PROVE  \A i \in DOMAIN s : s[i].at \in 1..n
<1>1. DOMAIN s = 1..Len(s)
  BY LenProperties
<1>2. \A i \in DOMAIN s : s[i] \in OutAt(1..n)
  BY <1>1, ElementOfSeq
<1> QED
  BY <1>2 DEF OutAt, PieceAt

\* The buffers of every reachable state, likewise.
LEMMA AtBound ==
  ASSUME TypeOK
  PROVE  /\ \A i \in DOMAIN out : out[i].at \in 1..pos
         /\ \A i \in DOMAIN body : body[i].at \in 1..pos
<1>1. pos \in Nat /\ out \in Seq(OutAt(1..pos)) /\ body \in Seq(PieceAt(1..pos))
  BY DEF TypeOK
<1>2. body \in Seq(OutAt(1..pos))
  <2>1. PieceAt(1..pos) \subseteq OutAt(1..pos)
    BY DEF OutAt
  <2> QED
    BY <1>1, <2>1, SeqMonotonic
<1> QED
  BY <1>1, <1>2, AtNat

\* Every step keeps the types, one conjunct after the other.
LEMMA TypeStep ==
  ASSUME TypeOK, OptionInv, Step
  PROVE  TypeOK'
<1> DEFINE O == OutAt(1..pos')
<1>1. UNCHANGED input /\ pos' \in {pos, pos + 1} /\ pos' \in 0..Len(input) /\ pos \in Nat
  BY Moves
<1>2. out' \in Seq(O)
  <2>1. CASE Written(out, out')
    BY <2>1, WrittenTypes DEF TypeOK
  <2>2. CASE OptionEnd
    <3>1. Wrapped \in Seq(O) /\ out' = out \o Wrapped /\ out \in Seq(O)
      BY <1>1, <2>2, WrappedFacts, PiecesGrow DEF OptionEnd, TypeOK
    <3> HIDE DEF O
    <3> QED
      BY <3>1, ConcatProperties
  <2>3. CASE OptionItem \/ OptionBracket
    BY <2>1, <2>3, OptionWrites DEF Written
  <2> QED
    BY <2>1, <2>2, <2>3, AtsignWrites, InsertWrites DEF Step
<1>3. body' \in Seq(PieceAt(1..pos'))
  <2>1. CASE Written(body, body')
    BY <2>1, WrittenTypes DEF TypeOK
  <2>2. CASE AtsignOption
    BY <2>2, EmptySeq DEF AtsignOption
  <2>3. CASE OptionItem \/ OptionBracket
    BY <2>1, <2>3, OptionWrites
  <2>4. CASE ~(AtsignOption \/ OptionItem \/ OptionBracket)
    <3>1. UNCHANGED body
      BY <2>4 DEF Step, AtsignItem, AtsignInsert, AtsignEnd, OptionEnd, ColumnsItem, ColumnsEnd,
         ValuesItem, ValuesEnd, option
    <3> QED
      BY <2>1, <3>1 DEF Written
  <2> QED
    BY <2>2, <2>3, <2>4
<1>4. cond' \in Conds /\ optKey' \in Ref
  <2>1. CASE AtsignOption
    BY <2>1, EmptySeq DEF AtsignOption, Conds, Ref
  <2>2. CASE OptionItem \/ OptionBracket
    BY <2>2, OptionWrites
  <2>3. CASE ~(AtsignOption \/ OptionItem \/ OptionBracket)
    <3>1. UNCHANGED <<cond, optKey>>
      BY <2>3 DEF Step, AtsignItem, AtsignInsert, AtsignEnd, OptionEnd, ColumnsItem, ColumnsEnd,
         ValuesItem, ValuesEnd, option
    <3> QED
      BY <3>1 DEF TypeOK
  <2> QED
    BY <2>1, <2>2, <2>3
<1>5. preKey' \in Ref
  <2>1. CASE AtsignItem
    BY <2>1, TokenFacts DEF AtsignItem, Key, Ref, TypeOK
  <2> QED
    BY <2>1 DEF Step, AtsignOption, AtsignInsert, AtsignEnd, OptionItem, OptionBracket, OptionEnd,
       ColumnsItem, ColumnsEnd, ValuesItem, ValuesEnd, TypeOK
<1>6. brackets' \in -pos'..pos' /\ start' \in 0..pos'
  <2>0. brackets \in -pos..pos /\ start \in 0..pos
    BY DEF TypeOK
  <2>1. CASE AtsignOption
    <3>1. brackets' = 0 /\ start' = pos + 1 /\ pos' = pos + 1
      BY <2>1 DEF AtsignOption, At
    <3>2. 0 \in -(pos + 1)..(pos + 1) /\ pos + 1 \in 0..(pos + 1)
      BY <1>1
    <3> QED
      BY <3>1, <3>2
  <2>2. CASE OptionBracket
    <3>1. brackets' \in {brackets + 1, brackets - 1} /\ start' = start /\ pos' = pos + 1
      BY <2>2 DEF OptionBracket, At
    <3>2. /\ \A n \in -pos..pos : n + 1 \in -(pos + 1)..(pos + 1) /\ n - 1 \in -(pos + 1)..(pos + 1)
          /\ start \in 0..(pos + 1)
      BY <1>1, <2>0
    <3> QED
      BY <2>0, <3>1, <3>2
  <2>3. CASE ~(AtsignOption \/ OptionBracket)
    <3>1. UNCHANGED <<brackets, start>>
      BY <2>3 DEF Step, AtsignItem, AtsignInsert, AtsignEnd, OptionItem, OptionEnd, ColumnsItem,
         ColumnsEnd, ValuesItem, ValuesEnd, option
    <3> QED
      BY <1>1, <2>0, <3>1, Ranges
  <2> QED
    BY <2>1, <2>2, <2>3
<1>7. slot' \in 1..pos' + 1 /\ parens' \in -pos'..pos'
  <2>0. slot \in 1..pos + 1 /\ parens \in -pos..pos
    BY DEF TypeOK
  <2>1. CASE AtsignInsert
    <3>1. slot' = 1 /\ parens' = 0
      BY <2>1 DEF AtsignInsert
    <3> QED
      BY <1>1, <3>1, Ranges
  <2>2. CASE ValuesItem
    <3>1. pos' = pos + 1 /\ slot' \in {slot, slot + 1} /\ parens' \in {parens - 1, parens, parens + 1}
      BY <2>2 DEF ValuesItem, ValuesMark, NextSlot, At
    <3>2. /\ slot \in 1..(pos + 1) + 1 /\ slot + 1 \in 1..(pos + 1) + 1
          /\ parens \in -(pos + 1)..(pos + 1) /\ parens + 1 \in -(pos + 1)..(pos + 1)
          /\ parens - 1 \in -(pos + 1)..(pos + 1)
      BY <1>1, <2>0
    <3> QED
      BY <3>1, <3>2
  <2>3. CASE ~(AtsignInsert \/ ValuesItem)
    <3>1. UNCHANGED <<slot, parens>>
      BY <2>3 DEF Step, AtsignItem, AtsignOption, AtsignEnd, OptionItem, OptionBracket, OptionEnd,
         ColumnsItem, ColumnsEnd, ValuesEnd, insert
    <3> QED
      BY <1>1, <2>0, <3>1, Ranges
  <2> QED
    BY <2>1, <2>2, <2>3
<1>8. columns' \in Seq(Name) /\ opened' \in BOOLEAN
  <2>1. CASE AtsignInsert
    BY <2>1, EmptySeq DEF AtsignInsert
  <2>2. CASE ColumnsItem
    <3>1. columns' = columns \/ (columns' = Append(columns, Tok.name) /\ Tok.name \in Name)
      BY <2>2, TokenFacts DEF ColumnsItem
    <3>2. opened' \in {opened, TRUE}
      BY <2>2 DEF ColumnsItem
    <3>3. columns' \in Seq(Name)
      <4>1. columns \in Seq(Name)
        BY DEF TypeOK
      <4>2. \A n \in Name : Append(columns, n) \in Seq(Name)
        BY <4>1, AppendProperties
      <4> QED
        BY <3>1, <4>1, <4>2, Zenon
    <3>4. opened' \in BOOLEAN
      BY <3>2, Zenon DEF TypeOK
    <3> QED
      BY <3>3, <3>4
  <2>3. CASE ~(AtsignInsert \/ ColumnsItem)
    <3>1. UNCHANGED <<columns, opened>>
      BY <2>3 DEF Step, AtsignItem, AtsignOption, AtsignEnd, OptionItem, OptionBracket, OptionEnd,
         ColumnsEnd, ValuesItem, ValuesEnd, insert
    <3> QED
      BY <3>1 DEF TypeOK
  <2> QED
    BY <2>1, <2>2, <2>3
<1>9. mode' \in {"atsign", "option", "columns", "values", "done", "panic"}
  BY DEF Step, AtsignItem, AtsignOption, AtsignInsert, AtsignEnd, OptionItem, OptionBracket, OptionEnd,
     ColumnsItem, ColumnsEnd, ValuesItem, ValuesMark, ValuesEnd, TypeOK
<1>10. input' \in Seq(Token) /\ pos' \in 0..Len(input')
  BY <1>1 DEF TypeOK
<1> QED
  BY <1>2, <1>3, <1>4, <1>5, <1>6, <1>7, <1>8, <1>9, <1>10 DEF TypeOK

\* An open option keeps its pieces behind its bracket and those outside before it.
LEMMA OptionStep ==
  ASSUME TypeOK, OptionInv, Step
  PROVE  OptionInv'
<1> SUFFICES ASSUME mode' = "option"
    PROVE /\ start' >= 1
          /\ \A i \in DOMAIN out' : out'[i].at < start'
          /\ \A i \in DOMAIN body' : body'[i].at > start'
          /\ \A i, j \in DOMAIN body' : i < j => body'[i].at < body'[j].at
  BY DEF OptionInv
<1>1. pos \in Nat /\ start \in 0..pos
  BY DEF TypeOK
<1>2. \A i \in DOMAIN out : out[i].at \in 1..pos
  BY AtBound
<1>3. \A i \in DOMAIN body : body[i].at \in 1..pos
  BY AtBound
<1>4. CASE AtsignOption
  <2>1. start' = pos + 1 /\ out' = out /\ body' = <<>>
    BY <1>4 DEF AtsignOption
  <2> QED
    BY <1>1, <1>2, <2>1
<1>5. CASE OptionItem \/ OptionBracket
  <2>1. mode = "option" /\ start' = start /\ out' = out /\ Written(body, body')
    BY <1>5, OptionWrites DEF OptionItem, OptionBracket
  <2>2. CASE body' = body
    BY <2>1, <2>2 DEF OptionInv
  <2>3. ASSUME NEW e \in PieceAt(1..pos'), e.at = pos + 1, body' = Append(body, e)
        PROVE  /\ \A i \in DOMAIN body' : body'[i].at > start
               /\ \A i, j \in DOMAIN body' : i < j => body'[i].at < body'[j].at
    <3> DEFINE P == PieceAt(1..pos)
    <3>1. body \in Seq(P)
      BY DEF TypeOK
    <3> HIDE DEF P
    <3>2. /\ DOMAIN body = 1..Len(body) /\ Len(body) \in Nat
          /\ DOMAIN body' = 1..(Len(body) + 1)
          /\ \A i \in 1..Len(body) : body'[i] = body[i]
          /\ body'[Len(body) + 1] = e
      BY <2>3, <3>1, AppendAny
    <3>3. \A i \in 1..(Len(body) + 1) : i \in 1..Len(body) \/ i = Len(body) + 1
      BY <3>2
    <3>4. \A i \in DOMAIN body' : body'[i].at > start
      BY <1>1, <2>1, <2>3, <3>2, <3>3 DEF OptionInv
    <3>5. ASSUME NEW i \in DOMAIN body', NEW j \in DOMAIN body', i < j
          PROVE  body'[i].at < body'[j].at
      <4>1. i \in 1..Len(body) /\ (j \in 1..Len(body) \/ j = Len(body) + 1)
        BY <3>2, <3>5
      <4> QED
        BY <1>1, <1>3, <2>1, <2>3, <3>2, <3>5, <4>1 DEF OptionInv
    <3> QED
      BY <3>4, <3>5
  <2>4. start >= 1 /\ \A i \in DOMAIN out : out[i].at < start
    BY <2>1 DEF OptionInv
  <2> QED
    BY <2>1, <2>2, <2>3, <2>4 DEF Written
<1>6. CASE ~(AtsignOption \/ OptionItem \/ OptionBracket)
  BY <1>6 DEF Step, AtsignItem, AtsignInsert, AtsignEnd, OptionEnd, ColumnsItem, ColumnsEnd,
     ValuesItem, ValuesMark, ValuesEnd
<1> QED
  BY <1>4, <1>5, <1>6

\* Every step leaves the pieces in order.
LEMMA OrderStep ==
  ASSUME TypeOK, OptionInv, InOrder, Step
  PROVE  InOrder'
<1>1. Sorted(out) /\ pos \in Nat
  BY DEF InOrder, Sorted, Before, TypeOK
<1>2. Sorted(out')
  <2>1. CASE out' = out
    BY <1>1, <2>1
  <2>2. ASSUME NEW e \in PieceAt(1..pos'), e.at = pos + 1, out' = Append(out, e)
        PROVE  Sorted(out')
    <3> DEFINE S == OutAt(1..pos')
    <3>1. out \in Seq(S) /\ e \in S
      <4>1. pos' \in Nat /\ pos <= pos' /\ out \in Seq(OutAt(1..pos))
        BY Moves DEF TypeOK
      <4>2. out \in Seq(S)
        BY <1>1, <4>1, PiecesGrow
      <4>3. e \in S
        BY DEF OutAt
      <4> QED
        BY <4>2, <4>3
    <3>2. \A i \in DOMAIN out : Before(out[i], e)
      BY <1>1, <2>2, AtBound DEF Before
    <3> HIDE DEF S
    <3> QED
      BY <1>1, <2>2, <3>1, <3>2, SortedAppend
  <2>3. CASE OptionEnd
    <3> DEFINE S == OutAt(1..pos')
    <3>1. /\ out \in Seq(S) /\ Wrapped \in Seq(S) /\ Sorted(Wrapped)
          /\ \A i \in DOMAIN Wrapped : Wrapped[i].at >= start
      BY <2>3, Moves, PiecesGrow, WrappedFacts DEF TypeOK
    <3>2. \A i \in DOMAIN Wrapped : Wrapped[i].at \in Nat
      BY <2>3, Moves, WrappedFacts, AtNat
    <3>3. /\ out' = out \o Wrapped /\ start \in Nat
          /\ \A i \in DOMAIN out : out[i].at < start /\ out[i].at \in 1..pos
      BY <2>3, AtBound DEF OptionEnd, OptionInv, TypeOK
    <3>4. \A i \in DOMAIN out, j \in DOMAIN Wrapped : Before(out[i], Wrapped[j])
      BY <1>1, <3>1, <3>2, <3>3 DEF Before
    <3> HIDE DEF S
    <3> QED
      BY <1>1, <3>1, <3>3, <3>4, SortedConcat
  <2>4. Written(out, out') \/ OptionEnd
    BY AtsignWrites, InsertWrites, OptionWrites DEF Step, Written
  <2> QED
    BY <2>1, <2>2, <2>3, <2>4 DEF Written
<1> QED
  BY <1>2 DEF InOrder, Sorted, Before
-----------------------------------------------------------------------------
IInv == TypeOK /\ OptionInv /\ InOrder

\* Together the three are inductive.
LEMMA Invariance == Spec => []IInv
<1>1. Init => IInv
  BY InitType DEF IInv
<1>2. IInv /\ [Next]_vars => IInv'
  <2>1. ASSUME IInv, Step PROVE IInv'
    BY <2>1, TypeStep, OptionStep, OrderStep DEF IInv
  <2>2. ASSUME IInv, UNCHANGED vars PROVE IInv'
    <3>1. TypeOK'
      BY <2>2 DEF IInv, TypeOK, vars
    <3>2. OptionInv' /\ InOrder'
      BY <2>2 DEF IInv, OptionInv, InOrder, vars
    <3> QED
      BY <3>1, <3>2 DEF IInv
  <2> QED
    BY <2>1, <2>2 DEF Next, Finished
<1> QED
  BY <1>1, <1>2, PTL DEF Spec

\* The buffers, counters and names of the handlers of pre_handle.go and pre_handle_sql.go
\* stay what they are meant to be, for statements of any length and any vocabulary.
THEOREM TypeCorrect == Spec => []TypeOK
BY Invariance, PTL DEF IInv

\* However options are nested, cut off or left open, and whatever handler a token falls to,
\* handleAtsign writes the statement in its own order and no token of it twice.
THEOREM OrderKept == Spec => []InOrder
BY Invariance, PTL DEF IInv
-----------------------------------------------------------------------------
\* Token i has come out in s.
Shown(s, i) == \E k \in DOMAIN s : s[k].at = i /\ s[k].kind \in {"text", "field"}

\* The statement is read to its end, or to an @ that is no parameter.
Over == pos = Len(input) \/ (pos > 0 /\ input[pos].kind = "stop")
\* What makes NothingLost inductive: outside INSERT statements every token read, but the
\* brackets and such an @, is in the result or in the option that is open.
KeptInv ==
  ~Has({"insert"}) =>
    /\ mode \in {"atsign", "option", "done"} /\ (mode = "done" => Over)
    /\ \A i \in 1..pos : input[i].kind \in Border \/ Shown(out, i)
                         \/ (mode = "option" /\ Shown(body, i))

\* The identifier that a ? behind token p would stand for is j.
Names(j, p) == /\ input[j].kind \in Ident
               /\ \A m \in j + 1..p : input[m].kind \notin Ident \cup Border
MarksNamed(s) == \A k \in DOMAIN s : \A j \in 1..s[k].at :
  s[k].kind = "field" /\ input[s[k].at].kind = "mark" /\ Names(j, s[k].at) => s[k].name = input[j].name

\* What makes MarkNamesWord inductive: the key of the handler at work is that identifier,
\* as long as there is anything left to read.
KeyInv ==
  ~Has({"insert"}) =>
    /\ MarksNamed(out) /\ (mode = "option" => MarksNamed(body))
    /\ \A j \in 1..pos : Names(j, pos) => /\ mode = "atsign" /\ pos < Len(input) => preKey = input[j].name
                                          /\ mode = "option" => optKey = input[j].name

\* What makes FieldsGuarded inductive: the fields of an open option are in its condition,
\* and every if in the result has been closed.
GuardInv ==
  /\ mode = "option" => \A k \in DOMAIN body : body[k].kind = "field" => Asks(cond, body[k].name)
  /\ \A i \in DOMAIN out : out[i].kind = "if" => \E m \in DOMAIN out : i < m /\ out[m].kind = "end"
-----------------------------------------------------------------------------
\* handleAtsign copies a token or makes it a field; ? takes the key, an identifier sets it.
LEMMA AtsignItemFacts ==
  ASSUME TypeOK, AtsignItem
  PROVE  /\ UNCHANGED <<input, mode>> /\ mode = "atsign" /\ pos' = pos + 1
         /\ pos + 1 \in 1..Len(input) /\ Tok.kind \notin {"open", "insert", "stop"}
         /\ preKey' = IF Tok.kind \in Ident THEN Tok.name ELSE preKey
         /\ \E e \in PieceAt(1..pos') : /\ e.at = pos + 1 /\ out' = Append(out, e)
                                        /\ Tok.kind = "mark" => e.name = preKey
<1>1. preKey \in Ref /\ Name \subseteq Ref /\ pos \in Nat /\ Len(input) \in Nat
  BY LenProperties DEF TypeOK, Ref
<1>2. mode = "atsign" /\ UNCHANGED mode /\ \E kinds : At(kinds)
  BY DEF AtsignItem
<1>3. UNCHANGED input /\ pos' = pos + 1 /\ pos + 1 \in 1..Len(input)
  BY <1>1, <1>2, TokenFacts
<1>4. CASE At({"word", "values"}) /\ Emit(Text) /\ preKey' = Key
  <2>1. Tok.kind \in {"word", "values"} /\ Text \in PieceAt(1..pos') /\ Text.at = pos + 1
    BY <1>4, TokenFacts, PieceTypes
  <2> QED
    BY <1>2, <1>3, <1>4, <2>1 DEF Emit, Key, Ident
<1>5. CASE At({"field", "action"}) /\ Emit(Field(Tok.name)) /\ UNCHANGED preKey
  <2>1. /\ Tok.kind \in {"field", "action"} /\ Field(Tok.name) \in PieceAt(1..pos')
        /\ Field(Tok.name).at = pos + 1
    BY <1>1, <1>5, TokenFacts, PieceTypes
  <2> QED
    BY <1>2, <1>3, <1>5, <2>1 DEF Emit, Ident
<1>6. CASE At({"mark"}) /\ Emit(Field(preKey)) /\ UNCHANGED preKey
  <2>1. /\ Tok.kind = "mark" /\ Field(preKey) \in PieceAt(1..pos') /\ Field(preKey).at = pos + 1
    BY <1>1, <1>6, TokenFacts, PieceTypes
  <2>2. Field(preKey).name = preKey
    BY DEF Field, Piece
  <2> QED
    BY <1>2, <1>3, <1>6, <2>1, <2>2 DEF Emit, Ident
<1>7. CASE At({"keyword", "close", "comma", "char", "text", "lparen", "rparen"})
           /\ Emit(Text) /\ UNCHANGED preKey
  <2>1. /\ Tok.kind \in {"keyword", "close", "comma", "char", "text", "lparen", "rparen"}
        /\ Text \in PieceAt(1..pos') /\ Text.at = pos + 1
    BY <1>7, TokenFacts, PieceTypes
  <2> QED
    BY <1>2, <1>3, <1>7, <2>1 DEF Emit, Ident
<1> QED
  BY <1>4, <1>5, <1>6, <1>7 DEF AtsignItem

\* So does handleOption, whose condition then asks for every field.
LEMMA OptionItemFacts ==
  ASSUME TypeOK, OptionItem
  PROVE  /\ UNCHANGED <<input, mode, out>> /\ mode = "option" /\ pos' = pos + 1
         /\ pos + 1 \in 1..Len(input) /\ Tok.kind \notin {"open", "close", "stop"}
         /\ optKey' = IF Tok.kind \in Ident THEN Tok.name ELSE optKey
         /\ \E e \in PieceAt(1..pos') : /\ e.at = pos + 1 /\ body' = Append(body, e)
                                        /\ Tok.kind = "mark" => e.name = optKey
                                        /\ IF e.kind = "field" THEN Asks(cond', e.name)
                                           ELSE cond' = cond
         /\ \A name : Asks(cond, name) => Asks(cond', name)
<1>1. cond \in Conds /\ optKey \in Ref /\ Name \subseteq Ref /\ pos \in Nat /\ Len(input) \in Nat
  BY LenProperties DEF TypeOK, Ref
<1>2. mode = "option" /\ UNCHANGED <<mode, out>> /\ \E kinds : At(kinds)
  BY DEF OptionItem, OptionMark
<1>3. UNCHANGED input /\ pos' = pos + 1 /\ pos + 1 \in 1..Len(input)
  BY <1>1, <1>2, TokenFacts
<1>4. Text.kind = "text" /\ \A name : Field(name).kind = "field" /\ Field(name).name = name
  BY DEF Text, Field, Piece
<1>5. CASE OptionMark
  <2>1. /\ At({"mark"}) /\ Cond(optKey) /\ body' = Append(body, Field(optKey))
        /\ UNCHANGED optKey
    BY <1>5 DEF OptionMark, Body
  <2>2. Tok.kind = "mark" /\ Field(optKey) \in PieceAt(1..pos') /\ Field(optKey).at = pos + 1
    BY <1>1, <2>1, TokenFacts, PieceTypes
  <2>3. Asks(cond', optKey) /\ \A name : Asks(cond, name) => Asks(cond', name)
    BY <1>1, <2>1, CondFacts
  <2> QED
    BY <1>2, <1>3, <1>4, <2>1, <2>2, <2>3 DEF Ident
<1>6. CASE \/ At({"field"}) /\ Joined(Tok.name) /\ Body(Field(Tok.name)) /\ UNCHANGED optKey
           \/ At({"action"}) /\ Cond(Tok.name) /\ Body(Field(Tok.name)) /\ UNCHANGED optKey
  <2>1. /\ Tok.kind \in {"field", "action"} /\ Field(Tok.name) \in PieceAt(1..pos')
        /\ Field(Tok.name).at = pos + 1 /\ Tok.name \in Ref
    BY <1>1, <1>6, TokenFacts, PieceTypes
  <2>2. body' = Append(body, Field(Tok.name)) /\ UNCHANGED optKey
    BY <1>6 DEF Body
  <2>3. Asks(cond', Tok.name) /\ \A name : Asks(cond, name) => Asks(cond', name)
    BY <1>1, <1>6, <2>1, CondFacts
  <2> QED
    BY <1>2, <1>3, <1>4, <2>1, <2>2, <2>3 DEF Ident
<1>7. CASE At(Ident) /\ Body(Text) /\ optKey' = Key /\ UNCHANGED cond
  <2>1. Tok.kind \in Ident /\ Text \in PieceAt(1..pos') /\ Text.at = pos + 1
    BY <1>7, TokenFacts, PieceTypes
  <2> QED
    BY <1>2, <1>3, <1>4, <1>7, <2>1 DEF Body, Key, Ident
<1>8. CASE At({"keyword", "comma", "char", "text", "lparen", "rparen"})
           /\ Body(Text) /\ UNCHANGED <<cond, optKey>>
  <2>1. /\ Tok.kind \in {"keyword", "comma", "char", "text", "lparen", "rparen"}
        /\ Text \in PieceAt(1..pos') /\ Text.at = pos + 1
    BY <1>8, TokenFacts, PieceTypes
  <2> QED
    BY <1>2, <1>3, <1>4, <1>8, <2>1 DEF Body, Ident
<1> QED
  BY <1>5, <1>6, <1>7, <1>8 DEF OptionItem

\* What the result becomes when an option ends.
LEMMA OptionEndFacts ==
  ASSUME TypeOK, OptionInv, OptionEnd
  PROVE  /\ DOMAIN out = 1..Len(out) /\ Len(out) \in Nat
         /\ DOMAIN body = 1..Len(body) /\ Len(body) \in Nat
         /\ \A n \in 1..Len(out) : n \in DOMAIN out' /\ out'[n] = out[n]
         /\ cond = <<>> => /\ DOMAIN out' = 1..(Len(out) + Len(body))
                           /\ \A n \in 1..Len(body) : out'[Len(out) + n] = body[n]
         /\ cond # <<>> => /\ DOMAIN out' = 1..(Len(out) + Len(body) + 2)
                           /\ out'[Len(out) + 1] = If
                           /\ \A n \in 1..Len(body) : out'[Len(out) + 1 + n] = body[n]
                           /\ out'[Len(out) + Len(body) + 2] = End
<1> DEFINE O == OutAt(1..pos')
<1>1. out \in Seq(O) /\ body \in Seq(O) /\ Wrapped \in Seq(O) /\ out' = out \o Wrapped
  <2>1. pos \in Nat /\ pos' \in Nat /\ pos <= pos'
    BY Moves DEF Step
  <2>2. body \in Seq(PieceAt(1..pos')) /\ out \in Seq(O)
    BY <2>1, PiecesGrow DEF TypeOK
  <2>3. body \in Seq(O)
    <3>1. PieceAt(1..pos') \subseteq O
      BY DEF OutAt
    <3> QED
      BY <2>2, <3>1, SeqMonotonic
  <2> QED
    BY <2>2, <2>3, WrappedFacts DEF OptionEnd
<1>2. cond # <<>> => If \in O /\ End \in O
  <2>1. start \in 1..pos' /\ pos' \in 1..pos' /\ cond \in Conds
    BY Moves DEF OptionEnd, OptionInv, TypeOK, Step
  <2> QED
    BY <2>1 DEF If, End, OutAt
<1> HIDE DEF O
<1>3. /\ DOMAIN out = 1..Len(out) /\ Len(out) \in Nat
      /\ DOMAIN body = 1..Len(body) /\ Len(body) \in Nat
      /\ DOMAIN Wrapped = 1..Len(Wrapped) /\ Len(Wrapped) \in Nat
  BY <1>1, LenProperties
<1>4. /\ DOMAIN out' = 1..(Len(out) + Len(Wrapped))
      /\ \A n \in 1..Len(out) : out'[n] = out[n]
      /\ \A n \in 1..Len(Wrapped) : out'[Len(out) + n] = Wrapped[n]
  <2>1. out \o Wrapped \in Seq(O) /\ Len(out \o Wrapped) = Len(out) + Len(Wrapped)
    BY <1>1, ConcatProperties
  <2>2. DOMAIN out' = 1..(Len(out) + Len(Wrapped))
    BY <1>1, <2>1, LenProperties
  <2>3. \A n \in 1..Len(out) + Len(Wrapped) :
          out'[n] = IF n <= Len(out) THEN out[n] ELSE Wrapped[n - Len(out)]
    BY <1>1, ConcatProperties
  <2>4. ASSUME NEW n \in 1..Len(Wrapped) PROVE out'[Len(out) + n] = Wrapped[n]
    <3>1. Len(out) + n \in 1..Len(out) + Len(Wrapped) /\ ~(Len(out) + n <= Len(out))
          /\ (Len(out) + n) - Len(out) = n
      BY <1>3
    <3> QED
      BY <2>3, <3>1
  <2> QED
    BY <1>3, <2>2, <2>3, <2>4
<1>5. CASE cond = <<>>
  <2>1. Wrapped = body
    BY <1>5 DEF Wrapped
  <2> QED
    BY <1>3, <1>4, <1>5, <2>1
<1>6. CASE cond # <<>>
  <2> DEFINE w == <<If>> \o body
  <2>1. /\ w \in Seq(O) /\ Len(w) = Len(body) + 1 /\ w[1] = If
        /\ \A n \in 1..Len(body) : w[n + 1] = body[n]
    <3>1. <<If>> \in Seq(O) /\ Len(<<If>>) = 1 /\ <<If>>[1] = If
      BY <1>2, <1>6
    <3>2. \A n \in 1..1 + Len(body) : w[n] = IF n <= 1 THEN <<If>>[n] ELSE body[n - 1]
      BY <1>1, <3>1, ConcatProperties
    <3>3. w \in Seq(O) /\ Len(w) = 1 + Len(body)
      BY <1>1, <3>1, ConcatProperties
    <3>4. ASSUME NEW n \in 1..Len(body) PROVE w[n + 1] = body[n]
      <4>1. n + 1 \in 1..1 + Len(body) /\ ~(n + 1 <= 1) /\ (n + 1) - 1 = n
        BY <1>3
      <4> QED
        BY <3>2, <4>1
    <3>5. w[1] = If
      BY <1>3, <3>1, <3>2
    <3> QED
      BY <1>3, <3>3, <3>4, <3>5
  <2>2. Wrapped = w \o <<End>>
    BY <1>6 DEF Wrapped
  <2> HIDE DEF w
  <2>3. <<End>> \in Seq(O) /\ Len(<<End>>) = 1 /\ <<End>>[1] = End
    BY <1>2, <1>6
  <2>4. /\ Len(Wrapped) = Len(body) + 2
        /\ \A n \in 1..Len(w) + 1 : Wrapped[n] = IF n <= Len(w) THEN w[n] ELSE <<End>>[n - Len(w)]
    BY <1>3, <2>1, <2>2, <2>3, ConcatProperties
  <2>5. Wrapped[1] = If /\ Wrapped[Len(body) + 2] = End
    BY <1>3, <2>1, <2>3, <2>4
  <2>6. \A n \in 1..Len(body) : Wrapped[n + 1] = body[n]
    BY <1>3, <2>1, <2>4
  <2>7. out'[Len(out) + 1] = If /\ out'[Len(out) + Len(body) + 2] = End
    <3>1. 1 \in 1..Len(Wrapped) /\ Len(body) + 2 \in 1..Len(Wrapped)
      BY <1>3, <2>4
    <3>2. Len(out) + (Len(body) + 2) = Len(out) + Len(body) + 2
      BY <1>3
    <3> QED
      BY <1>4, <2>5, <3>1, <3>2
  <2>8. ASSUME NEW n \in 1..Len(body) PROVE out'[Len(out) + 1 + n] = body[n]
    <3>1. n + 1 \in 1..Len(Wrapped) /\ Len(out) + (n + 1) = Len(out) + 1 + n
      BY <1>3, <2>4
    <3> QED
      BY <1>4, <2>6, <3>1
  <2> QED
    BY <1>3, <1>4, <1>6, <2>4, <2>7, <2>8
<1> QED
  BY <1>3, <1>5, <1>6

\* The lexer ends where the statement does, or at an @ that is no parameter.
LEMMA PlainEnd ==
  ASSUME TypeOK, AtEnd
  PROVE  /\ UNCHANGED input
         /\ \/ pos = Len(input) /\ UNCHANGED pos
            \/ pos' = pos + 1 /\ Tok.kind = "stop" /\ pos + 1 \in 1..Len(input)
<1>1. CASE At({"stop"})
  <2>1. UNCHANGED input /\ pos' = pos + 1 /\ pos' \in 0..Len(input) /\ Tok.kind = "stop"
    BY <1>1, TokenFacts
  <2>2. pos + 1 \in 1..Len(input)
    BY <2>1 DEF TypeOK
  <2> QED
    BY <2>1, <2>2
<1> QED
  BY <1>1 DEF AtEnd

\* There the handlers of INSERT never run.
LEMMA PlainSteps ==
  ASSUME TypeOK, ~Has({"insert"}), mode \in {"atsign", "option", "done"}, Step
  PROVE  \/ AtsignItem \/ OptionItem
         \/ AtsignOption /\ pos' = pos + 1 /\ UNCHANGED input /\ Tok.kind = "open"
            /\ pos + 1 \in 1..Len(input)
         \/ AtsignEnd /\ UNCHANGED input
              /\ \/ pos = Len(input) /\ UNCHANGED pos
                 \/ pos' = pos + 1 /\ Tok.kind = "stop" /\ pos + 1 \in 1..Len(input)
         \/ OptionBracket /\ pos' = pos + 1 /\ UNCHANGED input /\ Tok.kind \in {"open", "close"}
            /\ pos + 1 \in 1..Len(input)
         \/ OptionEnd /\ \/ /\ pos' = pos + 1 /\ UNCHANGED input /\ Tok.kind \in {"close", "stop"}
                            /\ pos + 1 \in 1..Len(input)
                         \/ pos = Len(input) /\ UNCHANGED <<input, pos>>
<1>0. pos \in 0..Len(input) /\ Len(input) \in Nat /\ DOMAIN input = 1..Len(input)
  BY LenProperties DEF TypeOK
<1>1. ASSUME NEW kinds, At(kinds)
      PROVE  pos' = pos + 1 /\ UNCHANGED input /\ Tok.kind \in kinds /\ pos + 1 \in 1..Len(input)
  BY <1>0, <1>1, TokenFacts
<1>2. ~AtsignInsert
  <2>1. SUFFICES ASSUME At({"insert"}) PROVE FALSE
    BY DEF AtsignInsert
  <2>2. pos + 1 \in DOMAIN input /\ input[pos + 1].kind = "insert"
    BY <1>0, <1>1, <2>1 DEF Tok
  <2> QED
    BY <2>2 DEF Has
<1>3. ~(ColumnsItem \/ ColumnsEnd \/ ValuesItem \/ ValuesEnd)
  BY DEF ColumnsItem, ColumnsEnd, ValuesItem, ValuesEnd
<1>4. AtsignOption => At({"open"})
  BY DEF AtsignOption
<1>5. OptionBracket => At({"open"}) \/ At({"close"})
  BY DEF OptionBracket
<1>6. OptionEnd => At({"close"}) \/ AtEnd
  BY DEF OptionEnd
<1>7. AtsignEnd => AtEnd
  BY DEF AtsignEnd
<1>8. AtEnd => /\ UNCHANGED input
               /\ \/ pos = Len(input) /\ UNCHANGED pos
                  \/ pos' = pos + 1 /\ Tok.kind = "stop" /\ pos + 1 \in 1..Len(input)
  BY PlainEnd
<1>9. AtsignItem \/ AtsignOption \/ AtsignEnd \/ OptionItem \/ OptionBracket \/ OptionEnd
  BY <1>2, <1>3 DEF Step
<1>10. CASE AtsignOption
  BY <1>1, <1>4, <1>10
<1>11. CASE OptionBracket
  BY <1>1, <1>5, <1>11
<1>12. CASE OptionEnd
  BY <1>1, <1>6, <1>8, <1>12
<1> QED
  BY <1>7, <1>8, <1>9, <1>10, <1>11, <1>12
-----------------------------------------------------------------------------
\* A token that has come out stays out when more is written behind it, ...
LEMMA ShownAppend ==
  ASSUME NEW S, NEW s \in Seq(S), NEW e
  PROVE  /\ \A i : Shown(s, i) => Shown(Append(s, e), i)
         /\ e.kind \in {"text", "field"} => Shown(Append(s, e), e.at)
<1>1. /\ DOMAIN s = 1..Len(s) /\ Len(s) \in Nat /\ DOMAIN Append(s, e) = 1..(Len(s) + 1)
      /\ \A n \in 1..Len(s) : Append(s, e)[n] = s[n]
      /\ Append(s, e)[Len(s) + 1] = e
  BY AppendAny
<1>2. ASSUME NEW i, Shown(s, i) PROVE Shown(Append(s, e), i)
  <2>1. PICK k \in 1..Len(s) : s[k].at = i /\ s[k].kind \in {"text", "field"}
    BY <1>1, <1>2 DEF Shown
  <2>2. k \in DOMAIN Append(s, e) /\ Append(s, e)[k] = s[k]
    BY <1>1
  <2> QED
    BY <2>1, <2>2 DEF Shown
<1>3. Len(s) + 1 \in DOMAIN Append(s, e)
  BY <1>1
<1> QED
  BY <1>1, <1>2, <1>3 DEF Shown

\* ... and the pieces of an option come out when it ends.
LEMMA ShownEnd ==
  ASSUME TypeOK, OptionInv, OptionEnd, NEW i, Shown(out, i) \/ Shown(body, i)
  PROVE  Shown(out', i)
<1>1. /\ DOMAIN out = 1..Len(out) /\ Len(out) \in Nat
      /\ DOMAIN body = 1..Len(body) /\ Len(body) \in Nat
      /\ \A n \in 1..Len(out) : n \in DOMAIN out' /\ out'[n] = out[n]
  BY OptionEndFacts
<1>2. ASSUME NEW n \in 1..Len(body) PROVE \E k \in DOMAIN out' : out'[k] = body[n]
  <2>1. CASE cond = <<>>
    <3>1. Len(out) + n \in DOMAIN out' /\ out'[Len(out) + n] = body[n]
      <4>1. Len(out) + n \in 1..(Len(out) + Len(body))
        BY <1>1
      <4> QED
        BY <2>1, <4>1, OptionEndFacts
    <3> QED
      BY <3>1
  <2>2. CASE cond # <<>>
    <3>1. Len(out) + 1 + n \in DOMAIN out' /\ out'[Len(out) + 1 + n] = body[n]
      <4>1. Len(out) + 1 + n \in 1..(Len(out) + Len(body) + 2)
        BY <1>1
      <4> QED
        BY <2>2, <4>1, OptionEndFacts
    <3> QED
      BY <3>1
  <2> QED
    BY <2>1, <2>2
<1>3. CASE Shown(out, i)
  BY <1>1, <1>3 DEF Shown
<1>4. CASE Shown(body, i)
  <2>1. PICK n \in 1..Len(body) : body[n].at = i /\ body[n].kind \in {"text", "field"}
    BY <1>1, <1>4 DEF Shown
  <2>2. PICK k \in DOMAIN out' : out'[k] = body[n]
    BY <1>2
  <2> QED
    BY <2>1, <2>2 DEF Shown
<1> QED
  BY <1>3, <1>4

\* Outside INSERT statements no step loses a token it reads, but brackets and such an @.
LEMMA KeptStep ==
  ASSUME TypeOK, OptionInv, KeptInv, Step
  PROVE  KeptInv'
<1>0. UNCHANGED input /\ pos \in 0..Len(input) /\ Len(input) \in Nat
  BY Moves, LenProperties DEF TypeOK
<1> SUFFICES ASSUME ~Has({"insert"})
             PROVE  /\ mode' \in {"atsign", "option", "done"} /\ (mode' = "done" => Over')
                    /\ \A i \in 1..pos' : input[i].kind \in Border \/ Shown(out', i)
                                          \/ (mode' = "option" /\ Shown(body', i))
  <2>1. Has({"insert"})' = Has({"insert"})
    BY <1>0 DEF Has
  <2>2. \A s, i : Shown(s, i) = \E k \in DOMAIN s : s[k].at = i /\ s[k].kind \in {"text", "field"}
    BY DEF Shown
  <2> QED
    BY <1>0, <2>1, <2>2 DEF KeptInv, Shown
<1>1. /\ mode \in {"atsign", "option", "done"} /\ (mode = "done" => Over)
      /\ \A i \in 1..pos : input[i].kind \in Border \/ Shown(out, i)
                           \/ (mode = "option" /\ Shown(body, i))
  BY DEF KeptInv
<1>2. out \in Seq(OutAt(1..pos)) /\ body \in Seq(PieceAt(1..pos))
  BY DEF TypeOK
<1>3. \A i \in 1..pos + 1 : i \in 1..pos \/ i = pos + 1
  BY <1>0
<1>4. CASE AtsignItem
  <2>1. PICK e \in PieceAt(1..pos') : e.at = pos + 1 /\ out' = Append(out, e)
    BY <1>4, AtsignItemFacts
  <2>2. e.kind \in {"text", "field"}
    BY DEF PieceAt
  <2>3. mode = "atsign" /\ mode' = mode /\ pos' = pos + 1
    BY <1>4, AtsignItemFacts
  <2> QED
    BY <1>1, <1>2, <1>3, <2>1, <2>2, <2>3, ShownAppend
<1>5. CASE OptionItem
  <2>1. PICK e \in PieceAt(1..pos') : e.at = pos + 1 /\ body' = Append(body, e)
    BY <1>5, OptionItemFacts
  <2>2. e.kind \in {"text", "field"}
    BY DEF PieceAt
  <2>3. mode = "option" /\ mode' = mode /\ pos' = pos + 1 /\ out' = out
    BY <1>5, OptionItemFacts
  <2> QED
    BY <1>1, <1>2, <1>3, <2>1, <2>2, <2>3, ShownAppend
<1>6. CASE AtsignOption /\ pos' = pos + 1 /\ Tok.kind = "open"
  <2>1. mode = "atsign" /\ mode' = "option" /\ out' = out
    BY <1>6 DEF AtsignOption
  <2> QED
    BY <1>1, <1>3, <1>6, <2>1 DEF Tok, Border
<1>7. CASE AtsignEnd /\ \/ pos = Len(input) /\ pos' = pos
                        \/ pos' = pos + 1 /\ Tok.kind = "stop" /\ pos + 1 \in 1..Len(input)
  <2>1. mode = "atsign" /\ mode' = "done" /\ out' = out
    BY <1>7 DEF AtsignEnd
  <2>2. Over'
    BY <1>0, <1>7 DEF Over, Tok
  <2> QED
    BY <1>1, <1>3, <1>7, <2>1, <2>2 DEF Tok, Border
<1>8. CASE OptionBracket /\ pos' = pos + 1 /\ Tok.kind \in {"open", "close"}
  <2>1. mode = "option" /\ mode' = mode /\ out' = out /\ body' = body
    BY <1>8 DEF OptionBracket
  <2> QED
    BY <1>1, <1>3, <1>8, <2>1 DEF Tok, Border
<1>9. CASE OptionEnd /\ (pos' = pos \/ (pos' = pos + 1 /\ Tok.kind \in {"close", "stop"}))
  <2>1. mode' = "atsign"
    BY <1>9 DEF OptionEnd
  <2>2. \A i \in 1..pos : input[i].kind \in Border \/ Shown(out', i)
    BY <1>1, <1>9, ShownEnd
  <2> QED
    BY <1>3, <1>9, <2>1, <2>2 DEF Tok, Border
<1> QED
  BY <1>1, <1>4, <1>5, <1>6, <1>7, <1>8, <1>9, PlainSteps
-----------------------------------------------------------------------------
\* One more piece with the right name, or that is no ?, keeps a buffer rightly named.
LEMMA NamedAppend ==
  ASSUME NEW S, NEW s \in Seq(S), NEW e, MarksNamed(s),
         \A j \in 1..e.at : e.kind = "field" /\ input[e.at].kind = "mark" /\ Names(j, e.at)
                            => e.name = input[j].name
  PROVE  MarksNamed(Append(s, e))
<1>1. /\ DOMAIN s = 1..Len(s) /\ Len(s) \in Nat /\ DOMAIN Append(s, e) = 1..(Len(s) + 1)
      /\ \A n \in 1..Len(s) : Append(s, e)[n] = s[n]
      /\ Append(s, e)[Len(s) + 1] = e
  BY AppendAny
<1> SUFFICES ASSUME NEW k \in 1..(Len(s) + 1), NEW j \in 1..Append(s, e)[k].at,
                    Append(s, e)[k].kind = "field", input[Append(s, e)[k].at].kind = "mark",
                    Names(j, Append(s, e)[k].at)
             PROVE  Append(s, e)[k].name = input[j].name
  BY <1>1 DEF MarksNamed
<1>2. CASE k \in 1..Len(s)
  <2>1. Append(s, e)[k] = s[k] /\ k \in DOMAIN s
    BY <1>1, <1>2
  <2> QED
    BY <2>1 DEF MarksNamed
<1>3. CASE k = Len(s) + 1
  <2>1. Append(s, e)[k] = e
    BY <1>1, <1>3
  <2> QED
    BY <2>1
<1> QED
  BY <1>1, <1>2, <1>3

\* The fields after an option ended are those of before and those of the option.
LEMMA OptionEndFields ==
  ASSUME TypeOK, OptionInv, OptionEnd, NEW k \in DOMAIN out', out'[k].kind = "field"
  PROVE  (\E n \in DOMAIN out : out'[k] = out[n]) \/ (\E n \in DOMAIN body : out'[k] = body[n])
<1>1. /\ DOMAIN out = 1..Len(out) /\ Len(out) \in Nat
      /\ DOMAIN body = 1..Len(body) /\ Len(body) \in Nat
      /\ \A n \in 1..Len(out) : n \in DOMAIN out' /\ out'[n] = out[n]
  BY OptionEndFacts
<1>2. CASE cond = <<>>
  <2>1. /\ k \in 1..(Len(out) + Len(body))
        /\ \A n \in 1..Len(body) : out'[Len(out) + n] = body[n]
    BY <1>2, OptionEndFacts
  <2>2. k \in 1..Len(out) \/ (k - Len(out) \in 1..Len(body) /\ k = Len(out) + (k - Len(out)))
    BY <1>1, <2>1
  <2> QED
    BY <1>1, <2>1, <2>2
<1>3. CASE cond # <<>>
  <2>1. /\ k \in 1..(Len(out) + Len(body) + 2)
        /\ out'[Len(out) + 1] = If /\ out'[Len(out) + Len(body) + 2] = End
        /\ \A n \in 1..Len(body) : out'[Len(out) + 1 + n] = body[n]
    BY <1>3, OptionEndFacts
  <2>2. If.kind = "if" /\ End.kind = "end"
    BY DEF If, End
  <2>3. \/ k \in 1..Len(out) \/ k = Len(out) + 1 \/ k = Len(out) + Len(body) + 2
        \/ (k - Len(out) - 1 \in 1..Len(body) /\ k = Len(out) + 1 + (k - Len(out) - 1))
    <3> DEFINE m == Len(out)
               n == Len(body)
    <3>1. m \in Nat /\ n \in Nat /\ k \in 1..(m + n + 2)
      BY <1>1, <2>1
    <3> HIDE DEF m, n
    <3>2. k \in 1..m \/ k = m + 1 \/ k = m + n + 2 \/ (k - m - 1 \in 1..n /\ k = m + 1 + (k - m - 1))
      BY <3>1
    <3> QED
      BY <3>2 DEF m, n
  <2> QED
    BY <1>1, <2>1, <2>2, <2>3
<1> QED
  BY <1>2, <1>3

\* The pieces of an option keep their names when it ends.
LEMMA NamedEnd ==
  ASSUME TypeOK, OptionInv, OptionEnd, MarksNamed(out), MarksNamed(body)
  PROVE  MarksNamed(out')
BY OptionEndFields DEF MarksNamed

\* The next token decides what a ? behind it stands for.
LEMMA NextNames ==
  ASSUME TypeOK, pos + 1 \in 1..Len(input), NEW j \in 1..pos + 1, Names(j, pos + 1)
  PROVE  /\ Tok.kind \notin Border
         /\ IF Tok.kind \in Ident THEN input[j].name = Tok.name ELSE j \in 1..pos /\ Names(j, pos)
<1>1. pos \in Nat
  BY DEF TypeOK
<1>2. CASE j = pos + 1
  BY <1>2 DEF Names, Tok, Ident, Border
<1>3. CASE j # pos + 1
  <2>1. j \in 1..pos /\ pos + 1 \in j + 1..pos + 1 /\ \A m \in j + 1..pos : m \in j + 1..pos + 1
    BY <1>1, <1>3
  <2> QED
    BY <2>1 DEF Names, Tok
<1> QED
  BY <1>2, <1>3

\* Outside INSERT statements every ? gets the identifier before it.
LEMMA KeyStep ==
  ASSUME TypeOK, OptionInv, KeptInv, KeyInv, Step
  PROVE  KeyInv'
<1>0. UNCHANGED input /\ pos \in 0..Len(input) /\ Len(input) \in Nat
  BY Moves, LenProperties DEF TypeOK
<1> SUFFICES ASSUME ~Has({"insert"})
             PROVE  /\ MarksNamed(out') /\ (mode' = "option" => MarksNamed(body'))
                    /\ \A j \in 1..pos' : Names(j, pos') =>
                         /\ mode' = "atsign" /\ pos' < Len(input) => preKey' = input[j].name
                         /\ mode' = "option" => optKey' = input[j].name
  <2>1. Has({"insert"})' = Has({"insert"})
    BY <1>0 DEF Has
  <2> QED
    BY <1>0, <2>1 DEF KeyInv, MarksNamed, Names
<1>1. /\ mode \in {"atsign", "option", "done"} /\ (mode = "done" => Over)
      /\ MarksNamed(out) /\ (mode = "option" => MarksNamed(body))
      /\ \A j \in 1..pos : Names(j, pos) =>
           /\ mode = "atsign" /\ pos < Len(input) => preKey = input[j].name
           /\ mode = "option" => optKey = input[j].name
  BY DEF KeptInv, KeyInv
<1>2. out \in Seq(OutAt(1..pos)) /\ body \in Seq(PieceAt(1..pos))
  BY DEF TypeOK
<1>3. CASE AtsignItem
  <2>1. /\ mode = "atsign" /\ mode' = mode /\ pos' = pos + 1 /\ pos + 1 \in 1..Len(input)
        /\ preKey' = IF Tok.kind \in Ident THEN Tok.name ELSE preKey
    BY <1>3, AtsignItemFacts
  <2>2. PICK e \in PieceAt(1..pos') : /\ e.at = pos + 1 /\ out' = Append(out, e)
                                      /\ Tok.kind = "mark" => e.name = preKey
    BY <1>3, AtsignItemFacts
  <2>3. pos < Len(input)
    BY <1>0, <2>1
  <2>4. \A j \in 1..pos + 1 : Names(j, pos + 1) => preKey' = input[j].name
    BY <1>1, <2>1, <2>3, NextNames
  <2>5. MarksNamed(out')
    <3>1. \A j \in 1..e.at : input[e.at].kind = "mark" /\ Names(j, e.at) => e.name = input[j].name
      BY <2>1, <2>2, <2>4 DEF Tok, Ident
    <3> QED
      BY <1>1, <1>2, <2>2, <3>1, NamedAppend
  <2> QED
    BY <2>1, <2>4, <2>5
<1>4. CASE OptionItem
  <2>1. /\ mode = "option" /\ mode' = mode /\ pos' = pos + 1 /\ pos + 1 \in 1..Len(input)
        /\ optKey' = IF Tok.kind \in Ident THEN Tok.name ELSE optKey
        /\ out' = out
    BY <1>4, OptionItemFacts
  <2>2. PICK e \in PieceAt(1..pos') : /\ e.at = pos + 1 /\ body' = Append(body, e)
                                      /\ Tok.kind = "mark" => e.name = optKey
    BY <1>4, OptionItemFacts
  <2>3. \A j \in 1..pos + 1 : Names(j, pos + 1) => optKey' = input[j].name
    BY <1>1, <2>1, NextNames
  <2>4. MarksNamed(body')
    <3>1. \A j \in 1..e.at : input[e.at].kind = "mark" /\ Names(j, e.at) => e.name = input[j].name
      BY <2>1, <2>2, <2>3 DEF Tok, Ident
    <3> QED
      BY <1>1, <1>2, <2>1, <2>2, <3>1, NamedAppend
  <2> QED
    BY <1>1, <2>1, <2>3, <2>4
<1>5. ASSUME pos' = pos + 1, Tok.kind \in Border, pos + 1 \in 1..Len(input),
             NEW j \in 1..pos'
      PROVE  ~Names(j, pos')
  BY <1>5, NextNames
<1>6. CASE AtsignOption /\ pos' = pos + 1 /\ Tok.kind = "open" /\ pos + 1 \in 1..Len(input)
  <2>1. mode' = "option" /\ out' = out /\ body' = <<>>
    BY <1>6 DEF AtsignOption
  <2>2. MarksNamed(<<>>)
    BY DEF MarksNamed
  <2> QED
    BY <1>1, <1>5, <1>6, <2>1, <2>2 DEF Border
<1>7. CASE AtsignEnd
  <2>1. mode' = "done" /\ out' = out
    BY <1>7 DEF AtsignEnd
  <2> QED
    BY <1>1, <2>1
<1>8. CASE OptionBracket /\ pos' = pos + 1 /\ Tok.kind \in {"open", "close"}
           /\ pos + 1 \in 1..Len(input)
  <2>1. mode = "option" /\ mode' = mode /\ out' = out /\ body' = body
    BY <1>8 DEF OptionBracket
  <2> QED
    BY <1>1, <1>5, <1>8, <2>1 DEF Border
<1>9. CASE OptionEnd /\ \/ pos' = pos + 1 /\ Tok.kind \in {"close", "stop"} /\ pos + 1 \in 1..Len(input)
                        \/ pos = Len(input) /\ pos' = pos
  <2>1. mode = "option" /\ mode' = "atsign"
    BY <1>9 DEF OptionEnd
  <2>2. MarksNamed(out')
    BY <1>1, <1>9, <2>1, NamedEnd
  <2>3. pos = Len(input) /\ pos' = pos => ~(pos' < Len(input))
    BY <1>0
  <2> QED
    BY <1>5, <1>9, <2>1, <2>2, <2>3 DEF Border
<1> QED
  BY <1>1, <1>3, <1>4, <1>6, <1>7, <1>8, <1>9, PlainSteps
-----------------------------------------------------------------------------
\* The fields of an open option are in its condition, and no if is left open.
LEMMA GuardStep ==
  ASSUME TypeOK, OptionInv, GuardInv, FieldsGuarded, Step
  PROVE  GuardInv' /\ FieldsGuarded'
<1> DEFINE Closed(s)  == \A i \in DOMAIN s : s[i].kind = "if" =>
                           \E m \in DOMAIN s : i < m /\ s[m].kind = "end"
           Guarded(s) == \A i, k \in DOMAIN s :
             /\ i < k /\ s[i].kind = "if" /\ s[k].kind = "field"
             /\ \A m \in i..k : s[m].kind # "end"
             => Asks(s[i].name, s[k].name)
           Asked(b, cs) == \A k \in DOMAIN b : b[k].kind = "field" => Asks(cs, b[k].name)
<1>1. /\ Closed(out) /\ Guarded(out) /\ (mode = "option" => Asked(body, cond))
      /\ out \in Seq(OutAt(1..pos)) /\ body \in Seq(PieceAt(1..pos))
  BY DEF GuardInv, FieldsGuarded, TypeOK
<1>2. ASSUME Closed(out'), Guarded(out'), mode' = "option" => Asked(body', cond')
      PROVE  GuardInv' /\ FieldsGuarded'
  BY <1>2 DEF GuardInv, FieldsGuarded
<1>3. CASE Written(out, out') /\ (mode' = "option" => Asked(body', cond'))
  <2>1. CASE out' = out
    BY <1>1, <1>2, <1>3, <2>1
  <2>2. ASSUME NEW e \in PieceAt(1..pos'), out' = Append(out, e)
        PROVE  Closed(out') /\ Guarded(out')
    <3>1. /\ DOMAIN out = 1..Len(out) /\ Len(out) \in Nat /\ DOMAIN out' = 1..(Len(out) + 1)
          /\ \A n \in 1..Len(out) : out'[n] = out[n]
          /\ out'[Len(out) + 1] = e
      BY <1>1, <2>2, AppendAny
    <3>2. e.kind # "if"
      BY DEF PieceAt
    <3>3. Closed(out')
      BY <1>1, <3>1, <3>2
    <3>4. ASSUME NEW i \in DOMAIN out', NEW k \in DOMAIN out', i < k, out'[i].kind = "if",
                 out'[k].kind = "field", \A m \in i..k : out'[m].kind # "end"
          PROVE  Asks(out'[i].name, out'[k].name)
      <4>1. i \in 1..Len(out) /\ out'[i] = out[i]
        BY <3>1, <3>4
      <4>2. k # Len(out) + 1
        <5>1. PICK m \in 1..Len(out) : i < m /\ out[m].kind = "end"
          BY <1>1, <3>1, <3>4, <4>1
        <5>2. m \in i..(Len(out) + 1) /\ out'[m].kind = "end"
          BY <3>1, <5>1
        <5> QED
          BY <3>4, <5>2
      <4>3. k \in 1..Len(out) /\ out'[k] = out[k]
        BY <3>1, <4>2
      <4>4. \A m \in i..k : m \in 1..Len(out) /\ out[m].kind # "end"
        BY <3>1, <3>4, <4>1, <4>3
      <4> QED
        BY <1>1, <3>1, <3>4, <4>1, <4>3, <4>4
    <3> QED
      BY <3>3, <3>4
  <2> HIDE DEF Closed, Guarded, Asked
  <2> QED
    BY <1>2, <1>3, <2>1, <2>2 DEF Written
<1>4. CASE AtsignItem \/ AtsignInsert \/ AtsignEnd \/ ColumnsItem \/ ColumnsEnd \/ ValuesItem \/ ValuesEnd
  <2>1. mode' # "option"
    BY <1>4 DEF AtsignItem, AtsignInsert, AtsignEnd, ColumnsItem, ColumnsEnd, ValuesItem, ValuesMark, ValuesEnd
  <2> QED
    BY <1>3, <1>4, <2>1, AtsignWrites, InsertWrites
<1>5. CASE AtsignOption
  BY <1>3, <1>5, AtsignWrites DEF AtsignOption
<1>6. CASE OptionItem
  <2>1. mode = "option" /\ out' = out
    BY <1>6, OptionItemFacts
  <2>2. PICK e \in PieceAt(1..pos') : /\ body' = Append(body, e)
                                      /\ e.kind = "field" => Asks(cond', e.name)
    BY <1>6, OptionItemFacts
  <2>3. /\ DOMAIN body = 1..Len(body) /\ Len(body) \in Nat /\ DOMAIN body' = 1..(Len(body) + 1)
        /\ \A n \in 1..Len(body) : body'[n] = body[n]
        /\ body'[Len(body) + 1] = e
    BY <1>1, <2>2, AppendAny
  <2>4. \A name : Asks(cond, name) => Asks(cond', name)
    BY <1>6, OptionItemFacts
  <2>5. Asked(body', cond')
    BY <1>1, <2>1, <2>2, <2>3, <2>4
  <2> QED
    BY <1>3, <2>1, <2>5 DEF Written
<1>7. CASE OptionBracket
  <2>1. mode = "option" /\ out' = out /\ body' = body /\ cond' = cond
    BY <1>7 DEF OptionBracket
  <2> QED
    BY <1>1, <1>3, <2>1 DEF Written
<1>8. CASE OptionEnd
  <2>1. mode = "option" /\ mode' = "atsign"
    BY <1>8 DEF OptionEnd
  <2>2. /\ DOMAIN out = 1..Len(out) /\ Len(out) \in Nat
        /\ DOMAIN body = 1..Len(body) /\ Len(body) \in Nat
        /\ \A n \in 1..Len(out) : n \in DOMAIN out' /\ out'[n] = out[n]
    BY <1>8, OptionEndFacts
  <2>3. \A n \in 1..Len(body) : body[n].kind \in {"text", "field"}
    <3>1. \A n \in 1..Len(body) : body[n] \in PieceAt(1..pos)
      BY <1>1, ElementOfSeq
    <3> QED
      BY <3>1 DEF PieceAt
  <2>4. \* an if that was there before
        ASSUME NEW i \in 1..Len(out), out[i].kind = "if"
        PROVE  \E m \in 1..Len(out) : i < m /\ m \in DOMAIN out' /\ out'[m].kind = "end"
    BY <1>1, <2>2, <2>4
  <2>5. ASSUME NEW i \in 1..Len(out), NEW k \in DOMAIN out', i < k, out'[i].kind = "if",
               out'[k].kind = "field", \A m \in i..k : out'[m].kind # "end"
        PROVE  Asks(out'[i].name, out'[k].name)
    <3>1. out'[i] = out[i] /\ k \in Nat
      BY <1>8, <2>2, OptionEndFacts
    <3>2. PICK m \in 1..Len(out) : i < m /\ out'[m].kind = "end"
      BY <2>4, <2>5, <3>1
    <3>3. k < m
      BY <2>2, <2>5, <3>1, <3>2
    <3>4. k \in 1..Len(out) /\ out'[k] = out[k]
      BY <2>2, <2>5, <3>1, <3>2, <3>3
    <3>5. \A n \in i..k : out[n].kind # "end"
      <4>1. \A n \in i..k : n \in 1..Len(out) /\ out'[n] = out[n]
        BY <2>2, <3>4
      <4> QED
        BY <2>5, <4>1
    <3> QED
      BY <1>1, <2>2, <2>5, <3>1, <3>4, <3>5
  <2>6. CASE cond = <<>>
    <3>1. /\ DOMAIN out' = 1..(Len(out) + Len(body))
          /\ \A n \in 1..Len(body) : out'[Len(out) + n] = body[n]
      BY <1>8, <2>6, OptionEndFacts
    <3>2. \A i \in DOMAIN out' : i \in 1..Len(out) \/ out'[i].kind # "if"
      <4>1. \A i \in DOMAIN out' : \/ i \in 1..Len(out)
                                   \/ i - Len(out) \in 1..Len(body) /\ i = Len(out) + (i - Len(out))
        BY <2>2, <3>1
      <4> QED
        BY <2>3, <3>1, <4>1
    <3>3. Closed(out')
      BY <2>2, <2>4, <3>2
    <3>4. Guarded(out')
      BY <2>5, <3>2
    <3> QED
      BY <1>2, <2>1, <3>3, <3>4
  <2>7. CASE cond # <<>>
    <3>1. /\ DOMAIN out' = 1..(Len(out) + Len(body) + 2)
          /\ out'[Len(out) + 1] = If /\ out'[Len(out) + Len(body) + 2] = End
          /\ \A n \in 1..Len(body) : out'[Len(out) + 1 + n] = body[n]
      BY <1>8, <2>7, OptionEndFacts
    <3>2. If.name = cond /\ End.kind = "end"
      BY DEF If, End
    <3>3. ASSUME NEW i \in DOMAIN out'
          PROVE  \/ i \in 1..Len(out) \/ i = Len(out) + 1 \/ i = Len(out) + Len(body) + 2
                 \/ i - Len(out) - 1 \in 1..Len(body) /\ i = Len(out) + 1 + (i - Len(out) - 1)
      <4> DEFINE m == Len(out)
                 n == Len(body)
      <4>1. m \in Nat /\ n \in Nat /\ i \in 1..(m + n + 2)
        BY <2>2, <3>1, <3>3
      <4> HIDE DEF m, n
      <4>2. i \in 1..m \/ i = m + 1 \/ i = m + n + 2 \/ (i - m - 1 \in 1..n /\ i = m + 1 + (i - m - 1))
        BY <4>1
      <4> QED
        BY <4>2 DEF m, n
    <3>4. \A i \in DOMAIN out' : out'[i].kind = "if" => i \in 1..Len(out) \/ i = Len(out) + 1
      BY <2>3, <3>1, <3>2, <3>3
    <3>5. Len(out) + Len(body) + 2 \in DOMAIN out' /\ Len(out) + 1 < Len(out) + Len(body) + 2
      BY <2>2, <3>1
    <3>6. Closed(out')
      BY <2>2, <2>4, <3>1, <3>2, <3>4, <3>5
    <3>7. ASSUME NEW k \in DOMAIN out', Len(out) + 1 < k, out'[k].kind = "field"
          PROVE  Asks(cond, out'[k].name)
      <4>1. PICK n \in 1..Len(body) : out'[k] = body[n]
        BY <2>2, <3>1, <3>2, <3>3, <3>7
      <4> QED
        BY <1>1, <2>1, <2>2, <3>7, <4>1
    <3>8. Guarded(out')
      BY <2>5, <3>1, <3>2, <3>4, <3>7
    <3> QED
      BY <1>2, <2>1, <3>6, <3>8
  <2> QED
    BY <2>6, <2>7
<1> QED
  BY <1>4, <1>5, <1>6, <1>7, <1>8 DEF Step
-----------------------------------------------------------------------------
\* Each of the three holds at the start, ...
LEMMA InitMore == Init => KeptInv /\ KeyInv /\ GuardInv /\ FieldsGuarded
<1> SUFFICES ASSUME Init PROVE KeptInv /\ KeyInv /\ GuardInv /\ FieldsGuarded
  OBVIOUS
<1>1. pos = 0 /\ mode = "atsign" /\ out = <<>>
  BY DEF Init
<1> QED
  BY <1>1 DEF KeptInv, KeyInv, GuardInv, FieldsGuarded, MarksNamed

\* ... and in every reachable state.
LEMMA InvarianceMore == Spec => [](IInv /\ KeptInv /\ KeyInv /\ GuardInv /\ FieldsGuarded)
<1> DEFINE JInv == KeptInv /\ KeyInv /\ GuardInv /\ FieldsGuarded
<1>1. Init => JInv
  BY InitMore
<1>2. IInv /\ JInv /\ [Next]_vars => JInv'
  <2>1. ASSUME IInv, JInv, Step PROVE JInv'
    BY <2>1, KeptStep, KeyStep, GuardStep DEF IInv
  <2>2. ASSUME JInv, UNCHANGED vars PROVE JInv'
    BY <2>2 DEF vars, option, insert, KeptInv, Shown, Over, KeyInv, MarksNamed, Names, Has, GuardInv, FieldsGuarded
  <2> QED
    BY <2>1, <2>2 DEF Next, Finished
<1> QED
  BY <1>1, <1>2, Invariance, PTL DEF Spec

\* Outside INSERT statements handleAtsign and handleOption write every token they read, but the
\* brackets and an @ before a digit or at the end, and they read the statement to its end unless
\* such an @ stands outside the options: what follows that one is lost.
THEOREM TokensKept == Spec => []NothingLost
<1>1. IInv /\ KeptInv => NothingLost
  BY DEF IInv, TypeOK, KeptInv, Over, NothingLost, Shown
<1> QED
  BY <1>1, InvarianceMore, PTL

\* Outside INSERT statements a ? becomes the field named by the identifier before it, at
\* top level and in an option (preKey of handleAtsign and of handleOption).
THEOREM MarksTakeWords == Spec => []MarkNamesWord
<1>1. KeyInv => MarkNamesWord
  BY DEF KeyInv, MarksNamed, Names, MarkNamesWord
<1> QED
  BY <1>1, InvarianceMore, PTL

\* Every parameter of an optional condition is an argument of the if around it, or is joined
\* to another one in an argument that makes the template unreadable: the text of an option is
\* never rendered with a parameter the if does not ask for.
THEOREM ParametersAsked == Spec => []FieldsGuarded
BY InvarianceMore, PTL
-----------------------------------------------------------------------------
\* An INSERT of SlotsMatchColumns: its tuple starts at u.
Insertion(text, s, l, r, v, u) ==
  /\ s \in Behind(text, 0, "insert") /\ l \in Behind(text, s, "lparen") /\ r \in Behind(text, l, "rparen")
  /\ v \in Behind(text, r, "values") /\ u \in Behind(text, v, "lparen")
  /\ WellFormedInsert(text, s, l, r, v, u)
\* The columns that the tokens from l to n list.
Listed(text, cols, l, n) ==
  /\ Len(cols) = Count(text, "word", l, n)
  /\ \A c \in 1..Len(cols) : \E w \in l..n :
       text[w].kind = "word" /\ Count(text, "word", l, w) = c /\ cols[c] = text[w].name
\* A ? has the name of the column at its place.
AtItsColumn(text, l, v, u, e) ==
  \E w \in l..v : /\ text[w].kind = "word" /\ Count(text, "comma", l, w) + 1 = Place(text, u, e.at)
                  /\ e.name = text[w].name
Slotted(text, l, v, u, e) ==
  e.kind = "field" /\ text[e.at].kind = "mark" /\ e.at > u /\ FirstTuple(text, u, e.at)
  => AtItsColumn(text, l, v, u, e)
AllSlotted(text, l, v, u, s) == \A k \in DOMAIN s : Slotted(text, l, v, u, s[k])
\* Where the handlers of an INSERT are: before it, at its column list, and from VALUES on, where
\* the index of handleInsertValues is the place of the token it is at.
InColumns(l) == /\ mode = "columns" /\ opened = (pos >= l) /\ slot = 1 /\ parens = 0
                /\ IF pos < l THEN columns = <<>> ELSE Listed(input, columns, l, pos)
InTuple(l, v, u) ==
  \/ /\ mode = "values" /\ Listed(input, columns, l, v)
     /\ parens = Depth(input, u, pos) /\ slot = Place(input, u, pos)
  \/ mode = "panic" /\ Place(input, u, pos) > Count(input, "word", l, v)
  \/ mode \in {"atsign", "done"} /\ pos = Len(input)
Reading(s, l, v, u) ==
  /\ pos < s => mode = "atsign"
  /\ pos \in s..v - 1 => InColumns(l)
  /\ pos >= v /\ FirstTuple(input, u, pos) => InTuple(l, v, u)
  /\ mode = "option" => ~FirstTuple(input, u, start)
SlotInv == \A s, l, r, v, u \in DOMAIN input :
  Insertion(input, s, l, r, v, u) => Reading(s, l, v, u) /\ AllSlotted(input, l, v, u, out)
-----------------------------------------------------------------------------
\* Tokens are counted one by one.
LEMMA SetNext ==
  ASSUME NEW i \in Nat, NEW j \in Nat, NEW S \in SUBSET (i..j)
  PROVE  Cardinality(S) \in Nat /\ Cardinality(S \cup {j + 1}) = Cardinality(S) + 1
<1>1. i \in Int /\ j \in Int /\ j + 1 \notin S
  OBVIOUS
<1>2. IsFiniteSet(i..j)
  BY ONLY <1>1, FS_Interval
<1>3. IsFiniteSet(S)
  BY <1>2, FS_Subset
<1>4. Cardinality(S) \in Nat
  BY <1>3, FS_CardinalityType
<1>5. Cardinality(S \cup {j + 1}) = Cardinality(S) + 1
  BY <1>1, <1>3, FS_AddElement
<1> QED
  BY <1>4, <1>5

LEMMA CountNext ==
  ASSUME NEW text, NEW kind, NEW i \in Nat, NEW j \in Nat, i <= j + 1
  PROVE  /\ Count(text, kind, i, j) \in Nat /\ Count(text, kind, i, j + 1) \in Nat
         /\ text[j + 1].kind = kind => Count(text, kind, i, j + 1) = Count(text, kind, i, j) + 1
         /\ text[j + 1].kind # kind => Count(text, kind, i, j + 1) = Count(text, kind, i, j)
<1> DEFINE S == {n \in i..j : text[n].kind = kind}
           T == {n \in i..j + 1 : text[n].kind = kind}
<1>1. S \subseteq i..j /\ \A n \in i..j + 1 : n \in i..j \/ n = j + 1
  OBVIOUS
<1>2. j + 1 \in i..j + 1 /\ i..j \subseteq i..j + 1
  OBVIOUS
<1>3. text[j + 1].kind = kind => T = S \cup {j + 1}
  BY <1>1, <1>2
<1>4. text[j + 1].kind # kind => T = S
  BY <1>1, <1>2
<1>5. Count(text, kind, i, j) = Cardinality(S) /\ Count(text, kind, i, j + 1) = Cardinality(T)
  BY DEF Count
<1>6. S \in SUBSET (i..j)
  BY <1>1
<1> HIDE DEF S, T
<1>7. Cardinality(S) \in Nat /\ Cardinality(S \cup {j + 1}) = Cardinality(S) + 1
  BY <1>6, SetNext
<1> DEFINE c == Cardinality(S)
<1>8. c \in Nat /\ c + 1 \in Nat
  BY <1>7
<1>9. Cardinality(T) = IF text[j + 1].kind = kind THEN c + 1 ELSE c
  BY <1>3, <1>4, <1>7
<1>10. Count(text, kind, i, j) = c
  BY <1>5
<1> HIDE DEF c
<1> QED
  BY <1>5, <1>8, <1>9, <1>10

LEMMA CountNone ==
  ASSUME NEW text, NEW kind, NEW i \in Nat, NEW j \in Nat, j < i
  PROVE  Count(text, kind, i, j) = 0
<1>1. {n \in i..j : text[n].kind = kind} = {}
  OBVIOUS
<1> QED
  BY <1>1, FS_EmptySet DEF Count

LEMMA CountMono ==
  ASSUME NEW text, NEW kind, NEW i \in Nat, NEW j \in Nat, NEW k \in Nat, j <= k
  PROVE  Count(text, kind, i, j) <= Count(text, kind, i, k)
<1> DEFINE S == {n \in i..j : text[n].kind = kind}
           T == {n \in i..k : text[n].kind = kind}
<1>1. S \subseteq T /\ T \subseteq i..k
  OBVIOUS
<1>2. Count(text, kind, i, j) = Cardinality(S) /\ Count(text, kind, i, k) = Cardinality(T)
  BY DEF Count
<1> HIDE DEF S, T
<1>3. IsFiniteSet(T)
  <2>1. i \in Int /\ k \in Int
    OBVIOUS
  <2>2. IsFiniteSet(i..k)
    BY ONLY <2>1, FS_Interval
  <2> QED
    BY <1>1, <2>2, FS_Subset
<1> QED
  BY <1>1, <1>2, <1>3, FS_Subset

\* The depth and the place after one more token.
LEMMA DepthNext ==
  ASSUME NEW text, NEW f \in Nat, NEW j \in Nat, f <= j + 1
  PROVE  /\ Depth(text, f, j) \in Int
         /\ text[j + 1].kind = "lparen" => Depth(text, f, j + 1) = Depth(text, f, j) + 1
         /\ text[j + 1].kind = "rparen" => Depth(text, f, j + 1) = Depth(text, f, j) - 1
         /\ text[j + 1].kind \notin {"lparen", "rparen"} => Depth(text, f, j + 1) = Depth(text, f, j)
<1> DEFINE l == Count(text, "lparen", f, j)
           r == Count(text, "rparen", f, j)
           l1 == Count(text, "lparen", f, j + 1)
           r1 == Count(text, "rparen", f, j + 1)
<1>1. /\ l \in Nat /\ (text[j + 1].kind = "lparen" => l1 = l + 1) /\ (text[j + 1].kind # "lparen" => l1 = l)
      /\ r \in Nat /\ (text[j + 1].kind = "rparen" => r1 = r + 1) /\ (text[j + 1].kind # "rparen" => r1 = r)
  BY CountNext
<1>2. Depth(text, f, j) = l - r /\ Depth(text, f, j + 1) = l1 - r1
  BY DEF Depth
<1> HIDE DEF l, r, l1, r1
<1> QED
  BY <1>1, <1>2

LEMMA PlaceNext ==
  ASSUME NEW text, NEW f \in Nat, NEW j \in Nat, f <= j
  PROVE  /\ Place(text, f, j) \in Nat
         /\ text[j + 1].kind = "comma" /\ Depth(text, f, j + 1) = 1 => Place(text, f, j + 1) = Place(text, f, j) + 1
         /\ ~(text[j + 1].kind = "comma" /\ Depth(text, f, j + 1) = 1) => Place(text, f, j + 1) = Place(text, f, j)
<1> DEFINE P(n) == text[n].kind = "comma" /\ Depth(text, f, n) = 1
           S == {n \in f + 1..j : P(n)}
           T == {n \in f + 1..j + 1 : P(n)}
           s == Cardinality(S)
           t == Cardinality(T)
<1>1. Place(text, f, j) = 1 + s /\ Place(text, f, j + 1) = 1 + t
  BY DEF Place
<1>2. (text[j + 1].kind = "comma" /\ Depth(text, f, j + 1) = 1) = P(j + 1)
  OBVIOUS
<1> HIDE DEF P
<1>3. S \subseteq f + 1..j /\ f + 1 \in Nat /\ j + 1 \in f + 1..j + 1
      /\ \A n : n \in f + 1..j + 1 <=> n \in f + 1..j \/ n = j + 1
  OBVIOUS
<1>4. (P(j + 1) => T = S \cup {j + 1}) /\ (~P(j + 1) => T = S)
  BY <1>3
<1> HIDE DEF S, T
<1>5. s \in Nat /\ Cardinality(S \cup {j + 1}) = s + 1
  <2> DEFINE i == f + 1
  <2>1. i \in Nat /\ S \in SUBSET (i..j)
    BY <1>3
  <2> HIDE DEF i
  <2> QED
    BY <2>1, SetNext
<1>6. t = IF P(j + 1) THEN s + 1 ELSE s
  BY <1>4, <1>5
<1> HIDE DEF s, t
<1> DEFINE d == Place(text, f, j)
           e == Place(text, f, j + 1)
<1>7. d = 1 + s /\ e = 1 + t
  BY <1>1
<1> HIDE DEF d, e
<1>8. d \in Nat /\ e = IF P(j + 1) THEN d + 1 ELSE d
  BY <1>5, <1>6, <1>7
<1> QED
  BY <1>2, <1>8 DEF d, e

\* Up to the parenthesis that opens the tuple.
LEMMA PlaceFirst ==
  ASSUME NEW text, NEW u \in Nat, NEW n \in Nat, n <= u
  PROVE  (n < u => Depth(text, u, n) = 0) /\ Place(text, u, n) = 1
<1>1. ASSUME n < u PROVE Count(text, "lparen", u, n) = 0 /\ Count(text, "rparen", u, n) = 0
  BY <1>1, CountNone
<1>2. {i \in u + 1..n : text[i].kind = "comma" /\ Depth(text, u, i) = 1} = {}
  OBVIOUS
<1>3. n < u => Depth(text, u, n) = 0 - 0
  BY <1>1 DEF Depth
<1>4. Place(text, u, n) = 1 + 0
  BY <1>2, FS_EmptySet DEF Place
<1> QED
  BY <1>3, <1>4

LEMMA TupleLess ==
  ASSUME NEW text, NEW u \in Nat, NEW j \in Nat, NEW i \in Nat, i <= j, FirstTuple(text, u, j)
  PROVE  FirstTuple(text, u, i)
BY DEF FirstTuple

\* One more token of a column list.
LEMMA ListedNext ==
  ASSUME NEW text, NEW cols \in Seq(Name), NEW l \in Nat, NEW n \in Nat, l <= n + 1, Listed(text, cols, l, n)
  PROVE  /\ text[n + 1].kind = "word" => Listed(text, Append(cols, text[n + 1].name), l, n + 1)
         /\ text[n + 1].kind # "word" => Listed(text, cols, l, n + 1)
<1> DEFINE name == text[n + 1].name
           more == Append(cols, name)
<1>1. /\ Count(text, "word", l, n) \in Nat
      /\ text[n + 1].kind = "word" => Count(text, "word", l, n + 1) = Count(text, "word", l, n) + 1
      /\ text[n + 1].kind # "word" => Count(text, "word", l, n + 1) = Count(text, "word", l, n)
  BY CountNext
<1>2. Len(cols) \in Nat /\ Len(cols) = Count(text, "word", l, n)
  BY LenProperties DEF Listed
<1>3. Len(more) = Len(cols) + 1 /\ more[Len(cols) + 1] = name /\ \A c \in 1..Len(cols) : more[c] = cols[c]
  BY AppendAny
<1>4. ASSUME NEW c \in 1..Len(cols)
      PROVE  \E w \in l..n + 1 : text[w].kind = "word" /\ Count(text, "word", l, w) = c /\ cols[c] = text[w].name
  <2>1. PICK w \in l..n : text[w].kind = "word" /\ Count(text, "word", l, w) = c /\ cols[c] = text[w].name
    BY <1>4 DEF Listed
  <2>2. w \in l..n + 1
    OBVIOUS
  <2> QED
    BY <2>1, <2>2
<1>5. n + 1 \in l..n + 1
  OBVIOUS
<1> HIDE DEF more
<1>6. CASE text[n + 1].kind = "word"
  <2>1. ASSUME NEW c \in 1..Len(more)
        PROVE  \E w \in l..n + 1 : text[w].kind = "word" /\ Count(text, "word", l, w) = c /\ more[c] = text[w].name
    <3>1. c \in 1..Len(cols) \/ c = Len(cols) + 1
      BY <1>2, <1>3, <2>1
    <3>2. CASE c \in 1..Len(cols)
      BY <1>3, <1>4, <3>2
    <3>3. CASE c = Len(cols) + 1
      BY <1>1, <1>2, <1>3, <1>5, <1>6, <3>3
    <3> QED
      BY <3>1, <3>2, <3>3
  <2>2. Len(more) = Count(text, "word", l, n + 1)
    BY <1>1, <1>2, <1>3, <1>6
  <2> QED
    BY <1>6, <2>1, <2>2 DEF Listed, more
<1>7. CASE text[n + 1].kind # "word"
  BY <1>1, <1>2, <1>4, <1>7 DEF Listed
<1> QED
  BY <1>6, <1>7
-----------------------------------------------------------------------------
\* The handler at work makes the step.
LEMMA Handlers ==
  ASSUME Step
  PROVE  /\ mode \in {"atsign", "option", "columns", "values"}
         /\ mode = "atsign" => AtsignItem \/ AtsignOption \/ AtsignInsert \/ AtsignEnd
         /\ mode = "option" => OptionItem \/ OptionBracket \/ OptionEnd
         /\ mode = "columns" => ColumnsItem \/ ColumnsEnd
         /\ mode = "values" => ValuesItem \/ ValuesEnd
BY DEF Step, AtsignItem, AtsignOption, AtsignInsert, AtsignEnd, OptionItem, OptionBracket, OptionEnd,
       ColumnsItem, ColumnsEnd, ValuesItem, ValuesEnd

\* Where an option is opened.
LEMMA OptionOpens ==
  ASSUME Step, mode' = "option"
  PROVE  \/ mode = "option" /\ UNCHANGED start
         \/ mode = "atsign" /\ At({"open"}) /\ start' = pos + 1
<1>1. CASE AtsignItem \/ AtsignInsert \/ AtsignEnd
  BY <1>1 DEF AtsignItem, AtsignInsert, AtsignEnd
<1>2. CASE AtsignOption
  BY <1>2 DEF AtsignOption
<1>3. CASE OptionItem \/ OptionBracket \/ OptionEnd
  BY <1>3 DEF OptionItem, OptionBracket, OptionEnd
<1>4. CASE ColumnsItem \/ ColumnsEnd
  BY <1>4 DEF ColumnsItem, ColumnsEnd
<1>5. CASE ValuesItem \/ ValuesEnd
  BY <1>5 DEF ValuesItem, ValuesMark, ValuesEnd
<1> QED
  BY <1>1, <1>2, <1>3, <1>4, <1>5 DEF Step

\* A token is consumed that is of the kind read there.
LEMMA AtKind ==
  ASSUME NEW kinds, At(kinds)
  PROVE  input[pos + 1].kind \in kinds /\ pos' = pos + 1 /\ input' = input /\ pos < Len(input)
BY DEF At, Tok

\* The pieces written so far, and one more.
LEMMA SlottedAppend ==
  ASSUME NEW S, NEW q \in Seq(S), NEW e, NEW text, NEW l, NEW v, NEW u,
         AllSlotted(text, l, v, u, q), Slotted(text, l, v, u, e)
  PROVE  AllSlotted(text, l, v, u, Append(q, e))
<1>1. /\ DOMAIN q = 1..Len(q) /\ Len(q) \in Nat /\ DOMAIN Append(q, e) = 1..(Len(q) + 1)
      /\ \A n \in 1..Len(q) : Append(q, e)[n] = q[n]
      /\ Append(q, e)[Len(q) + 1] = e
  BY AppendAny
<1>2. \A k \in 1..(Len(q) + 1) : k \in 1..Len(q) \/ k = Len(q) + 1
  BY <1>1
<1> QED
  BY <1>1, <1>2 DEF AllSlotted

NextSlotted(l, v, u) == \A e : e.at = pos + 1 => Slotted(input, l, v, u, e)
LEMMA SlottedWritten ==
  ASSUME TypeOK, NEW l, NEW v, NEW u, AllSlotted(input, l, v, u, out), Written(out, out'), NextSlotted(l, v, u)
  PROVE  AllSlotted(input, l, v, u, out')
<1>1. CASE out' = out
  BY <1>1
<1>2. ASSUME NEW e \in PieceAt(1..pos'), e.at = pos + 1, out' = Append(out, e)
      PROVE  AllSlotted(input, l, v, u, out')
  <2>1. out \in Seq(OutAt(1..pos)) /\ Slotted(input, l, v, u, e)
    BY <1>2 DEF TypeOK, NextSlotted
  <2> QED
    BY <1>2, <2>1, SlottedAppend
<1> QED
  BY <1>1, <1>2 DEF Written

\* Before the first column.
LEMMA ListedNone ==
  ASSUME NEW text, NEW l \in Nat, NEW n \in Nat, n < l
  PROVE  Listed(text, <<>>, l, n)
<1> DEFINE e == <<>>
<1>1. Len(e) = 0
  OBVIOUS
<1>2. Count(text, "word", l, n) = 0
  BY CountNone
<1> HIDE DEF e
<1>3. Listed(text, e, l, n)
  <2>1. ASSUME NEW c \in 1..Len(e) PROVE FALSE
    BY <1>1
  <2> QED
    BY <1>1, <1>2, <2>1 DEF Listed
<1> QED
  BY <1>3 DEF e

\* Where the words of an INSERT stand.
LEMMA InsertionFacts ==
  ASSUME TypeOK, NEW s, NEW l, NEW r, NEW v, NEW u, Insertion(input, s, l, r, v, u)
  PROVE  /\ s \in 1..Len(input) /\ l \in 1..Len(input) /\ r \in 1..Len(input) /\ v \in 1..Len(input)
         /\ u \in 1..Len(input) /\ Len(input) \in Nat
         /\ s < l /\ l < r /\ r < v /\ v < u
         /\ input[s].kind = "insert" /\ input[l].kind = "lparen" /\ input[r].kind = "rparen"
         /\ input[v].kind = "values" /\ input[u].kind = "lparen"
<1>1. Len(input) \in Nat
  BY LenProperties DEF TypeOK
<1>2. s \in 1..Len(input) /\ input[s].kind = "insert"
  BY <1>1 DEF Insertion, Behind
<1>3. l \in 1..Len(input) /\ s < l /\ input[l].kind = "lparen"
  BY <1>1, <1>2 DEF Insertion, Behind
<1>4. r \in 1..Len(input) /\ l < r /\ input[r].kind = "rparen"
  BY <1>1, <1>3 DEF Insertion, Behind
<1>5. v \in 1..Len(input) /\ r < v /\ input[v].kind = "values"
  BY <1>1, <1>4 DEF Insertion, Behind
<1>6. u \in 1..Len(input) /\ v < u /\ input[u].kind = "lparen"
  BY <1>1, <1>5 DEF Insertion, Behind
<1> QED
  BY <1>1, <1>2, <1>3, <1>4, <1>5, <1>6

\* A word from the list of columns is a column of its own, with a comma before it but for the first.
LEMMA ColumnWord ==
  ASSUME TypeOK, NEW s, NEW l, NEW r, NEW v, NEW u, Insertion(input, s, l, r, v, u),
         NEW w \in l..v, input[w].kind = "word"
  PROVE  Count(input, "word", l, w) = Count(input, "comma", l, w) + 1
<1>1. w # l /\ w # r /\ w # v /\ l \in Nat /\ r \in Nat /\ v \in Nat /\ u \in Nat /\ l < r /\ r < v /\ v < u
  BY InsertionFacts
<1>2. w \in r + 1..u - 1 => FALSE
  BY <1>1 DEF Insertion, WellFormedInsert
<1>3. w \in l + 1..r - 1
  BY <1>1, <1>2
<1> QED
  BY <1>3 DEF Insertion, WellFormedInsert

\* What stands before INSERT, and the word INSERT itself.
LEMMA BeforeStep ==
  ASSUME TypeOK, Step, NEW s, NEW l, NEW r, NEW v, NEW u, Insertion(input, s, l, r, v, u),
         pos < s, mode = "atsign"
  PROVE  /\ pos' = pos + 1 /\ mode' # "option" /\ Written(out, out')
         /\ IF pos' < s THEN mode' = "atsign" ELSE InColumns(l)'
<1>1. /\ pos \in Nat /\ Len(input) \in Nat /\ s \in Nat /\ l \in Nat /\ s < l /\ pos # Len(input)
      /\ input[s].kind = "insert"
  BY InsertionFacts DEF TypeOK
<1>2. IF pos + 1 < s THEN input[pos + 1].kind \notin {"insert", "open", "stop"} ELSE input[pos + 1].kind = "insert"
  <2>1. CASE pos + 1 < s
    <3>1. pos + 1 \in 1..s - 1
      BY <1>1, <2>1
    <3> QED
      BY <2>1, <3>1 DEF Insertion, WellFormedInsert
  <2>2. CASE ~(pos + 1 < s)
    <3>1. pos + 1 = s
      BY <1>1, <2>2
    <3> QED
      BY <1>1, <2>2, <3>1
  <2> QED
    BY <2>1, <2>2
<1>3. ASSUME NEW kinds, At(kinds)
      PROVE  input[pos + 1].kind \in kinds /\ pos' = pos + 1 /\ input' = input
  BY <1>3, AtKind
<1>4. ~AtsignOption /\ ~AtsignEnd
  BY <1>1, <1>2, <1>3 DEF AtsignOption, AtsignEnd, AtEnd
<1>5. CASE AtsignItem
  <2>1. pos' = pos + 1 /\ mode' = "atsign" /\ input[pos + 1].kind # "insert"
    BY <1>3, <1>5 DEF AtsignItem
  <2> QED
    BY <1>1, <1>2, <1>5, <2>1, AtsignWrites
<1>6. CASE AtsignInsert
  <2>1. /\ pos' = pos + 1 /\ mode' = "columns" /\ columns' = <<>> /\ opened' = FALSE /\ slot' = 1 /\ parens' = 0
        /\ input' = input /\ input[pos + 1].kind = "insert"
    BY <1>3, <1>6 DEF AtsignInsert
  <2>2. pos' = s /\ (pos' >= l) = FALSE /\ pos' < l
    BY <1>1, <1>2, <2>1
  <2>3. InColumns(l)'
    BY <2>1, <2>2 DEF InColumns
  <2> QED
    BY <1>1, <1>6, <2>1, <2>2, <2>3, AtsignWrites
<1> QED
  BY <1>4, <1>5, <1>6, Handlers

\* A token between INSERT and VALUES.
LEMMA ColumnToken ==
  ASSUME TypeOK, NEW s, NEW l, NEW r, NEW v, NEW u, Insertion(input, s, l, r, v, u), NEW n \in s + 1..v - 1
  PROVE  LET k == input[n].kind IN
         /\ k \notin {"values", "stop"} /\ (n # l => k # "lparen") /\ (n = l => k = "lparen")
         /\ n > l => k \in {"word", "comma", "text", "rparen"}
<1>1. s \in Nat /\ l \in Nat /\ r \in Nat /\ v \in Nat /\ u \in Nat /\ s < l /\ l < r /\ r < v /\ v < u
      /\ input[l].kind = "lparen" /\ input[r].kind = "rparen"
  BY InsertionFacts
<1>2. CASE n \in s + 1..l - 1
  BY <1>1, <1>2 DEF Insertion, WellFormedInsert
<1>3. CASE n \in l + 1..r - 1
  <2>1. input[n].kind \in {"word", "comma", "text"} /\ n # l
    BY <1>1, <1>3 DEF Insertion, WellFormedInsert
  <2> QED
    BY <2>1
<1>4. CASE n \in r + 1..v - 1
  <2>1. n \in r + 1..u - 1 /\ n # v /\ n # l
    BY <1>1, <1>4
  <2> QED
    BY <2>1 DEF Insertion, WellFormedInsert
<1> QED
  BY <1>1, <1>2, <1>3, <1>4

\* The column list, with what stands before it and behind it.
LEMMA ColumnStep ==
  ASSUME TypeOK, Step, NEW s, NEW l, NEW r, NEW v, NEW u, Insertion(input, s, l, r, v, u),
         pos \in s..v - 2, InColumns(l)
  PROVE  pos' = pos + 1 /\ mode' # "option" /\ InColumns(l)' /\ Written(out, out')
<1> DEFINE k == input[pos + 1].kind
           Moved == /\ pos' = pos + 1 /\ input' = input /\ mode' = "columns" /\ slot' = 1 /\ parens' = 0
                    /\ opened' = (pos + 1 >= l)
                    /\ IF pos + 1 < l THEN columns' = <<>> ELSE Listed(input, columns', l, pos + 1)
<1>1. s \in Nat /\ l \in Nat /\ v \in Nat /\ pos \in Nat /\ Len(input) \in Nat /\ pos # Len(input)
  BY InsertionFacts DEF TypeOK
<1>2. /\ k \notin {"values", "stop"} /\ (pos + 1 # l => k # "lparen") /\ (pos + 1 = l => k = "lparen")
      /\ pos + 1 > l => k \in {"word", "comma", "text", "rparen"}
  <2>1. pos + 1 \in s + 1..v - 1
    BY <1>1
  <2> QED
    BY <2>1, ColumnToken
<1>3. ASSUME NEW kinds, At(kinds) PROVE k \in kinds /\ pos' = pos + 1 /\ input' = input
  BY <1>3, AtKind
<1>4. ColumnsItem
  <2>1. ~ColumnsEnd
    BY <1>1, <1>2, <1>3 DEF ColumnsEnd, AtEnd
  <2> QED
    BY <2>1, Handlers DEF InColumns
<1>5. /\ columns \in Seq(Name) /\ mode' = "columns" /\ slot' = 1 /\ parens' = 0 /\ opened = (pos >= l)
      /\ IF pos < l THEN columns = <<>> ELSE Listed(input, columns, l, pos)
  BY <1>4 DEF TypeOK, InColumns, ColumnsItem
<1>6. Listed(input, columns, l, pos)
  BY <1>1, <1>5, ListedNone
<1>7. ASSUME l <= pos + 1
      PROVE  /\ k = "word" => Listed(input, Append(columns, input[pos + 1].name), l, pos + 1)
             /\ k # "word" => Listed(input, columns, l, pos + 1)
  BY <1>1, <1>5, <1>6, <1>7, ListedNext
<1> HIDE DEF k
<1>8. Moved
  <2>1. CASE At({"word", "insert"}) /\ columns' = (IF opened THEN Append(columns, Tok.name) ELSE columns) /\ UNCHANGED opened
    <3>1. pos' = pos + 1 /\ input' = input /\ k \in {"word", "insert"} /\ pos + 1 # l
      BY <1>2, <1>3, <2>1
    <3>2. CASE pos + 1 < l
      <4>1. pos < l /\ (pos >= l) = FALSE /\ (pos + 1 >= l) = FALSE
        BY <1>1, <3>2
      <4> QED
        BY <1>5, <2>1, <3>1, <3>2, <4>1
    <3>3. CASE pos + 1 > l
      <4>1. (pos >= l) = TRUE /\ (pos + 1 >= l) = TRUE /\ ~(pos + 1 < l) /\ l <= pos + 1
        BY <1>1, <3>3
      <4>2. k = "word" /\ opened /\ columns' = Append(columns, input[pos + 1].name)
        BY <1>2, <1>5, <2>1, <3>1, <3>3, <4>1 DEF Tok
      <4> QED
        BY <1>5, <1>7, <2>1, <3>1, <4>1, <4>2
    <3> QED
      BY <1>1, <3>1, <3>2, <3>3
  <2>2. CASE At({"lparen"}) /\ opened' = TRUE /\ UNCHANGED columns
    <3>1. pos' = pos + 1 /\ input' = input /\ k = "lparen" /\ pos + 1 = l
      BY <1>2, <1>3, <2>2
    <3>2. (pos + 1 >= l) = TRUE /\ ~(pos + 1 < l) /\ l <= pos + 1
      BY <1>1, <3>1
    <3> QED
      BY <1>5, <1>7, <2>2, <3>1, <3>2
  <2>3. ASSUME NEW kinds, At(kinds), "lparen" \notin kinds, "word" \notin kinds, UNCHANGED <<columns, opened>>
        PROVE  Moved
    <3>1. pos' = pos + 1 /\ input' = input /\ k \notin {"word", "lparen"} /\ pos + 1 # l
      BY <1>2, <1>3, <2>3
    <3>2. (pos >= l) = (pos + 1 >= l) /\ (pos + 1 < l => pos < l) /\ (~(pos + 1 < l) => l <= pos + 1)
      BY <1>1, <3>1
    <3> QED
      BY <1>5, <1>7, <2>3, <3>1, <3>2
  <2>4. "lparen" \notin {"field", "keyword", "text", "rparen"} \cup Char /\ "word" \notin {"field", "keyword", "text", "rparen"} \cup Char
    BY DEF Char
  <2> QED
    BY <1>4, <2>1, <2>2, <2>3, <2>4 DEF ColumnsItem
<1>9. InColumns(l)'
  BY <1>8 DEF InColumns
<1> QED
  BY <1>4, <1>8, <1>9, InsertWrites

\* The word VALUES.
LEMMA ColumnsEndStep ==
  ASSUME TypeOK, Step, NEW s, NEW l, NEW r, NEW v, NEW u, Insertion(input, s, l, r, v, u), pos = v - 1, InColumns(l)
  PROVE  pos' = v /\ mode' # "option" /\ InTuple(l, v, u)' /\ Written(out, out')
<1>1. /\ l \in Nat /\ r \in Nat /\ v \in Nat /\ u \in Nat /\ l < r /\ r < v /\ v < u /\ pos \in Nat /\ Len(input) \in Nat
      /\ pos # Len(input) /\ pos + 1 = v /\ l <= pos
  <2>1. /\ l \in Nat /\ r \in Nat /\ v \in 1..Len(input) /\ u \in Nat /\ l < r /\ r < v /\ v < u
        /\ Len(input) \in Nat
    BY InsertionFacts
  <2> QED
    BY <2>1
<1>2. input[pos + 1].kind = "values"
  BY <1>1, InsertionFacts
<1>3. ASSUME NEW kinds, At(kinds) PROVE "values" \in kinds
  BY <1>2, <1>3, AtKind
<1>4. ColumnsEnd
  <2>1. "values" \notin {"field", "keyword", "text", "rparen"} \cup Char
    BY DEF Char
  <2>2. ~ColumnsItem
    BY <1>3, <2>1 DEF ColumnsItem
  <2> QED
    BY <2>2, Handlers DEF InColumns
<1>5. At({"values"}) /\ input' = input /\ pos' = v
  <2>1. ~AtEnd
    BY <1>1, <1>3 DEF AtEnd
  <2> QED
    BY <1>1, <1>4, <2>1, AtKind DEF ColumnsEnd
<1>6. Listed(input, columns, l, v)
  <2>1. Listed(input, columns, l, pos) /\ columns \in Seq(Name)
    BY <1>1 DEF InColumns, TypeOK
  <2> QED
    BY <1>1, <1>2, <2>1, ListedNext
<1>7. columns # <<>>
  <2>1. PICK w \in l + 1..r - 1 : input[w].kind = "word"
    BY DEF Insertion, WellFormedInsert
  <2> DEFINE n == w - 1
  <2>2. n \in Nat /\ n + 1 = w /\ l <= n + 1 /\ w \in Nat /\ w <= v
    BY <1>1, <2>1
  <2> HIDE DEF n
  <2>3. input[n + 1].kind = "word"
    BY <2>1, <2>2
  <2> DEFINE c == Count(input, "word", l, v)
             d == Count(input, "word", l, n)
             f == Count(input, "word", l, n + 1)
             e == <<>>
  <2>4. d \in Nat /\ f = d + 1
    <3>1. d \in Nat /\ (input[n + 1].kind = "word" => f = d + 1)
      BY <1>1, <2>2, CountNext
    <3> HIDE DEF d, f
    <3> QED
      BY <2>3, <3>1
  <2>5. f <= c
    <3>1. n + 1 \in Nat /\ n + 1 <= v
      BY <2>2
    <3> QED
      BY <1>1, <3>1, CountMono
  <2>6. Len(columns) = c /\ c \in Nat /\ Len(e) = 0
    BY <1>6, LenProperties DEF Listed, TypeOK
  <2> HIDE DEF c, d, e, f
  <2>7. columns # e
    BY <2>4, <2>5, <2>6
  <2> QED
    BY <2>7 DEF e
<1>8. mode' = "values" /\ columns' = columns /\ slot' = 1 /\ parens' = 0
  BY <1>4, <1>7 DEF ColumnsEnd, insert, InColumns
<1>9. Depth(input, u, v) = 0 /\ Place(input, u, v) = 1
  BY <1>1, PlaceFirst
<1>10. InTuple(l, v, u)'
  BY <1>1, <1>5, <1>6, <1>8, <1>9 DEF InTuple
<1> QED
  BY <1>4, <1>5, <1>8, <1>10, InsertWrites
-----------------------------------------------------------------------------
\* From VALUES on, the index moves with the place.
LEMMA TupleNext ==
  ASSUME NEW text, NEW u \in Nat, NEW n \in Nat, text[u].kind = "lparen", FirstTuple(text, u, n),
         n + 1 < u => text[n + 1].kind = "text"
  PROVE  LET k == text[n + 1].kind
             d == Depth(text, u, n)
         IN /\ d \in Int
            /\ Depth(text, u, n + 1) = IF k = "lparen" THEN d + 1 ELSE IF k = "rparen" THEN d - 1 ELSE d
            /\ Place(text, u, n + 1) = IF k = "comma" /\ d = 1 THEN Place(text, u, n) + 1 ELSE Place(text, u, n)
            /\ FirstTuple(text, u, n + 1) /\ k # "text" => k # "stop" /\ Depth(text, u, n + 1) >= 1
<1> DEFINE d == Depth(text, u, n)
           k == text[n + 1].kind
<1>0. n + 1 \in Nat
  OBVIOUS
<1>1. CASE n + 1 < u
  <2>1. d = 0 /\ Depth(text, u, n + 1) = 0 /\ Place(text, u, n) = 1 /\ Place(text, u, n + 1) = 1 /\ k = "text"
    BY <1>0, <1>1, PlaceFirst
  <2> QED
    BY <2>1
<1>2. CASE u <= n + 1
  <2>1. /\ d \in Int
        /\ Depth(text, u, n + 1) = IF k = "lparen" THEN d + 1 ELSE IF k = "rparen" THEN d - 1 ELSE d
    BY <1>2, DepthNext
  <2>2. Place(text, u, n + 1) = IF k = "comma" /\ d = 1 THEN Place(text, u, n) + 1 ELSE Place(text, u, n)
    <3>1. CASE u = n + 1
      <4>1. k # "comma" /\ Place(text, u, n + 1) = 1 /\ Place(text, u, n) = 1
        BY <1>0, <3>1, PlaceFirst
      <4> QED
        BY <4>1
    <3>2. CASE u <= n
      <4>1. /\ k = "comma" /\ Depth(text, u, n + 1) = 1 => Place(text, u, n + 1) = Place(text, u, n) + 1
            /\ ~(k = "comma" /\ Depth(text, u, n + 1) = 1) => Place(text, u, n + 1) = Place(text, u, n)
        BY <3>2, PlaceNext
      <4>2. k = "comma" => Depth(text, u, n + 1) = d
        BY <2>1
      <4> QED
        BY <4>1, <4>2
    <3> QED
      BY <1>2, <3>1, <3>2
  <2>3. n + 1 \in u..n + 1
    BY <1>2
  <2>4. FirstTuple(text, u, n + 1) => k # "stop" /\ Depth(text, u, n + 1) >= 1
    BY <2>3 DEF FirstTuple
  <2> QED
    BY <2>1, <2>2, <2>4
<1> QED
  BY <1>1, <1>2

\* A step of handleInsertValues in the first tuple.
LEMMA ValuesStep ==
  ASSUME TypeOK, ValuesItem, NEW s, NEW l, NEW r, NEW v, NEW u, Insertion(input, s, l, r, v, u), pos >= v,
         FirstTuple(input, u, pos), mode = "values", InTuple(l, v, u), AllSlotted(input, l, v, u, out)
  PROVE  FirstTuple(input, u, pos + 1) => InTuple(l, v, u)' /\ AllSlotted(input, l, v, u, out')
<1> DEFINE kind == input[pos + 1].kind
           place == Place(input, u, pos)
           depth == Depth(input, u, pos)
<1>1. /\ r \in Nat /\ v \in Nat /\ u \in Nat /\ r < v /\ v < u /\ pos \in Nat /\ Len(input) \in Nat /\ v <= pos
      /\ Len(columns) \in Nat /\ slot \in Nat /\ out \in Seq(OutAt(1..pos)) /\ columns \in Seq(Name)
  BY InsertionFacts, LenProperties DEF TypeOK
<1> SUFFICES ASSUME FirstTuple(input, u, pos + 1)
             PROVE  InTuple(l, v, u)' /\ AllSlotted(input, l, v, u, out')
  OBVIOUS
<1>2. /\ depth \in Int /\ Place(input, u, pos + 1) = IF kind = "comma" /\ depth = 1 THEN place + 1 ELSE place
      /\ Depth(input, u, pos + 1) = IF kind = "lparen" THEN depth + 1 ELSE IF kind = "rparen" THEN depth - 1 ELSE depth
      /\ kind # "text" => Depth(input, u, pos + 1) >= 1
  <2>1. input[u].kind = "lparen"
    BY InsertionFacts
  <2>2. pos + 1 < u => kind = "text"
    <3>1. pos + 1 < u => pos + 1 \in r + 1..u - 1 /\ pos + 1 # v
      BY <1>1
    <3> QED
      BY <3>1 DEF Insertion, WellFormedInsert
  <2> QED
    BY <1>1, <2>1, <2>2, TupleNext
<1>3. pos # Len(input)
  BY AtKind DEF ValuesItem, ValuesMark
<1>4. Listed(input, columns, l, v) /\ parens = depth /\ slot = place
  BY <1>3 DEF InTuple
<1>5. Len(columns) = Count(input, "word", l, v)
  BY <1>4 DEF Listed
<1> HIDE DEF kind, place, depth
<1>6. ASSUME pos' = pos + 1, input' = input, columns' = columns, mode' = "values",
             parens' = Depth(input, u, pos + 1), slot' = Place(input, u, pos + 1)
      PROVE  InTuple(l, v, u)'
  BY <1>4, <1>6 DEF InTuple
<1>7. ASSUME kind # "mark" PROVE AllSlotted(input, l, v, u, out')
  <2>1. NextSlotted(l, v, u)
    BY <1>7 DEF NextSlotted, Slotted, kind
  <2>2. Written(out, out')
    BY InsertWrites
  <2> QED
    BY <2>1, <2>2, SlottedWritten
<1>8. columns' = columns
  BY DEF ValuesItem
<1>9. CASE At({"comma"}) /\ slot' = NextSlot /\ UNCHANGED <<mode, parens>>
  <2>1. pos' = pos + 1 /\ input' = input /\ kind = "comma"
    BY <1>9, AtKind DEF kind
  <2>2. slot' = Place(input, u, pos + 1) /\ parens' = Depth(input, u, pos + 1)
    BY <1>2, <1>4, <1>9, <2>1 DEF NextSlot
  <2> QED
    BY <1>6, <1>7, <1>8, <1>9, <2>1, <2>2
<1>10. CASE ValuesMark /\ UNCHANGED <<slot, parens>>
  <2>1. pos' = pos + 1 /\ input' = input /\ kind = "mark"
    BY <1>10, AtKind DEF kind, ValuesMark
  <2>2. slot' = Place(input, u, pos + 1) /\ parens' = Depth(input, u, pos + 1) /\ slot' = slot
    BY <1>2, <1>4, <1>10, <2>1
  <2>3. CASE slot <= Len(columns)
    <3>1. Emit(Field(columns[slot])) /\ mode' = mode
      BY <1>10, <2>3 DEF ValuesMark
    <3>2. slot \in 1..Len(columns)
      BY <1>1, <2>3 DEF TypeOK
    <3>3. PICK w \in l..v : input[w].kind = "word" /\ Count(input, "word", l, w) = slot /\ columns[slot] = input[w].name
      BY <1>4, <3>2 DEF Listed
    <3>4. Count(input, "comma", l, w) + 1 = slot
      BY <3>3, ColumnWord
    <3> DEFINE e == Field(columns[slot])
    <3>5. e.at = pos + 1 /\ e.name = columns[slot] /\ out' = Append(out, e)
      BY <3>1 DEF Emit, Field, Piece
    <3> HIDE DEF e
    <3>6. AtItsColumn(input, l, v, u, e)
      BY <2>2, <3>3, <3>4, <3>5 DEF AtItsColumn
    <3>7. AllSlotted(input, l, v, u, out')
      BY <1>1, <3>5, <3>6, SlottedAppend DEF Slotted
    <3> QED
      BY <1>6, <1>8, <2>1, <2>2, <3>1, <3>7
  <2>4. CASE ~(slot <= Len(columns))
    <3>1. mode' = "panic" /\ out' = out
      BY <1>10, <2>4 DEF ValuesMark
    <3>2. slot > Len(columns)
      BY <1>1, <2>4
    <3>3. InTuple(l, v, u)'
      BY <1>5, <2>1, <2>2, <3>1, <3>2 DEF InTuple
    <3> QED
      BY <3>1, <3>3
  <2> QED
    BY <2>3, <2>4
<1>11. ASSUME NEW kinds, At(kinds), kinds \cap {"comma", "mark", "lparen", "rparen"} = {}, UNCHANGED <<mode, slot, parens>>
       PROVE  InTuple(l, v, u)' /\ AllSlotted(input, l, v, u, out')
  <2>1. pos' = pos + 1 /\ input' = input /\ kind \notin {"comma", "mark", "lparen", "rparen"}
    BY <1>11, AtKind DEF kind
  <2>2. slot' = Place(input, u, pos + 1) /\ parens' = Depth(input, u, pos + 1)
    BY <1>2, <1>4, <1>11, <2>1
  <2> QED
    BY <1>6, <1>7, <1>8, <1>11, <2>1, <2>2
<1>12. CASE At({"lparen"}) /\ parens' = parens + 1 /\ UNCHANGED <<mode, slot>>
  <2>1. pos' = pos + 1 /\ input' = input /\ kind = "lparen"
    BY <1>12, AtKind DEF kind
  <2>2. slot' = Place(input, u, pos + 1) /\ parens' = Depth(input, u, pos + 1)
    BY <1>2, <1>4, <1>12, <2>1
  <2> QED
    BY <1>6, <1>7, <1>8, <1>12, <2>1, <2>2
<1>13. CASE /\ At({"rparen"}) /\ parens' = parens - 1
            /\ mode' = (IF parens = 1 THEN "atsign" ELSE mode) /\ UNCHANGED slot
  <2>1. pos' = pos + 1 /\ input' = input /\ kind = "rparen"
    BY <1>13, AtKind DEF kind
  <2>2. slot' = Place(input, u, pos + 1) /\ parens' = Depth(input, u, pos + 1) /\ parens # 1
    BY <1>2, <1>4, <1>13, <2>1
  <2> QED
    BY <1>6, <1>7, <1>8, <1>13, <2>1, <2>2
<1> DEFINE none == {"comma", "mark", "lparen", "rparen"}
<1>14. /\ {"open", "close", "char"} \cap none = {} /\ {"field", "action"} \cap none = {}
       /\ ({"keyword", "text"} \cup Ident) \cap none = {}
  BY DEF Ident
<1> QED
  BY <1>9, <1>10, <1>11, <1>12, <1>13, <1>14 DEF ValuesItem

\* In the first tuple, or at its end.
LEMMA TupleStep ==
  ASSUME TypeOK, Step, NEW s, NEW l, NEW r, NEW v, NEW u, Insertion(input, s, l, r, v, u), pos >= v,
         FirstTuple(input, u, pos), InTuple(l, v, u), AllSlotted(input, l, v, u, out)
  PROVE  /\ mode' # "option" /\ AllSlotted(input, l, v, u, out')
         /\ FirstTuple(input, u, pos') => InTuple(l, v, u)'
<1>1. r \in Nat /\ v \in Nat /\ u \in Nat /\ r < v /\ v < u /\ pos \in Nat /\ Len(input) \in Nat
  BY InsertionFacts DEF TypeOK
<1>2. CASE ValuesItem
  <2>1. pos' = pos + 1 /\ mode = "values" /\ mode' # "option"
    BY <1>2, AtKind DEF ValuesItem, ValuesMark
  <2>2. CASE FirstTuple(input, u, pos + 1)
    BY <1>2, <2>1, <2>2, ValuesStep
  <2>3. CASE ~FirstTuple(input, u, pos + 1)
    <3>1. NextSlotted(l, v, u)
      BY <2>3 DEF NextSlotted, Slotted
    <3>2. Written(out, out')
      BY <1>2, InsertWrites
    <3> QED
      BY <2>1, <2>3, <3>1, <3>2, SlottedWritten
  <2> QED
    BY <2>2, <2>3
<1>3. CASE ValuesEnd
  <2>1. mode' = "atsign" /\ out' = out
    BY <1>3 DEF ValuesEnd
  <2>2. CASE pos = Len(input) /\ UNCHANGED <<input, pos>>
    BY <2>1, <2>2 DEF InTuple
  <2>3. CASE At({"stop"})
    <3>1. pos' = pos + 1 /\ input[pos + 1].kind = "stop"
      BY <2>3, AtKind
    <3>2. pos + 1 \notin r + 1..u - 1 \/ pos + 1 = v
      BY <3>1 DEF Insertion, WellFormedInsert
    <3>3. pos + 1 \in u..pos + 1
      BY <1>1, <3>2
    <3>4. ~FirstTuple(input, u, pos')
      BY <3>1, <3>3 DEF FirstTuple
    <3> QED
      BY <2>1, <3>4
  <2> QED
    BY <1>3, <2>2, <2>3 DEF ValuesEnd, AtEnd
<1>4. CASE mode # "values"
  <2>1. mode = "atsign" /\ pos = Len(input)
    BY <1>4, Handlers DEF InTuple
  <2>2. ASSUME NEW kinds, At(kinds) PROVE FALSE
    BY <1>1, <2>1, <2>2, AtKind
  <2>3. AtsignEnd
    BY <2>1, <2>2, Handlers DEF AtsignItem, AtsignOption, AtsignInsert
  <2>4. mode' = "done" /\ out' = out /\ pos' = pos /\ input' = input
    BY <2>2, <2>3 DEF AtsignEnd, AtEnd
  <2> QED
    BY <2>1, <2>4 DEF InTuple
<1> QED
  BY <1>2, <1>3, <1>4, Handlers
-----------------------------------------------------------------------------
\* Behind the first tuple no ? is one of it.
LEMMA BehindStep ==
  ASSUME TypeOK, OptionInv, Step, NEW l, NEW v, NEW u \in Nat, ~FirstTuple(input, u, pos),
         mode = "option" => ~FirstTuple(input, u, start), AllSlotted(input, l, v, u, out)
  PROVE  /\ AllSlotted(input, l, v, u, out') /\ ~FirstTuple(input, u, pos')
         /\ mode' = "option" => ~FirstTuple(input, u, start')
<1>1. pos \in Nat /\ pos + 1 \in Nat /\ pos' \in {pos, pos + 1} /\ start \in Nat
  BY Moves DEF TypeOK
<1>2. ~FirstTuple(input, u, pos + 1)
  BY <1>1, TupleLess
<1>3. mode' = "option" => ~FirstTuple(input, u, start')
  BY <1>1, <1>2, OptionOpens
<1>4. NextSlotted(l, v, u)
  BY <1>2 DEF NextSlotted, Slotted
<1>5. CASE Written(out, out')
  <2>1. AllSlotted(input, l, v, u, out')
    BY <1>4, <1>5, SlottedWritten
  <2> QED
    BY <1>1, <1>2, <1>3, <2>1
<1>6. CASE OptionEnd
  <2>1. mode = "option"
    BY <1>6 DEF OptionEnd
  <2>2. ASSUME NEW n \in DOMAIN body PROVE Slotted(input, l, v, u, body[n])
    <3>1. body[n].at > start /\ body[n].at \in Nat
      BY <2>1, AtBound DEF OptionInv
    <3>2. ~FirstTuple(input, u, body[n].at)
      BY <1>1, <2>1, <3>1, TupleLess
    <3> QED
      BY <3>2 DEF Slotted
  <2>3. ASSUME NEW k \in DOMAIN out' PROVE Slotted(input, l, v, u, out'[k])
    <3>1. CASE out'[k].kind # "field"
      BY <3>1 DEF Slotted
    <3>2. CASE out'[k].kind = "field"
      BY <1>6, <2>2, <3>2, OptionEndFields DEF AllSlotted
    <3> QED
      BY <3>1, <3>2
  <2> QED
    BY <1>1, <1>2, <1>3, <2>3 DEF AllSlotted
<1>7. Written(out, out') \/ OptionEnd
  BY AtsignWrites, InsertWrites, OptionWrites DEF Step, Written
<1> QED
  BY <1>1, <1>2, <1>3, <1>5, <1>6, <1>7

\* Every step keeps the index at the place.
LEMMA SlotStep ==
  ASSUME TypeOK, OptionInv, Step, NEW s, NEW l, NEW r, NEW v, NEW u, Insertion(input, s, l, r, v, u),
         Reading(s, l, v, u), AllSlotted(input, l, v, u, out)
  PROVE  Reading(s, l, v, u)' /\ AllSlotted(input, l, v, u, out')
<1>1. /\ s \in Nat /\ v \in Nat /\ u \in Nat /\ s < v /\ v < u /\ pos \in Nat /\ input' = input
  BY InsertionFacts, Moves
<1>2. ASSUME pos < v, Written(out, out') PROVE AllSlotted(input, l, v, u, out')
  <2>1. \A e : e.at = pos + 1 => ~(e.at > u)
    BY <1>1, <1>2
  <2>2. NextSlotted(l, v, u)
    BY <2>1 DEF NextSlotted, Slotted
  <2> QED
    BY <1>2, <2>2, SlottedWritten
<1>3. CASE pos < s
  <2>1. /\ pos' = pos + 1 /\ mode' # "option" /\ Written(out, out')
        /\ IF pos' < s THEN mode' = "atsign" ELSE InColumns(l)'
    BY <1>3, BeforeStep DEF Reading
  <2>2. pos < v /\ ~(pos' >= v) /\ (pos' \in s..v - 1 => ~(pos' < s))
    BY <1>1, <1>3, <2>1
  <2> QED
    BY <1>2, <2>1, <2>2 DEF Reading
<1>4. CASE pos \in s..v - 2
  <2>1. pos' = pos + 1 /\ mode' # "option" /\ InColumns(l)' /\ Written(out, out')
    <3>1. InColumns(l)
      BY <1>1, <1>4 DEF Reading
    <3> QED
      BY <1>4, <3>1, ColumnStep
  <2>2. pos < v /\ ~(pos' < s) /\ ~(pos' >= v)
    BY <1>1, <1>4, <2>1
  <2> QED
    BY <1>2, <2>1, <2>2 DEF Reading
<1>5. CASE pos = v - 1
  <2>1. pos' = v /\ mode' # "option" /\ InTuple(l, v, u)' /\ Written(out, out')
    <3>1. InColumns(l)
      BY <1>1, <1>5 DEF Reading
    <3> QED
      BY <1>5, <3>1, ColumnsEndStep
  <2>2. pos < v /\ ~(pos' < s) /\ ~(pos' \in s..v - 1)
    BY <1>1, <1>5, <2>1
  <2> QED
    BY <1>2, <2>1, <2>2 DEF Reading
<1>6. CASE pos >= v
  <2>1. pos' \in {pos, pos + 1} /\ ~(pos' < s) /\ ~(pos' \in s..v - 1)
    BY <1>1, <1>6, Moves
  <2>2. CASE FirstTuple(input, u, pos)
    <3>1. InTuple(l, v, u)
      BY <1>6, <2>2 DEF Reading
    <3>2. /\ mode' # "option" /\ AllSlotted(input, l, v, u, out')
          /\ FirstTuple(input, u, pos') => InTuple(l, v, u)'
      BY <1>6, <2>2, <3>1, TupleStep
    <3> QED
      BY <1>1, <2>1, <3>2 DEF Reading
  <2>3. CASE ~FirstTuple(input, u, pos)
    <3>1. mode = "option" => ~FirstTuple(input, u, start)
      BY DEF Reading
    <3>2. /\ AllSlotted(input, l, v, u, out') /\ ~FirstTuple(input, u, pos')
          /\ mode' = "option" => ~FirstTuple(input, u, start')
      BY <1>1, <2>3, <3>1, BehindStep
    <3> QED
      BY <1>1, <2>1, <3>2 DEF Reading
  <2> QED
    BY <2>2, <2>3
<1>7. pos < s \/ pos \in s..v - 2 \/ pos = v - 1 \/ pos >= v
  BY <1>1
<1> QED
  BY <1>3, <1>4, <1>5, <1>6, <1>7

LEMMA SlotInvariance == Spec => []SlotInv
<1>1. Init => SlotInv
  <2> SUFFICES ASSUME Init, NEW s, NEW l, NEW r, NEW v, NEW u, Insertion(input, s, l, r, v, u)
               PROVE  Reading(s, l, v, u) /\ AllSlotted(input, l, v, u, out)
    BY DEF SlotInv
  <2>1. pos = 0 /\ mode = "atsign" /\ out = <<>>
    BY DEF Init
  <2>2. s \in Nat /\ v \in Nat /\ 0 < s /\ s < v
    BY InitType, InsertionFacts
  <2>3. ~(pos >= v) /\ pos \notin s..v - 1
    BY <2>1, <2>2
  <2> QED
    BY <2>1, <2>3 DEF Reading, AllSlotted
<1>2. IInv /\ SlotInv /\ [Next]_vars => SlotInv'
  <2>1. ASSUME IInv, SlotInv, Step PROVE SlotInv'
    <3>1. input' = input
      BY <2>1, Moves DEF IInv
    <3>2. ASSUME NEW s \in DOMAIN input, NEW l \in DOMAIN input, NEW r \in DOMAIN input, NEW v \in DOMAIN input,
                 NEW u \in DOMAIN input, Insertion(input, s, l, r, v, u)
          PROVE  Reading(s, l, v, u)' /\ AllSlotted(input, l, v, u, out')
      <4>1. Reading(s, l, v, u) /\ AllSlotted(input, l, v, u, out)
        BY <2>1, <3>2 DEF SlotInv
      <4> QED
        BY <2>1, <3>2, <4>1, SlotStep DEF IInv
    <3> QED
      BY <3>1, <3>2 DEF SlotInv
  <2>2. ASSUME SlotInv, UNCHANGED vars PROVE SlotInv'
    BY <2>2 DEF vars, option, insert, SlotInv, Reading, InColumns, InTuple
  <2> QED
    BY <2>1, <2>2 DEF Next, Finished
<1> QED
  BY <1>1, <1>2, Invariance, PTL DEF Spec

\* In INSERT ... (columns) VALUES (values), whatever stands before it and between INSERT and its
\* columns, a ? of the first tuple is the field of the column at its place, for any columns and
\* values however nested, and handleInsertValues has no panic in a tuple with no more places than
\* columns.
THEOREM MarksTakeColumns == Spec => []SlotsMatchColumns
<1>1. TypeOK /\ SlotInv => SlotsMatchColumns
  <2> SUFFICES ASSUME TypeOK, SlotInv, NEW s, NEW l, NEW r, NEW v, NEW u, Insertion(input, s, l, r, v, u)
               PROVE  /\ \A k \in DOMAIN out : Slotted(input, l, v, u, out[k])
                      /\ mode = "panic" /\ pos >= u /\ FirstTuple(input, u, pos)
                         => Place(input, u, pos) > Count(input, "word", l, v)
    BY DEF SlotsMatchColumns, Insertion, Slotted, AtItsColumn
  <2>1. s \in DOMAIN input /\ l \in DOMAIN input /\ r \in DOMAIN input /\ v \in DOMAIN input /\ u \in DOMAIN input
        /\ v \in Nat /\ u \in Nat /\ v < u
    BY InsertionFacts, LenProperties DEF TypeOK
  <2>2. Reading(s, l, v, u) /\ \A k \in DOMAIN out : Slotted(input, l, v, u, out[k])
    BY <2>1 DEF SlotInv, AllSlotted
  <2>3. ASSUME mode = "panic", pos >= u, FirstTuple(input, u, pos)
        PROVE  Place(input, u, pos) > Count(input, "word", l, v)
    <3>1. pos >= v
      BY <2>1, <2>3 DEF TypeOK
    <3> QED
      BY <2>2, <2>3, <3>1 DEF Reading, InTuple
  <2> QED
    BY <2>2, <2>3
<1> QED
  BY <1>1, Invariance, SlotInvariance, PTL DEF IInv
=============================================================================
