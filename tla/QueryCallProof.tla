--------------------------- MODULE QueryCallProof ---------------------------
(***************************************************************************)
(* Statements run by several goroutines, for any goroutines, call sites,   *)
(* texts and requests: a call that begins when its call site has a         *)
(* template, and nobody is on the way to put one there, is served with it; *)
(* the result of a call is that of its own rows; and the record of a       *)
(* context that one goroutine uses has what it ran.                        *)
(***************************************************************************)
EXTENDS QueryCall, SequenceTheorems, WellFoundedInduction, TLAPS

\* The steps of a call before it has its template, and those at which it is about to replace
\* what its site has.
Lookup == {"outer", "inner", "line", "fetch"}
Makes  == {"makeInner", "parse", "store"}

\* The site has its template and keeps it: nobody will make the outer map, or anything at
\* this site, again.  The same for the scan destination.
Stable(s) ==
  /\ template # NoMap /\ template[s] \notin {NoMap, NoTemplate}
  /\ \A w \in Workers : call[w].at # "makeOuter" /\ (call[w].at \in Makes => Request(w).site # s)
TempStable == temp = TRUE /\ \A w \in Workers : call[w].at # "tempMake"

CallServed(w) ==
  call[w].settled =>
    /\ call[w].at # "idle" /\ Stable(Request(w).site)
    /\ call[w].at \notin Lookup => call[w].text = template[Request(w).site]
DoneServed(w) == \A k \in DOMAIN done[w] :
  /\ k \in DOMAIN jobs[w]
  /\ done[w][k].settled => Stable(jobs[w][k].site) /\ done[w][k].text = template[jobs[w][k].site]
TempServed(w) ==
  /\ call[w].tempSettled => TempStable /\ ~call[w].nilDest
  /\ \A k \in DOMAIN done[w] : done[w][k].tempSettled => ~done[w][k].nilDest

Inv == TypeOK /\ \A w \in Workers : CallServed(w) /\ DoneServed(w) /\ TempServed(w)

\* A step within a call: c is what becomes of it.
Preserves(w, c) ==
  /\ c.settled = call[w].settled /\ c.tempSettled = call[w].tempSettled
  /\ temp = TRUE /\ call[w].at # "tempMake" => temp' = TRUE /\ c.at # "tempMake" /\ c.nilDest \in {call[w].nilDest, FALSE}
  /\ \A s \in Sites : Stable(s) =>
       /\ template' # NoMap /\ template'[s] = template[s]
       /\ c.at # "makeOuter" /\ (c.at \in Makes => Request(w).site # s)
       /\ Request(w).site = s => IF call[w].at \in Lookup THEN c.at \in Lookup \/ c.text = template[s]
                                 ELSE c.text = call[w].text
Advanced(w, c) ==
  /\ call' = [call EXCEPT ![w] = c] /\ UNCHANGED <<jobs, done>>
  /\ call[w].at # "idle" /\ c.at # "idle" /\ Preserves(w, c)

\* A step that ends a call: c is what the goroutine has done.
Returned(w, c) ==
  /\ done' = [done EXCEPT ![w] = Append(@, c)] /\ call' = [call EXCEPT ![w] = Idle]
  /\ UNCHANGED <<jobs, template, temp, record, fatal>>
  /\ call[w].at # "idle" /\ c.settled = call[w].settled /\ c.tempSettled = call[w].tempSettled
  /\ c.text = call[w].text /\ c.nilDest = call[w].nilDest
  /\ call[w].at \in Lookup \union Makes => ~Stable(Request(w).site)

\* A call that begins.
Begun(w, c) ==
  /\ call' = [call EXCEPT ![w] = c] /\ UNCHANGED <<jobs, done, template, temp, record, fatal>>
  /\ call[w].at = "idle" /\ c.at \in {"outer", "execute"} /\ ~c.nilDest
  /\ c.settled => c.at = "outer" /\ Stable(Request(w).site)
  /\ c.tempSettled => TempStable
-----------------------------------------------------------------------------
LEMMA RequestTyped ==
  ASSUME TypeOK, NEW w \in Workers, call[w].at # "idle"
  PROVE  /\ Request(w) \in Requests
         /\ Len(done[w]) \in Nat /\ Len(done[w]) + 1 \in DOMAIN jobs[w]
<1>1. jobs[w] \in Seq(Requests) /\ done[w] \in Seq(Calls) /\ Len(done[w]) < Len(jobs[w])
  BY DEF TypeOK
<1>2. Len(done[w]) + 1 \in 1 .. Len(jobs[w])
  BY <1>1
<1> QED
  BY <1>1, <1>2 DEF Request

LEMMA InitTyped == Init => TypeOK
<1> SUFFICES ASSUME Init PROVE TypeOK
  OBVIOUS
<1>1. Idle \in Calls /\ Idle.at = "idle"
  BY DEF Idle, Calls, Steps
<1>2. jobs \in [Workers -> Seq(Requests)]
  BY JobsAssumption DEF Init
<1>3. call \in [Workers -> Calls] /\ done \in [Workers -> Seq(Calls)]
  BY <1>1 DEF Init
<1>4. \A w \in Workers : Len(done[w]) <= Len(jobs[w]) /\ call[w].at = "idle"
  <2> TAKE w \in Workers
  <2>1. jobs[w] \in Seq(Requests) /\ done[w] = <<>> /\ call[w] = Idle
    BY <1>2 DEF Init
  <2> QED
    BY <2>1 DEF Idle
<1>5. record \in [Contexts -> Seq(SqlTexts \union {NoTemplate})]
  BY DEF Init
<1> QED
  BY <1>2, <1>3, <1>4, <1>5 DEF Init, TypeOK

\* A call that returns leaves its goroutine idle and is the last of those done.
LEMMA ReturnTyped ==
  ASSUME TypeOK, NEW w \in Workers, NEW c \in Calls, Returned(w, c)
  PROVE  TypeOK'
<1> USE DEF Returned
<1>1. Idle \in Calls /\ Idle.at = "idle"
  BY DEF Idle, Calls, Steps
<1>2. done[w] \in Seq(Calls) /\ Append(done[w], c) \in Seq(Calls) /\ Len(Append(done[w], c)) = Len(done[w]) + 1
  BY DEF TypeOK
<1>3. Len(done[w]) < Len(jobs[w]) /\ Len(jobs[w]) \in Nat /\ Len(done[w]) \in Nat
  BY <1>2 DEF TypeOK
<1>4. ASSUME NEW v \in Workers
      PROVE  /\ Len(done'[v]) <= Len(jobs'[v]) /\ (call'[v].at # "idle" => Len(done'[v]) < Len(jobs'[v]))
             /\ call'[v].at \in {"inner", "makeInner", "line", "parse", "store", "fetch"} => template' # NoMap
             /\ call'[v].at \in {"recordRead", "recordWrite"} => Request(v)'.ctx \in Contexts
  <2>1. CASE v = w
    BY <1>1, <1>2, <1>3, <2>1 DEF TypeOK
  <2>2. CASE v # w
    BY <2>2 DEF TypeOK, Request
  <2> QED
    BY <2>1, <2>2
<1>5. done' \in [Workers -> Seq(Calls)] /\ call' \in [Workers -> Calls]
  BY <1>1, <1>2 DEF TypeOK
<1> QED
  BY <1>4, <1>5 DEF TypeOK

LEMMA FinishedFacts ==
  ASSUME NEW c \in Calls, NEW r, NEW outcome \in {"ok", "error", "panic"}
  PROVE  /\ Finished(c, r, outcome) \in Calls
         /\ Finished(c, r, outcome).text = c.text
         /\ Finished(c, r, outcome).settled = c.settled
         /\ Finished(c, r, outcome).nilDest = c.nilDest
         /\ Finished(c, r, outcome).tempSettled = c.tempSettled
<1>1. (IF outcome # "ok" /\ r.entry = "template" THEN <<>> ELSE c.result) \in Seq([row : Nat, whole : BOOLEAN])
  BY DEF Calls
<1> QED
  BY <1>1 DEF Finished, Calls, Steps

LEMMA ReturnFacts ==
  ASSUME TypeOK, NEW w \in Workers, call[w].at # "idle", NEW outcome \in {"ok", "error", "panic"},
         Return(w, outcome), call[w].at \in Lookup \union Makes => ~Stable(Request(w).site)
  PROVE  \E c \in Calls : Returned(w, c)
<1>1. call[w] \in Calls
  BY DEF TypeOK
<1> QED
  BY <1>1, FinishedFacts DEF Return, Returned

\* A step within a call.
LEMMA StepTyped ==
  ASSUME TypeOK, NEW w \in Workers, NEW c \in Calls, call' = [call EXCEPT ![w] = c],
         UNCHANGED <<jobs, done>>,
         call[w].at # "idle" \/ Len(done[w]) < Len(jobs[w]),
         c.at \in {"inner", "makeInner", "line", "parse", "store", "fetch"} => template' # NoMap,
         template # NoMap => template' # NoMap,
         c.at \in {"recordRead", "recordWrite"} => Request(w).ctx \in Contexts,
         template' \in {NoMap} \union [Sites -> SqlTexts \union {NoMap, NoTemplate}],
         temp' \in {NoMap} \union BOOLEAN,
         record' \in [Contexts -> Seq(SqlTexts \union {NoTemplate})],
         fatal' \in BOOLEAN
  PROVE  TypeOK'
<1>1. call' \in [Workers -> Calls]
  BY DEF TypeOK
<1>2. ASSUME NEW v \in Workers
      PROVE  /\ Len(done'[v]) <= Len(jobs'[v]) /\ (call'[v].at # "idle" => Len(done'[v]) < Len(jobs'[v]))
             /\ call'[v].at \in {"inner", "makeInner", "line", "parse", "store", "fetch"} => template' # NoMap
             /\ call'[v].at \in {"recordRead", "recordWrite"} => Request(v)'.ctx \in Contexts
  BY DEF TypeOK, Request
<1> QED
  BY <1>1, <1>2 DEF TypeOK

\* What Go makes of a call.
LEMMA GoFacts ==
  ASSUME TypeOK, NEW w \in Workers, NEW step \in Steps, Go(w, step)
  PROVE  \E c \in Calls : /\ call' = [call EXCEPT ![w] = c] /\ c.at = step
                          /\ c.text = call[w].text /\ c.settled = call[w].settled
                          /\ c.nilDest = call[w].nilDest /\ c.tempSettled = call[w].tempSettled
<1> DEFINE c == [call[w] EXCEPT !.at = step]
<1>1. call[w] \in Calls
  BY DEF TypeOK
<1>2. c \in Calls /\ c.at = step /\ c.text = call[w].text /\ c.settled = call[w].settled
      /\ c.nilDest = call[w].nilDest /\ c.tempSettled = call[w].tempSettled
  BY <1>1 DEF Calls
<1>3. call' = [call EXCEPT ![w] = c]
  BY DEF Go
<1> QED
  BY <1>2, <1>3

\* The steps of sqlTemplateBuild.
LEMMA BuildForm ==
  ASSUME TypeOK, NEW w \in Workers, Build(w)
  PROVE  (\E c \in Calls : Returned(w, c)) \/ (TypeOK' /\ \E c \in Calls : Advanced(w, c))
<1> USE DEF At
<1>1. call[w] \in Calls /\ call[w].at # "idle" /\ Request(w).site \in Sites
  BY RequestTyped DEF Build, SeeOuter, MakeOuter, SeeInner, MakeInner, SeeLine, ParseSql, Store, Fetch, TypeOK, Requests
<1>2. CASE SeeOuter(w)
  <2>1. PICK step \in {"makeOuter", "inner"} : Go(w, step) /\ (step = "makeOuter" <=> template = NoMap)
    BY <1>2 DEF SeeOuter
  <2>2. PICK c \in Calls : /\ call' = [call EXCEPT ![w] = c] /\ c.at = step
                           /\ c.text = call[w].text /\ c.settled = call[w].settled
                           /\ c.nilDest = call[w].nilDest /\ c.tempSettled = call[w].tempSettled
    BY <2>1, GoFacts DEF Steps
  <2>3. TypeOK'
    BY <1>1, <1>2, <2>1, <2>2, StepTyped DEF SeeOuter, Local, TypeOK
  <2>4. Preserves(w, c)
    BY <1>1, <1>2, <2>1, <2>2 DEF SeeOuter, Local, Preserves, Stable, Lookup, Makes
  <2> QED
    BY <1>1, <1>2, <2>1, <2>2, <2>3, <2>4 DEF SeeOuter, Local, Advanced
<1>3. CASE MakeOuter(w)
  <2>1. PICK c \in Calls : /\ call' = [call EXCEPT ![w] = c] /\ c.at = "inner"
                           /\ c.text = call[w].text /\ c.settled = call[w].settled
                           /\ c.nilDest = call[w].nilDest /\ c.tempSettled = call[w].tempSettled
    BY <1>3, GoFacts DEF MakeOuter, Steps
  <2>2. template' \in [Sites -> SqlTexts \union {NoMap, NoTemplate}] /\ template' # NoMap
    BY <1>3, NilAssumption DEF MakeOuter
  <2>3. TypeOK'
    BY <1>1, <1>3, <2>1, <2>2, StepTyped DEF MakeOuter, TypeOK
  <2>4. Preserves(w, c)
    BY <1>1, <1>3, <2>1 DEF MakeOuter, Preserves, Stable
  <2> QED
    BY <1>1, <1>3, <2>1, <2>3, <2>4 DEF MakeOuter, Advanced
<1>4. CASE SeeInner(w)
  <2>1. PICK step \in {"makeInner", "line"} : Go(w, step) /\ (step = "makeInner" => template[Request(w).site] = NoMap)
    BY <1>4 DEF SeeInner
  <2>2. PICK c \in Calls : /\ call' = [call EXCEPT ![w] = c] /\ c.at = step
                           /\ c.text = call[w].text /\ c.settled = call[w].settled
                           /\ c.nilDest = call[w].nilDest /\ c.tempSettled = call[w].tempSettled
    BY <2>1, GoFacts DEF Steps
  <2>3. TypeOK'
    BY <1>1, <1>4, <2>1, <2>2, StepTyped DEF SeeInner, Local, TypeOK
  <2>4. Preserves(w, c)
    BY <1>1, <1>4, <2>1, <2>2 DEF SeeInner, Local, Preserves, Stable, Lookup, Makes
  <2> QED
    BY <1>1, <1>4, <2>1, <2>2, <2>3, <2>4 DEF SeeInner, Local, Advanced
<1>5. CASE MakeInner(w)
  <2>1. PICK c \in Calls : /\ call' = [call EXCEPT ![w] = c] /\ c.at = "line"
                           /\ c.text = call[w].text /\ c.settled = call[w].settled
                           /\ c.nilDest = call[w].nilDest /\ c.tempSettled = call[w].tempSettled
    BY <1>5, GoFacts DEF MakeInner, Steps
  <2>2. template \in [Sites -> SqlTexts \union {NoMap, NoTemplate}]
        /\ template' \in [Sites -> SqlTexts \union {NoMap, NoTemplate}] /\ template' # NoMap
    BY <1>1, <1>5, NilAssumption DEF MakeInner, TypeOK
  <2>3. TypeOK'
    BY <1>1, <1>5, <2>1, <2>2, StepTyped DEF MakeInner, TypeOK
  <2>4. Preserves(w, c)
    BY <1>1, <1>5, <2>1, <2>2 DEF MakeInner, Preserves, Stable, Makes, Lookup
  <2> QED
    BY <1>1, <1>5, <2>1, <2>3, <2>4 DEF MakeInner, Advanced
<1>6. CASE SeeLine(w)
  <2>1. PICK step \in {"parse", "fetch"} :
          Go(w, step) /\ (step = "parse" => template[Request(w).site] \in {NoMap, NoTemplate})
    BY <1>6 DEF SeeLine
  <2>2. PICK c \in Calls : /\ call' = [call EXCEPT ![w] = c] /\ c.at = step
                           /\ c.text = call[w].text /\ c.settled = call[w].settled
                           /\ c.nilDest = call[w].nilDest /\ c.tempSettled = call[w].tempSettled
    BY <2>1, GoFacts DEF Steps
  <2>3. TypeOK'
    BY <1>1, <1>6, <2>1, <2>2, StepTyped DEF SeeLine, Local, TypeOK
  <2>4. Preserves(w, c)
    BY <1>1, <1>6, <2>1, <2>2 DEF SeeLine, Local, Preserves, Stable, Lookup, Makes
  <2> QED
    BY <1>1, <1>6, <2>1, <2>2, <2>3, <2>4 DEF SeeLine, Local, Advanced
<1>7. CASE ParseSql(w)
  <2>1. CASE Return(w, "error")
    BY <1>1, <1>7, <2>1, ReturnFacts DEF ParseSql, Stable, Makes
  <2>2. CASE Go(w, "store") /\ Local
    <3>1. PICK c \in Calls : /\ call' = [call EXCEPT ![w] = c] /\ c.at = "store"
                             /\ c.text = call[w].text /\ c.settled = call[w].settled
                             /\ c.nilDest = call[w].nilDest /\ c.tempSettled = call[w].tempSettled
      BY <2>2, GoFacts DEF Steps
    <3>2. TypeOK'
      BY <1>1, <1>7, <2>2, <3>1, StepTyped DEF ParseSql, Local, TypeOK
    <3>3. Preserves(w, c)
      BY <1>1, <1>7, <2>2, <3>1 DEF ParseSql, Local, Preserves, Stable, Lookup, Makes
    <3> QED
      BY <1>1, <2>2, <3>1, <3>2, <3>3 DEF Local, Advanced
  <2> QED
    BY <1>7, <2>1, <2>2 DEF ParseSql
<1>8. CASE Store(w)
  <2>1. CASE Return(w, "panic")
    BY <1>1, <1>8, <2>1, ReturnFacts DEF Store, Stable, Makes
  <2>2. CASE /\ template[Request(w).site] # NoMap
             /\ template' = [template EXCEPT ![Request(w).site] = Request(w).text]
             /\ Go(w, "fetch") /\ UNCHANGED <<jobs, done, temp, record, fatal>>
    <3>1. PICK c \in Calls : /\ call' = [call EXCEPT ![w] = c] /\ c.at = "fetch"
                             /\ c.text = call[w].text /\ c.settled = call[w].settled
                             /\ c.nilDest = call[w].nilDest /\ c.tempSettled = call[w].tempSettled
      BY <2>2, GoFacts DEF Steps
    <3>2. template \in [Sites -> SqlTexts \union {NoMap, NoTemplate}]
          /\ template' \in [Sites -> SqlTexts \union {NoMap, NoTemplate}] /\ template' # NoMap
      BY <1>1, <1>8, <2>2, RequestTyped, NilAssumption DEF Store, TypeOK, Requests
    <3>3. TypeOK'
      BY <1>1, <2>2, <3>1, <3>2, StepTyped DEF TypeOK
    <3>4. Preserves(w, c)
      BY <1>1, <1>8, <2>2, <3>1, <3>2 DEF Store, Preserves, Stable, Lookup, Makes
    <3> QED
      BY <1>1, <2>2, <3>1, <3>3, <3>4 DEF Advanced
  <2> QED
    BY <1>8, <2>1, <2>2 DEF Store
<1>9. CASE Fetch(w)
  <2>1. CASE template[Request(w).site] \in {NoMap, NoTemplate} /\ Return(w, "panic")
    BY <1>1, <1>9, <2>1, ReturnFacts DEF Fetch, Stable, Lookup
  <2>2. CASE /\ template[Request(w).site] \notin {NoMap, NoTemplate} /\ Local
             /\ call' = [call EXCEPT ![w].at = "execute", ![w].text = template[Request(w).site]]
    <3>1. template[Request(w).site] \in SqlTexts
      BY <1>1, <1>9, <2>2 DEF Fetch, TypeOK
    <3>2. PICK c \in Calls : /\ call' = [call EXCEPT ![w] = c] /\ c.at = "execute"
                             /\ c.text = template[Request(w).site] /\ c.settled = call[w].settled
                             /\ c.nilDest = call[w].nilDest /\ c.tempSettled = call[w].tempSettled
      <4> DEFINE d == [call[w] EXCEPT !.at = "execute", !.text = template[Request(w).site]]
      <4>1. /\ d \in Calls /\ d.at = "execute" /\ d.text = template[Request(w).site] /\ d.settled = call[w].settled
            /\ d.nilDest = call[w].nilDest /\ d.tempSettled = call[w].tempSettled
        BY <1>1, <3>1 DEF Calls, Steps
      <4>2. call' = [call EXCEPT ![w] = d]
        BY <2>2
      <4> QED
        BY <4>1, <4>2
    <3>3. TypeOK'
      <4>1. Local
        BY <2>2
      <4> QED
        BY <1>1, <3>2, <4>1, StepTyped DEF Local, TypeOK
    <3>4. Preserves(w, c)
      BY <1>1, <1>9, <2>2, <3>2 DEF Fetch, Local, Preserves, Stable, Lookup, Makes
    <3> QED
      BY <1>1, <2>2, <3>2, <3>3, <3>4 DEF Local, Advanced
  <2> QED
    BY <1>9, <2>1, <2>2 DEF Fetch
<1> QED
  BY <1>2, <1>3, <1>4, <1>5, <1>6, <1>7, <1>8, <1>9 DEF Build

\* The steps of the template's execution, of the record and of the statement.
LEMMA RunForm ==
  ASSUME TypeOK, NEW w \in Workers, Run(w)
  PROVE  (\E c \in Calls : Returned(w, c)) \/ (TypeOK' /\ \E c \in Calls : Advanced(w, c))
<1> USE DEF At
<1>1. /\ call[w] \in Calls
      /\ call[w].at \in {"execute", "recordRead", "recordWrite", "convert", "send", "columns"}
      /\ Request(w) \in Requests
  BY RequestTyped DEF Run, Execute, RecordRead, RecordWrite, ConvertValues, Exec, QueryContext, ColumnTypes, TypeOK
\* A step that only goes on.
<1>2. ASSUME NEW step \in Steps \ ({"idle", "makeOuter", "recordWrite", "tempMake", "fetch", "inner", "line"} \union Makes),
             Go(w, step), Local, step = "recordRead" => Request(w).ctx \in Contexts
      PROVE  TypeOK' /\ \E c \in Calls : Advanced(w, c)
  <2>1. PICK c \in Calls : /\ call' = [call EXCEPT ![w] = c] /\ c.at = step
                           /\ c.text = call[w].text /\ c.settled = call[w].settled
                           /\ c.nilDest = call[w].nilDest /\ c.tempSettled = call[w].tempSettled
    BY <1>2, GoFacts
  <2>2. TypeOK'
    BY <1>1, <1>2, <2>1, StepTyped DEF Local, TypeOK, Makes
  <2>3. Preserves(w, c)
    BY <1>1, <1>2, <2>1 DEF Local, Preserves, Stable, Lookup, Makes
  <2> QED
    BY <1>1, <1>2, <2>1, <2>2, <2>3 DEF Local, Advanced
<1>3. ASSUME NEW outcome \in {"ok", "error", "panic"}, Return(w, outcome)
      PROVE  \E c \in Calls : Returned(w, c)
  BY <1>1, <1>3, ReturnFacts DEF Lookup, Makes
<1>4. CASE Execute(w)
  <2>1. Recorded(w) => Request(w).ctx \in Contexts
    BY <1>1 DEF Recorded, Requests
  <2>2. "recordRead" \in Steps /\ "convert" \in Steps
    BY DEF Steps
  <2> QED
    BY <1>2, <1>3, <1>4, <2>1, <2>2 DEF Execute, Makes
<1>5. CASE RecordRead(w)
  <2>1. Request(w).ctx \in Contexts /\ record[Request(w).ctx] \in Seq(SqlTexts \union {NoTemplate})
    BY <1>5 DEF RecordRead, TypeOK
  <2>2. PICK c \in Calls : /\ call' = [call EXCEPT ![w] = c] /\ c.at = "recordWrite"
                           /\ c.text = call[w].text /\ c.settled = call[w].settled
                           /\ c.nilDest = call[w].nilDest /\ c.tempSettled = call[w].tempSettled
    <3> DEFINE d == [call[w] EXCEPT !.at = "recordWrite", !.list = record[Request(w).ctx]]
    <3>1. /\ d \in Calls /\ d.at = "recordWrite" /\ d.text = call[w].text /\ d.settled = call[w].settled
          /\ d.nilDest = call[w].nilDest /\ d.tempSettled = call[w].tempSettled
      BY <1>1, <2>1 DEF Calls, Steps
    <3>2. call' = [call EXCEPT ![w] = d]
      BY <1>5 DEF RecordRead
    <3> QED
      BY <3>1, <3>2
  <2>3. TypeOK'
    <3>1. Local
      BY <1>5 DEF RecordRead
    <3> QED
      BY <1>1, <2>1, <2>2, <3>1, StepTyped DEF Local, TypeOK
  <2>4. Preserves(w, c)
    BY <1>1, <1>5, <2>2 DEF RecordRead, Local, Preserves, Stable, Lookup, Makes
  <2> QED
    BY <1>1, <1>5, <2>2, <2>3, <2>4 DEF RecordRead, Local, Advanced
<1>6. CASE RecordWrite(w)
  <2>1. PICK c \in Calls : /\ call' = [call EXCEPT ![w] = c] /\ c.at = "convert"
                           /\ c.text = call[w].text /\ c.settled = call[w].settled
                           /\ c.nilDest = call[w].nilDest /\ c.tempSettled = call[w].tempSettled
    BY <1>6, GoFacts DEF RecordWrite, Steps
  <2>2. Append(call[w].list, call[w].text) \in Seq(SqlTexts \union {NoTemplate})
    BY <1>1 DEF Calls
  <2>3. record' \in [Contexts -> Seq(SqlTexts \union {NoTemplate})]
    BY <1>6, <2>2 DEF RecordWrite, TypeOK
  <2>4. TypeOK'
    BY <1>1, <1>6, <2>1, <2>3, StepTyped DEF RecordWrite, TypeOK
  <2>5. Preserves(w, c)
    BY <1>1, <1>6, <2>1 DEF RecordWrite, Preserves, Stable, Lookup, Makes
  <2> QED
    BY <1>1, <1>6, <2>1, <2>4, <2>5 DEF RecordWrite, Advanced
<1>7. CASE ConvertValues(w)
  <2>1. CASE Go(w, "send") /\ Local
    BY <1>2, <2>1 DEF Steps, Makes
  <2>2. CASE /\ call[w].arg <= Len(Request(w).args)
             /\ ConvertValue(Request(w).args[call[w].arg]) # "ok"
             /\ Return(w, ConvertValue(Request(w).args[call[w].arg]))
    <3>1. call[w].arg \in 1 .. Len(Request(w).args)
      BY <1>1, <2>2 DEF Calls, Requests
    <3>2. Request(w).args[call[w].arg] \in {"plain", "json", "unmarshalable", "registered", "refused"}
      BY <1>1, <3>1 DEF Requests
    <3>3. ConvertValue(Request(w).args[call[w].arg]) \in {"ok", "error", "panic"}
      BY <3>2 DEF ConvertValue
    <3> QED
      BY <1>3, <2>2, <3>3
  <2>3. CASE call' = [call EXCEPT ![w].arg = @ + 1] /\ Local
    <3>1. PICK c \in Calls : /\ call' = [call EXCEPT ![w] = c] /\ c.at = call[w].at
                             /\ c.text = call[w].text /\ c.settled = call[w].settled
                             /\ c.nilDest = call[w].nilDest /\ c.tempSettled = call[w].tempSettled
      <4> DEFINE d == [call[w] EXCEPT !.arg = @ + 1]
      <4>1. /\ d \in Calls /\ d.at = call[w].at /\ d.text = call[w].text /\ d.settled = call[w].settled
            /\ d.nilDest = call[w].nilDest /\ d.tempSettled = call[w].tempSettled
        <5>1. call[w].arg + 1 \in Nat \ {0}
          BY <1>1 DEF Calls
        <5> QED
          BY <1>1, <5>1 DEF Calls
      <4>2. call' = [call EXCEPT ![w] = d]
        BY <2>3
      <4> QED
        BY <4>1, <4>2
    <3>2. TypeOK'
      <4>1. Local /\ call[w].at = "convert"
        BY <1>7, <2>3 DEF ConvertValues
      <4> QED
        BY <1>1, <3>1, <4>1, StepTyped DEF Local, TypeOK
    <3>3. Preserves(w, c)
      BY <1>1, <1>7, <2>3, <3>1 DEF ConvertValues, Local, Preserves, Stable, Lookup, Makes
    <3> QED
      BY <1>1, <2>3, <3>1, <3>2, <3>3 DEF Local, Advanced
  <2> QED
    <3>1. call[w].arg \in Nat /\ Len(Request(w).args) \in Nat
      BY <1>1 DEF Calls, Requests
    <3> QED
      BY <1>7, <2>1, <2>2, <2>3, <3>1 DEF ConvertValues
<1>8. CASE Exec(w)
  BY <1>3, <1>8 DEF Exec
<1>9. CASE QueryContext(w) \/ ColumnTypes(w)
  BY <1>2, <1>3, <1>9 DEF QueryContext, ColumnTypes, Steps, Makes
<1> QED
  BY <1>4, <1>5, <1>6, <1>7, <1>8, <1>9 DEF Run

\* A step that has to do with rows and their destinations only.
LEMMA RowStep ==
  ASSUME TypeOK, NEW w \in Workers, NEW c \in Calls, call' = [call EXCEPT ![w] = c],
         call[w].at \in {"next", "temp", "tempMake", "tempFind", "tempStore", "tempReturn", "scan", "break"},
         c.at \in {"next", "temp", "tempMake", "tempFind", "tempStore", "tempReturn", "scan", "break"},
         c.text = call[w].text, c.settled = call[w].settled, c.tempSettled = call[w].tempSettled,
         temp' \in {NoMap} \union BOOLEAN, UNCHANGED <<jobs, done, template, record, fatal>>,
         temp = TRUE /\ call[w].at # "tempMake" => temp' = TRUE /\ c.at # "tempMake" /\ c.nilDest \in {call[w].nilDest, FALSE}
  PROVE  TypeOK' /\ Advanced(w, c)
<1>1. TypeOK'
  BY ZenonT(60), StepTyped DEF TypeOK
<1>2. Preserves(w, c)
  BY DEF Preserves, Stable, Lookup, Makes
<1> QED
  BY <1>1, <1>2 DEF Advanced

\* An item placed at the end of a result, or instead of it, or for its last one.
LEMMA PlacedTyped ==
  ASSUME NEW S, NEW result \in Seq(S), NEW item \in S, NEW r
  PROVE  Placed(result, r, item) \in Seq(S) /\ [result EXCEPT ![Len(result)] = item] \in Seq(S)
<1>1. <<item>> \in Seq(S) /\ Append(result, item) \in Seq(S)
  OBVIOUS
<1>2. [result EXCEPT ![Len(result)] = item] \in Seq(S)
  <2>1. Len(result) \in Nat /\ DOMAIN result = 1 .. Len(result)
    BY LenProperties
  <2>2. CASE Len(result) \in DOMAIN result
    BY <2>1, <2>2, ExceptSeq
  <2>3. CASE Len(result) \notin DOMAIN result
    <3>1. [result EXCEPT ![Len(result)] = item] = [i \in DOMAIN result |-> result[i]]
      BY <2>3
    <3>2. [i \in DOMAIN result |-> result[i]] = result
      BY <2>1
    <3> QED
      BY <3>1, <3>2
  <2> QED
    BY <2>2, <2>3
<1> QED
  BY <1>1, <1>2 DEF Placed

LEMMA RowsForm ==
  ASSUME TypeOK, NEW w \in Workers, Rows(w)
  PROVE  (\E c \in Calls : Returned(w, c)) \/ (TypeOK' /\ \E c \in Calls : Advanced(w, c))
<1> USE DEF At
<1>1. /\ call[w] \in Calls /\ temp \in {NoMap} \union BOOLEAN
      /\ call[w].at \in {"next", "temp", "tempMake", "tempFind", "tempStore", "tempReturn", "scan", "break"}
  BY DEF Rows, NextRow, Cut, SeeTemp, MakeTemp, FindTemp, StoreTemp, ReturnTemp, Scan, SelectOne, TypeOK
\* A step that goes on, with whatever it does to the destination.
<1>2. ASSUME NEW step \in {"next", "temp", "tempMake", "tempFind", "tempStore", "tempReturn", "scan", "break"},
             Go(w, step), temp' \in {NoMap} \union BOOLEAN, UNCHANGED <<jobs, done, template, record, fatal>>,
             temp = TRUE /\ call[w].at # "tempMake" => temp' = TRUE /\ step # "tempMake"
      PROVE  TypeOK' /\ \E c \in Calls : Advanced(w, c)
  <2>1. PICK c \in Calls : /\ call' = [call EXCEPT ![w] = c] /\ c.at = step
                           /\ c.text = call[w].text /\ c.settled = call[w].settled
                           /\ c.nilDest = call[w].nilDest /\ c.tempSettled = call[w].tempSettled
    BY <1>2, GoFacts DEF Steps
  <2> QED
    BY <1>1, <1>2, <2>1, RowStep
<1>3. ASSUME NEW outcome \in {"ok", "error", "panic"}, Return(w, outcome)
      PROVE  \E c \in Calls : Returned(w, c)
  BY <1>1, <1>3, ReturnFacts DEF Lookup, Makes
\* A step that changes the row, the result and the destination of the call.
<1>4. ASSUME NEW step \in {"next", "temp", "scan", "break"}, NEW row \in Nat, NEW nilDest \in BOOLEAN,
             NEW result \in Seq([row : Nat, whole : BOOLEAN]), Local,
             call' = [call EXCEPT ![w] = [call[w] EXCEPT !.at = step, !.row = row, !.result = result, !.nilDest = nilDest]],
             nilDest = call[w].nilDest \/ nilDest = (temp # TRUE)
      PROVE  TypeOK' /\ \E c \in Calls : Advanced(w, c)
  <2>1. PICK c \in Calls : /\ call' = [call EXCEPT ![w] = c] /\ c.at = step
                           /\ c.text = call[w].text /\ c.settled = call[w].settled
                           /\ c.nilDest = nilDest /\ c.tempSettled = call[w].tempSettled
    <3> DEFINE d == [call[w] EXCEPT !.at = step, !.row = row, !.result = result, !.nilDest = nilDest]
    <3>1. /\ d \in Calls /\ d.at = step /\ d.text = call[w].text /\ d.settled = call[w].settled
          /\ d.nilDest = nilDest /\ d.tempSettled = call[w].tempSettled
      BY <1>1, <1>4 DEF Calls, Steps
    <3> QED
      BY <1>4, <3>1
  <2>2. Local
    BY <1>4
  <2> QED
    BY ZenonT(60), <1>1, <1>4, <2>1, <2>2, RowStep DEF Local
<1>5. CASE NextRow(w)
  <2>1. CASE Return(w, "ok")
    BY <1>3, <2>1
  <2>2. CASE /\ call' = [call EXCEPT ![w].at = IF Request(w).ignored THEN "temp" ELSE "scan",
                                    ![w].result = IF Request(w).byReference
                                                  THEN Placed(@, Request(w), Partial(call[w].row)) ELSE @]
             /\ Local
    <3> DEFINE step == IF Request(w).ignored THEN "temp" ELSE "scan"
               result == IF Request(w).byReference THEN Placed(call[w].result, Request(w), Partial(call[w].row))
                         ELSE call[w].result
    <3>1. step \in {"next", "temp", "scan", "break"}
      OBVIOUS
    <3>2. /\ call[w].row \in Nat /\ call[w].nilDest \in BOOLEAN
          /\ call[w].result \in Seq([row : Nat, whole : BOOLEAN])
      BY <1>1 DEF Calls
    <3>3. result \in Seq([row : Nat, whole : BOOLEAN])
      <4>1. Partial(call[w].row) \in [row : Nat, whole : BOOLEAN]
        BY <3>2 DEF Partial
      <4> QED
        BY <3>2, <4>1, PlacedTyped
    <3>4. call' = [call EXCEPT ![w] = [call[w] EXCEPT !.at = step, !.row = call[w].row, !.result = result, !.nilDest = call[w].nilDest]]
      BY <1>1, <2>2 DEF Calls
    <3> QED
      BY <1>4, <2>2, <3>1, <3>2, <3>3, <3>4
  <2> QED
    BY <1>5, <2>1, <2>2 DEF NextRow
<1>6. CASE Cut(w)
  <2> DEFINE d == [call[w] EXCEPT !.cut = TRUE]
  <2>1. /\ d \in Calls /\ d.text = call[w].text /\ d.settled = call[w].settled
        /\ d.nilDest = call[w].nilDest /\ d.tempSettled = call[w].tempSettled
    BY <1>1 DEF Calls
  <2>2. /\ done' = [done EXCEPT ![w] = Append(@, Finished(d, Request(w), "ok"))]
        /\ call' = [call EXCEPT ![w] = Idle] /\ UNCHANGED <<jobs, template, temp, record, fatal>>
    BY <1>6 DEF Cut
  <2> HIDE DEF d
  <2>3. /\ Finished(d, Request(w), "ok") \in Calls /\ Finished(d, Request(w), "ok").text = call[w].text
        /\ Finished(d, Request(w), "ok").settled = call[w].settled
        /\ Finished(d, Request(w), "ok").nilDest = call[w].nilDest
        /\ Finished(d, Request(w), "ok").tempSettled = call[w].tempSettled
    BY <2>1, FinishedFacts
  <2> QED
    BY <1>1, <2>2, <2>3 DEF Returned, Lookup, Makes
<1>7. CASE SeeTemp(w) \/ FindTemp(w)
  BY <1>1, <1>2, <1>7, NilAssumption DEF SeeTemp, FindTemp, Local
<1>8. CASE MakeTemp(w) \/ StoreTemp(w)
  BY <1>1, <1>2, <1>8 DEF MakeTemp, StoreTemp
<1>9. CASE ReturnTemp(w)
  <2>1. /\ call[w].row \in Nat /\ call[w].result \in Seq([row : Nat, whole : BOOLEAN])
        /\ (temp # TRUE) \in BOOLEAN
    BY <1>1 DEF Calls
  <2>2. call' = [call EXCEPT ![w] = [call[w] EXCEPT !.at = "scan", !.row = call[w].row, !.result = call[w].result, !.nilDest = temp # TRUE]]
    BY <1>1, <1>9 DEF ReturnTemp, Calls
  <2> QED
    BY <1>4, <1>9, <2>1, <2>2 DEF ReturnTemp
<1>10. CASE Scan(w)
  <2>1. CASE Return(w, "error")
    BY <1>3, <2>1
  <2>2. CASE /\ call' = [call EXCEPT ![w].at = IF Request(w).kind = "one" THEN "break" ELSE "next",
                                    ![w].row = @ + 1,
                                    ![w].result = IF Request(w).byReference
                                                  THEN [@ EXCEPT ![Len(@)] = Whole(call[w].row)]
                                                  ELSE Placed(@, Request(w), Whole(call[w].row))]
             /\ Local
    <3> DEFINE step == IF Request(w).kind = "one" THEN "break" ELSE "next"
               old == call[w].result
               result == IF Request(w).byReference THEN [old EXCEPT ![Len(old)] = Whole(call[w].row)]
                         ELSE Placed(old, Request(w), Whole(call[w].row))
    <3>1. step \in {"next", "temp", "scan", "break"}
      OBVIOUS
    <3>2. /\ call[w].row \in Nat /\ call[w].row + 1 \in Nat /\ call[w].nilDest \in BOOLEAN
          /\ call[w].result \in Seq([row : Nat, whole : BOOLEAN])
      BY <1>1 DEF Calls
    <3>3. result \in Seq([row : Nat, whole : BOOLEAN])
      <4>1. Whole(call[w].row) \in [row : Nat, whole : BOOLEAN]
        BY <3>2 DEF Whole
      <4> QED
        BY <3>2, <4>1, PlacedTyped
    <3>4. call' = [call EXCEPT ![w] = [call[w] EXCEPT !.at = step, !.row = call[w].row + 1, !.result = result, !.nilDest = call[w].nilDest]]
      BY ZenonT(60), <1>1, <2>2 DEF Calls
    <3> QED
      BY ZenonT(60), <1>4, <2>2, <3>1, <3>2, <3>3, <3>4
  <2> QED
    BY <1>10, <2>1, <2>2 DEF Scan
<1>11. CASE SelectOne(w)
  BY <1>3, <1>11 DEF SelectOne
<1> QED
  BY <1>5, <1>6, <1>7, <1>8, <1>9, <1>10, <1>11 DEF Rows

\* A call that begins: it is settled only at a site that is stable.
LEMMA StartForm ==
  ASSUME TypeOK, NEW w \in Workers, Start(w)
  PROVE  TypeOK' /\ \E c \in Calls : Begun(w, c)
<1> DEFINE r == Request(w)
           where == IF r.entry = "template" THEN "outer" ELSE "execute"
           text == IF r.entry = "template" THEN NoTemplate ELSE r.text
<1>1. call[w].at = "idle" /\ Len(done[w]) < Len(jobs[w]) /\ Local
  BY DEF Start, At
<1>2. r \in Requests
  <2>1. jobs[w] \in Seq(Requests) /\ done[w] \in Seq(Calls)
    BY DEF TypeOK
  <2>2. Len(done[w]) + 1 \in 1 .. Len(jobs[w])
    BY <1>1, <2>1
  <2> QED
    BY <2>1, <2>2 DEF Request
<1>3. PICK settled \in BOOLEAN : settled = (r.entry = "template" /\ Settled(r.site))
  BY Zenon
<1>4. PICK tempSettled \in BOOLEAN : tempSettled = TempSettled
  BY Zenon DEF TempSettled
<1> DEFINE d == [Idle EXCEPT !.at = where, !.text = text, !.settled = settled, !.tempSettled = tempSettled]
<1>5. call' = [call EXCEPT ![w] = d]
  BY <1>3, <1>4, Zenon DEF Start
<1>6. PICK c \in Calls : /\ call' = [call EXCEPT ![w] = c] /\ c.at = where /\ c.nilDest = FALSE
                         /\ c.settled = settled /\ c.tempSettled = tempSettled
  <2>1. where \in Steps /\ text \in SqlTexts \union {NoTemplate}
    BY <1>2 DEF Steps, Requests
  <2> HIDE DEF where, text
  <2>2. Idle \in Calls /\ Idle.nilDest = FALSE
    BY DEF Idle, Calls, Steps
  <2>3. d \in Calls /\ d.at = where /\ d.nilDest = FALSE /\ d.settled = settled /\ d.tempSettled = tempSettled
    BY <2>1, <2>2 DEF Calls
  <2> HIDE DEF d
  <2> QED
    BY <1>5, <2>3
<1>10. where \in {"outer", "execute"} /\ (r.entry = "template" => where = "outer")
  OBVIOUS
<1> HIDE DEF where, text, d
<1>7. settled => where = "outer" /\ Stable(r.site)
  <2>1. Settled(r.site) => Stable(r.site)
    BY DEF Settled, Stable, Makes
  <2> QED
    BY <1>3, <1>10, <2>1
<1>8. tempSettled => TempStable
  BY <1>4 DEF TempSettled, TempStable
<1>9. TypeOK'
  BY <1>1, <1>6, <1>10, StepTyped DEF Local, TypeOK
<1> QED
  BY <1>1, <1>6, <1>10, <1>7, <1>8, <1>9 DEF Local, Begun
-----------------------------------------------------------------------------
\* A step of w leaves a stable site stable that keeps its template, if w is not about to make
\* something there.
LEMMA StableKept ==
  ASSUME TypeOK, NEW w \in Workers, NEW c \in Calls, call' = [call EXCEPT ![w] = c],
         NEW s, Stable(s), template' # NoMap, template'[s] = template[s],
         c.at # "makeOuter", c.at \in Makes => Request(w)'.site # s,
         \A v \in Workers : v # w => Request(v)' = Request(v)
  PROVE  Stable(s)'
<1>1. \A v \in Workers : call'[v] = IF v = w THEN c ELSE call[v]
  BY DEF TypeOK
<1> QED
  BY <1>1 DEF Stable

LEMMA TempKept ==
  ASSUME TypeOK, NEW w \in Workers, NEW c \in Calls, call' = [call EXCEPT ![w] = c],
         TempStable, temp' = TRUE, c.at # "tempMake"
  PROVE  TempStable'
<1>1. \A v \in Workers : call'[v] = IF v = w THEN c ELSE call[v]
  BY DEF TypeOK
<1> QED
  BY <1>1 DEF TempStable

\* The sites of the calls that are done and of the one in progress.
LEMMA SitesTyped ==
  ASSUME TypeOK, NEW w \in Workers
  PROVE  /\ call[w].at # "idle" => Request(w).site \in Sites
         /\ \A k \in DOMAIN jobs[w] : jobs[w][k].site \in Sites
<1>1. \A k \in DOMAIN jobs[w] : jobs[w][k] \in Requests
  BY DEF TypeOK
<1>2. call[w].at # "idle" => Request(w) \in Requests
  BY RequestTyped
<1> QED
  BY <1>1, <1>2 DEF Requests

LEMMA InitInv == Init => Inv
<1> SUFFICES ASSUME Init PROVE Inv
  OBVIOUS
<1>1. \A w \in Workers : call[w] = Idle /\ done[w] = <<>>
  BY DEF Init
<1>2. ASSUME NEW w \in Workers PROVE CallServed(w) /\ DoneServed(w) /\ TempServed(w)
  BY <1>1, <1>2 DEF Idle, CallServed, DoneServed, TempServed
<1> QED
  BY <1>2, InitTyped DEF Inv

LEMMA BegunKeeps ==
  ASSUME Inv, TypeOK', NEW w \in Workers, NEW c \in Calls, Begun(w, c)
  PROVE  Inv'
<1>1. TypeOK /\ \A v \in Workers : CallServed(v) /\ DoneServed(v) /\ TempServed(v)
  BY DEF Inv
<1>2. \A v \in Workers : call'[v] = IF v = w THEN c ELSE call[v]
  BY <1>1 DEF Begun, TypeOK
<1>3. UNCHANGED <<jobs, done, template, temp>> /\ \A v \in Workers : Request(v)' = Request(v)
  BY DEF Begun, Request
<1>4. ASSUME NEW s, Stable(s) PROVE Stable(s)'
  BY <1>1, <1>2, <1>3, <1>4 DEF Begun, Stable, Makes
<1>5. TempStable => TempStable'
  BY <1>1, <1>2, <1>3 DEF Begun, TempStable
<1>6. ASSUME NEW v \in Workers PROVE CallServed(v)'
  BY <1>1, <1>2, <1>3, <1>4, <1>6 DEF Begun, CallServed, Lookup
<1>7. ASSUME NEW v \in Workers PROVE DoneServed(v)'
  BY <1>1, <1>3, <1>4, <1>7 DEF DoneServed
<1>8. ASSUME NEW v \in Workers PROVE TempServed(v)'
  BY <1>1, <1>2, <1>3, <1>5, <1>8 DEF Begun, TempServed
<1> QED
  BY <1>6, <1>7, <1>8 DEF Inv

LEMMA AdvancedKeeps ==
  ASSUME Inv, TypeOK', NEW w \in Workers, NEW c \in Calls, Advanced(w, c)
  PROVE  Inv'
<1>1. TypeOK /\ \A v \in Workers : CallServed(v) /\ DoneServed(v) /\ TempServed(v)
  BY DEF Inv
<1>2. \A v \in Workers : call'[v] = IF v = w THEN c ELSE call[v]
  BY <1>1 DEF Advanced, TypeOK
<1>3. UNCHANGED <<jobs, done>> /\ \A v \in Workers : Request(v)' = Request(v)
  BY DEF Advanced, Request
<1>4. ASSUME NEW s \in Sites, Stable(s) PROVE Stable(s)' /\ template'[s] = template[s]
  BY <1>1, <1>3, <1>4, StableKept DEF Advanced, Preserves
<1>5. TempStable => TempStable' /\ c.nilDest \in {call[w].nilDest, FALSE}
  BY <1>1, TempKept DEF Advanced, Preserves, TempStable
<1>6. ASSUME NEW v \in Workers PROVE CallServed(v)'
  <2>1. CASE v # w
    BY <1>1, <1>2, <1>3, <1>4, <2>1, SitesTyped DEF CallServed
  <2>2. CASE v = w
    <3> SUFFICES ASSUME call[w].settled
                 PROVE  /\ c.at # "idle" /\ Stable(Request(w).site)'
                        /\ c.at \notin Lookup => c.text = template'[Request(w).site]
      BY <1>2, <1>3, <2>2 DEF CallServed, Advanced, Preserves
    <3>1. PICK s \in Sites : s = Request(w).site /\ s = Request(w)'.site /\ Stable(s)
      BY <1>1, <1>3, SitesTyped DEF CallServed
    <3>2. Stable(s)' /\ template'[s] = template[s]
      BY <1>4, <3>1
    <3>3. c.at \notin Lookup => c.text = template[s]
      BY <1>1, <3>1 DEF CallServed, Advanced, Preserves
    <3> QED
      BY <3>1, <3>2, <3>3 DEF Advanced, Stable
  <2> QED
    BY <2>1, <2>2
<1>7. ASSUME NEW v \in Workers PROVE DoneServed(v)'
  BY <1>1, <1>3, <1>4, <1>7, SitesTyped DEF DoneServed
<1>8. ASSUME NEW v \in Workers PROVE TempServed(v)'
  BY <1>1, <1>2, <1>3, <1>5, <1>8 DEF Advanced, Preserves, TempServed
<1> QED
  BY <1>6, <1>7, <1>8 DEF Inv

LEMMA ReturnedKeeps ==
  ASSUME Inv, TypeOK', NEW w \in Workers, NEW c \in Calls, Returned(w, c)
  PROVE  Inv'
<1>1. TypeOK /\ \A v \in Workers : CallServed(v) /\ DoneServed(v) /\ TempServed(v)
  BY DEF Inv
<1>2. Idle \in Calls /\ Idle.at = "idle" /\ ~Idle.settled /\ ~Idle.tempSettled
  BY DEF Idle, Calls, Steps
<1>3. /\ \A v \in Workers : call'[v] = IF v = w THEN Idle ELSE call[v]
      /\ \A v \in Workers : v # w => done'[v] = done[v] /\ Request(v)' = Request(v)
      /\ UNCHANGED <<jobs, template, temp>>
  BY <1>1 DEF Returned, TypeOK, Request
<1>4. ASSUME NEW s, Stable(s) PROVE Stable(s)'
  BY <1>2, <1>3, <1>4 DEF Stable, Makes
<1>5. TempStable => TempStable'
  BY <1>2, <1>3 DEF TempStable
<1>6. ASSUME NEW v \in Workers PROVE CallServed(v)'
  BY <1>1, <1>2, <1>3, <1>4, <1>6 DEF CallServed
\* What w has done: what it had done before, and the call it was in.
<1>7. ASSUME NEW k \in DOMAIN done'[w]
      PROVE  \/ k \in DOMAIN done[w] /\ done'[w][k] = done[w][k]
             \/ done'[w][k] = c /\ k \in DOMAIN jobs[w] /\ jobs[w][k] = Request(w)
  <2>1. done[w] \in Seq(Calls) /\ done'[w] = Append(done[w], c)
    BY <1>1 DEF Returned, TypeOK
  <2>2. Len(done[w]) + 1 \in DOMAIN jobs[w]
    BY <1>1, RequestTyped DEF Returned
  <2>3. k \in 1 .. Len(done[w]) \/ k = Len(done[w]) + 1
    BY <1>7, <2>1
  <2> QED
    BY <2>1, <2>2, <2>3 DEF Request
<1>8. ASSUME NEW v \in Workers PROVE DoneServed(v)'
  <2>1. CASE v # w
    BY <1>1, <1>3, <1>4, <2>1 DEF DoneServed
  <2>2. CASE v = w
    <3>1. c.settled => Stable(Request(w).site) /\ c.text = template[Request(w).site]
      BY <1>1 DEF CallServed, Returned
    <3>2. ASSUME NEW k \in DOMAIN done'[w]
          PROVE  /\ k \in DOMAIN jobs[w]
                 /\ done'[w][k].settled => Stable(jobs[w][k].site) /\ done'[w][k].text = template[jobs[w][k].site]
      BY <1>1, <1>7, <3>1, <3>2 DEF DoneServed
    <3> QED
      BY <1>3, <1>4, <2>2, <3>2 DEF DoneServed
  <2> QED
    BY <2>1, <2>2
<1>9. ASSUME NEW v \in Workers PROVE TempServed(v)'
  <2>1. CASE v # w
    BY <1>1, <1>3, <1>5, <2>1 DEF TempServed
  <2>2. CASE v = w
    <3>1. c.tempSettled => ~c.nilDest
      BY <1>1 DEF TempServed, Returned
    <3> QED
      BY <1>1, <1>2, <1>3, <1>7, <2>2, <3>1 DEF TempServed
  <2> QED
    BY <2>1, <2>2
<1> QED
  BY <1>6, <1>8, <1>9 DEF Inv

LEMMA InvStep == Inv /\ [Next]_vars => Inv'
<1> SUFFICES ASSUME Inv, [Next]_vars PROVE Inv'
  OBVIOUS
<1>1. TypeOK
  BY DEF Inv
<1>2. ASSUME NEW w \in Workers, Step(w) PROVE Inv'
  <2>1. CASE Start(w)
    BY <1>1, <2>1, StartForm, BegunKeeps
  <2>2. CASE Build(w) \/ Run(w) \/ Rows(w)
    <3>1. (\E c \in Calls : Returned(w, c)) \/ (TypeOK' /\ \E c \in Calls : Advanced(w, c))
      BY <1>1, <2>2, BuildForm, RunForm, RowsForm
    <3> QED
      BY <1>1, <3>1, ReturnTyped, ReturnedKeeps, AdvancedKeeps
  <2> QED
    BY <1>2, <2>1, <2>2 DEF Step
<1>3. CASE UNCHANGED <<jobs, call, done, template, temp, record>> /\ fatal' \in BOOLEAN
  <2>1. TypeOK'
    BY <1>1, <1>3 DEF TypeOK, Request
  <2>2. ASSUME NEW w \in Workers PROVE CallServed(w)' /\ DoneServed(w)' /\ TempServed(w)'
    BY <1>3, <2>2 DEF Inv, CallServed, DoneServed, TempServed, Stable, TempStable, Request
  <2> QED
    BY <2>1, <2>2 DEF Inv
<1> QED
  BY <1>1, <1>2, <1>3 DEF Next, MapFault, Stopped, vars, TypeOK

\* Type correctness: in particular a call at the maps of its call site finds the outer one there,
\* and one that is recorded has a context with a record.
THEOREM TypeCorrect == Spec => []TypeOK
<1>1. Inv => TypeOK
  BY DEF Inv
<1> QED
  BY <1>1, InitInv, InvStep, PTL DEF Spec

\* A call of sqlTemplateBuild that begins with the template of its site in place, while nobody is
\* about to put one there, runs the template the site has for ever, and one that begins with the
\* shared scan destination in place never scans into a nil one: whatever the number of goroutines,
\* sites and requests.
THEOREM SettledSafe == Spec => []SettledServed
<1>1. Inv => SettledServed
  BY DEF Inv, SettledServed, DoneServed, TempServed
<1> QED
  BY <1>1, InitInv, InvStep, PTL DEF Spec
-----------------------------------------------------------------------------
(* What a call has scanned so far, and what it gives back.                 *)
\* The steps before a call has its template, those with rows, and of these the ones with a row
\* under way.
Before   == {"outer", "makeOuter", "inner", "makeInner", "line", "parse", "store", "fetch"}
OneRow   == {"temp", "tempMake", "tempFind", "tempStore", "tempReturn", "scan"}
RowSteps == {"next", "break"} \union OneRow

UnderWay(c, r) ==
  /\ c.at # "idle"
  /\ c.at \in Before => c.text = NoTemplate /\ r.entry = "template"
  /\ c.at \notin Before => c.text \in SqlTexts
  /\ c.at \in {"recordRead", "recordWrite"} => c.text \notin Failing
  /\ c.at \notin RowSteps => c.row = 1 /\ c.result = <<>>
  /\ c.at \in {"next", "break"} => c.result = Kept(r, Rows1To(c.row - 1))
  /\ c.at \in OneRow => c.result = Kept(r, Rows1To(c.row - 1) \o IF r.byReference THEN <<Partial(c.row)>> ELSE <<>>)
  /\ c.at = "next" => c.row \in 1 .. Len(r.rows) + 1
  /\ c.at \in OneRow => c.row \in 1 .. Len(r.rows)
  /\ r.kind = "one" /\ c.at # "break" => c.row = 1
  /\ c.at = "break" => r.kind = "one" /\ c.row = 2 /\ Len(r.rows) >= 1

GoodResult(d, r) ==
  LET failed == d.outcome = "error" /\ d.row <= Len(r.rows) /\ (r.rows[d.row] = "bad" \/ d.nilDest)
      scanning == d.result # <<>> \/ d.row > 1
  IN \/ r.entry = "template" /\ d.outcome # "ok" /\ d.result = <<>>
     \/ d.outcome = "ok" /\ d.result = Kept(r, Rows1To(d.row - 1))
        /\ (d.cut \/ r.kind = "exec" \/ d.row - 1 = IF r.kind = "one" /\ r.rows # <<>> THEN 1 ELSE Len(r.rows))
     \/ d.outcome = "error" /\ ~scanning
     \/ failed /\ d.result = Kept(r, Rows1To(d.row - 1) \o IF r.byReference THEN <<Partial(d.row)>> ELSE <<>>)
     \/ /\ d.outcome = "panic" /\ ~scanning
        /\ d.text = NoTemplate \/ r.args[d.arg] = "registered"

\* Whether a call counts for the record of a context.
Counts(c, r, x) ==
  /\ c.text \notin Failing \union {NoTemplate}
  /\ c.at \notin {"execute", "recordRead", "recordWrite"}
  /\ r.ctx = x

\* What a step does to the records: nothing, or the call adds its statement and counts from then on.
Records(w, c) ==
  \/ /\ record' = record
     /\ LogFunc =>
          \A x \in Contexts :
            /\ Counts(c, Request(w), x) <=> Counts(call[w], Request(w), x)
            /\ Counts(c, Request(w), x) => c.text = call[w].text
     /\ c.at = "recordWrite" => c.list = record[Request(w).ctx]
  \/ /\ record' = [record EXCEPT ![Request(w).ctx] = Append(call[w].list, call[w].text)]
     /\ call[w].at = "recordWrite" /\ c.at = "convert" /\ c.text = call[w].text

Moves(w, c) ==
  /\ call' = [call EXCEPT ![w] = c] /\ UNCHANGED <<jobs, done>>
  /\ UnderWay(c, Request(w)) /\ Records(w, c)
Ends(w, d) ==
  /\ done' = [done EXCEPT ![w] = Append(@, d)] /\ call' = [call EXCEPT ![w] = Idle] /\ UNCHANGED <<jobs, record>>
  /\ call[w].at # "idle" /\ GoodResult(d, Request(w)) /\ d.at = "idle" /\ d.text = call[w].text
  /\ call[w].at \in {"execute", "recordRead", "recordWrite"} => d.text \in Failing

WorkInv ==
  \A w \in Workers :
    /\ IF call[w].at = "idle" THEN call[w].text = NoTemplate ELSE UnderWay(call[w], Request(w))
    /\ \A k \in DOMAIN done[w] : GoodResult(done[w][k], jobs[w][k])

LEMMA RowsAppend ==
  ASSUME NEW n \in Nat
  PROVE  /\ Rows1To(n) \in Seq([row : Nat, whole : BOOLEAN]) /\ Len(Rows1To(n)) = n
         /\ Rows1To(n + 1) = Append(Rows1To(n), Whole(n + 1))
<1>1. \A i \in 1 .. n + 1 : Whole(i) \in [row : Nat, whole : BOOLEAN]
  BY DEF Whole
<1>2. Rows1To(n) \in Seq([row : Nat, whole : BOOLEAN]) /\ Len(Rows1To(n)) = n
  BY <1>1 DEF Rows1To
<1>3. /\ DOMAIN Append(Rows1To(n), Whole(n + 1)) = 1 .. n + 1
      /\ \A i \in 1 .. n + 1 : Append(Rows1To(n), Whole(n + 1))[i] = Whole(i)
  BY <1>1, <1>2 DEF Rows1To
<1>4. Append(Rows1To(n), Whole(n + 1)) = [i \in 1 .. n + 1 |-> Append(Rows1To(n), Whole(n + 1))[i]]
  BY <1>1, <1>2
<1> QED
  BY <1>2, <1>3, <1>4 DEF Rows1To

\* An item placed after those kept so far, and one put in the place of the last.
LEMMA KeptPlaced ==
  ASSUME NEW S, NEW items \in Seq(S), NEW p \in S, NEW q \in S, NEW r
  PROVE  /\ Placed(Kept(r, items), r, p) = Kept(r, Append(items, p))
         /\ [Kept(r, Append(items, p)) EXCEPT ![Len(Kept(r, Append(items, p)))] = q] = Kept(r, Append(items, q))
         /\ items \o <<p>> = Append(items, p) /\ items \o <<>> = items
<1>1. /\ Append(items, p) \in Seq(S) /\ Append(items, p) # <<>> /\ Len(Append(items, p)) = Len(items) + 1
      /\ Append(items, q) \in Seq(S) /\ Append(items, q) # <<>> /\ Len(Append(items, q)) = Len(items) + 1
      /\ Last(Append(items, p)) = p /\ Last(Append(items, q)) = q
  BY DEF Last
<1>2. Placed(Kept(r, items), r, p) = Kept(r, Append(items, p))
  BY <1>1 DEF Placed, Kept
<1>3. [Append(items, p) EXCEPT ![Len(items) + 1] = q] = Append(items, q)
  <2> DEFINE long == Append(items, p)
             n == Len(items) + 1
             new == [long EXCEPT ![n] = q]
  <2>1. long \in Seq(S) /\ n \in 1 .. Len(long) /\ Len(long) = n /\ Len(items) \in Nat
    BY <1>1
  <2> HIDE DEF long, n
  <2>2. new \in Seq(S) /\ Len(new) = n /\ \A j \in 1 .. n : new[j] = IF j = n THEN q ELSE long[j]
    BY <2>1, ExceptSeq
  <2> HIDE DEF new
  <2>3. \A j \in 1 .. n : new[j] = Append(items, q)[j]
    BY <2>1, <2>2 DEF long, n
  <2>4. new = Append(items, q)
    BY <1>1, <2>1, <2>2, <2>3, SeqEqual DEF n
  <2> QED
    BY <2>4 DEF new, long, n
<1>4. [<<p>> EXCEPT ![Len(<<p>>)] = q] = <<q>>
  OBVIOUS
<1>5. [Kept(r, Append(items, p)) EXCEPT ![Len(Kept(r, Append(items, p)))] = q] = Kept(r, Append(items, q))
  BY <1>1, <1>3, <1>4 DEF Kept
<1>6. items \o <<p>> = Append(items, p) /\ items \o <<>> = items
  OBVIOUS
<1> QED
  BY <1>2, <1>5, <1>6

LEMMA KeptSeq ==
  ASSUME NEW S, NEW items \in Seq(S), NEW r
  PROVE  Kept(r, items) \in Seq(S)
<1>1. CASE items = <<>>
  BY <1>1 DEF Kept
<1>2. CASE items # <<>>
  <2>1. items[Len(items)] \in S
    BY <1>2
  <2> QED BY <2>1 DEF Kept, Last
<1> QED
  BY <1>1, <1>2

\* What a row under way has put into the result.
LEMMA ItemsFacts ==
  ASSUME NEW r, NEW n \in Nat \ {0}
  PROVE  LET items == Rows1To(n - 1)
             under == items \o IF r.byReference THEN <<Partial(n)>> ELSE <<>>
         IN /\ (IF r.byReference THEN Placed(Kept(r, items), r, Partial(n)) ELSE Kept(r, items)) = Kept(r, under)
            /\ (IF r.byReference THEN [Kept(r, under) EXCEPT ![Len(Kept(r, under))] = Whole(n)]
                ELSE Placed(Kept(r, under), r, Whole(n))) = Kept(r, Rows1To(n))
<1> DEFINE items == Rows1To(n - 1)
           under == items \o IF r.byReference THEN <<Partial(n)>> ELSE <<>>
           S == [row : Nat, whole : BOOLEAN]
<1>1. n - 1 \in Nat /\ n - 1 + 1 = n
  OBVIOUS
<1>2. items \in Seq(S) /\ Rows1To(n) = Append(items, Whole(n))
  BY <1>1, RowsAppend
<1>3. Partial(n) \in S /\ Whole(n) \in S
  BY DEF Partial, Whole
<1> HIDE DEF items, S
<1>4. under = IF r.byReference THEN Append(items, Partial(n)) ELSE items
  BY <1>2, <1>3, KeptPlaced
<1>5. /\ Placed(Kept(r, items), r, Partial(n)) = Kept(r, Append(items, Partial(n)))
      /\ Placed(Kept(r, items), r, Whole(n)) = Kept(r, Append(items, Whole(n)))
      /\ [Kept(r, Append(items, Partial(n))) EXCEPT ![Len(Kept(r, Append(items, Partial(n))))] = Whole(n)]
         = Kept(r, Append(items, Whole(n)))
  BY <1>2, <1>3, KeptPlaced
<1> HIDE DEF under
<1>6. (IF r.byReference THEN Placed(Kept(r, items), r, Partial(n)) ELSE Kept(r, items)) = Kept(r, under)
  BY <1>4, <1>5
<1>7. (IF r.byReference THEN [Kept(r, under) EXCEPT ![Len(Kept(r, under))] = Whole(n)]
       ELSE Placed(Kept(r, under), r, Whole(n))) = Kept(r, Rows1To(n))
  BY <1>2, <1>4, <1>5
<1> QED
  BY <1>6, <1>7 DEF items, under

\* What a call becomes when it goes on to another step and nothing else of it changes.
LEMMA GoesTo ==
  ASSUME TypeOK, NEW w \in Workers, NEW step \in Steps, Go(w, step)
  PROVE  \E c \in Calls : /\ call' = [call EXCEPT ![w] = c] /\ c.at = step
                          /\ c.text = call[w].text /\ c.list = call[w].list
                          /\ c.row = call[w].row /\ c.result = call[w].result
<1> DEFINE c == [call[w] EXCEPT !.at = step]
<1>1. call[w] \in Calls
  BY DEF TypeOK
<1>2. /\ c \in Calls /\ c.at = step /\ c.text = call[w].text /\ c.list = call[w].list
      /\ c.row = call[w].row /\ c.result = call[w].result
  BY <1>1 DEF Calls
<1>3. call' = [call EXCEPT ![w] = c]
  BY DEF Go
<1> QED
  BY <1>2, <1>3

\* What a call is when it returns.
LEMMA Returns ==
  ASSUME TypeOK, NEW w \in Workers, call[w].at # "idle", NEW outcome \in {"ok", "error", "panic"}, Return(w, outcome)
  PROVE  \E d \in Calls :
           /\ done' = [done EXCEPT ![w] = Append(@, d)] /\ call' = [call EXCEPT ![w] = Idle] /\ UNCHANGED <<jobs, record>>
           /\ d.at = "idle" /\ d.text = call[w].text /\ d.outcome = outcome /\ d.arg = call[w].arg
           /\ d.row = call[w].row /\ d.nilDest = call[w].nilDest /\ d.cut = call[w].cut
           /\ d.result = IF outcome # "ok" /\ Request(w).entry = "template" THEN <<>> ELSE call[w].result
<1> DEFINE d == Finished(call[w], Request(w), outcome)
<1>1. call[w] \in Calls
  BY DEF TypeOK
<1>2. d \in Calls
  BY <1>1, FinishedFacts
<1>3. /\ d.at = "idle" /\ d.text = call[w].text /\ d.outcome = outcome /\ d.arg = call[w].arg
      /\ d.row = call[w].row /\ d.nilDest = call[w].nilDest /\ d.cut = call[w].cut
      /\ d.result = IF outcome # "ok" /\ Request(w).entry = "template" THEN <<>> ELSE call[w].result
  BY <1>1 DEF Finished, Calls
<1>4. /\ done' = [done EXCEPT ![w] = Append(@, d)] /\ call' = [call EXCEPT ![w] = Idle] /\ UNCHANGED <<jobs, record>>
  BY DEF Return
<1> HIDE DEF d
<1> QED
  BY <1>2, <1>3, <1>4

LEMMA StartWork ==
  ASSUME TypeOK, WorkInv, NEW w \in Workers, Start(w)
  PROVE  \E c \in Calls : Moves(w, c)
<1> DEFINE r == Request(w)
           where == IF r.entry = "template" THEN "outer" ELSE "execute"
           text == IF r.entry = "template" THEN NoTemplate ELSE r.text
<1>1. call[w].at = "idle" /\ call[w].text = NoTemplate /\ Local
  BY DEF Start, At, WorkInv
<1>2. PICK c \in Calls : Begun(w, c)
  BY StartForm
<1>3. r \in Requests
  <2>1. jobs[w] \in Seq(Requests) /\ done[w] \in Seq(Calls) /\ Len(done[w]) < Len(jobs[w])
    BY DEF TypeOK, Start
  <2>2. Len(done[w]) + 1 \in 1 .. Len(jobs[w])
    BY <2>1
  <2> QED
    BY <2>1, <2>2 DEF Request
<1>4. c = call'[w] /\ call' = [call EXCEPT ![w] = c]
  BY <1>2 DEF Begun, TypeOK
<1>5. PICK settled, tempSettled : call'[w] = [Idle EXCEPT !.at = where, !.text = text, !.settled = settled, !.tempSettled = tempSettled]
  BY DEF Start, TypeOK
<1>6. c.at = where /\ c.text = text /\ c.row = 1 /\ c.result = <<>>
  <2> HIDE DEF where, text
  <2> QED BY <1>4, <1>5 DEF Idle
<1>7. UnderWay(c, r)
  BY <1>3, <1>6 DEF UnderWay, Before, RowSteps, OneRow, Requests
<1>8. Records(w, c)
  BY <1>1, <1>6 DEF Records, Counts, Local
<1> QED
  BY <1>1, <1>4, <1>7, <1>8 DEF Moves, Local

LEMMA BuildWork ==
  ASSUME TypeOK, WorkInv, NEW w \in Workers, Build(w)
  PROVE  (\E c \in Calls : Moves(w, c)) \/ (\E d \in Calls : Ends(w, d))
<1> DEFINE r == Request(w)
<1>1. /\ call[w] \in Calls /\ call[w].at \in Before /\ r \in Requests /\ r.site \in Sites
      /\ template \in {NoMap} \union [Sites -> SqlTexts \union {NoMap, NoTemplate}]
  BY RequestTyped DEF Build, SeeOuter, MakeOuter, SeeInner, MakeInner, SeeLine, ParseSql, Store, Fetch, TypeOK, Requests, At, Before
<1>2. /\ UnderWay(call[w], r) /\ call[w].text = NoTemplate /\ r.entry = "template"
      /\ call[w].row = 1 /\ call[w].result = <<>>
  BY <1>1 DEF WorkInv, UnderWay, Before, RowSteps, OneRow
<1>3. ASSUME NEW step \in Before, Go(w, step), UNCHANGED <<jobs, done, record>>
      PROVE  \E c \in Calls : Moves(w, c)
  <2>1. step \in Steps
    BY DEF Before, Steps
  <2>2. PICK c \in Calls : /\ call' = [call EXCEPT ![w] = c] /\ c.at = step
                           /\ c.text = call[w].text /\ c.list = call[w].list
                           /\ c.row = call[w].row /\ c.result = call[w].result
    BY <1>3, <2>1, GoesTo
  <2>3. UnderWay(c, r)
    BY <1>2, <2>2 DEF UnderWay, Before, RowSteps, OneRow
  <2>4. Records(w, c)
    BY <1>2, <1>3, <2>2 DEF Records, Counts, Before
  <2> QED BY <1>3, <2>2, <2>3, <2>4 DEF Moves
<1>4. ASSUME NEW outcome \in {"error", "panic"}, Return(w, outcome)
      PROVE  \E d \in Calls : Ends(w, d)
  <2>1. PICK d \in Calls :
           /\ done' = [done EXCEPT ![w] = Append(@, d)] /\ call' = [call EXCEPT ![w] = Idle] /\ UNCHANGED <<jobs, record>>
           /\ d.at = "idle" /\ d.text = call[w].text /\ d.outcome = outcome /\ d.arg = call[w].arg
           /\ d.row = call[w].row /\ d.nilDest = call[w].nilDest /\ d.cut = call[w].cut
           /\ d.result = IF outcome # "ok" /\ Request(w).entry = "template" THEN <<>> ELSE call[w].result
    BY <1>1, <1>4, Returns DEF Before
  <2>2. GoodResult(d, r)
    BY <1>2, <2>1 DEF GoodResult
  <2> QED BY <1>1, <2>1, <2>2 DEF Ends, Before
<1>5. CASE SeeOuter(w) \/ MakeOuter(w) \/ SeeInner(w) \/ MakeInner(w) \/ SeeLine(w)
  BY <1>3, <1>5 DEF SeeOuter, MakeOuter, SeeInner, MakeInner, SeeLine, Local, Before
<1>6. CASE ParseSql(w) \/ Store(w)
  BY <1>3, <1>4, <1>6 DEF ParseSql, Store, Local, Before
<1>7. CASE Fetch(w)
  <2>1. CASE Return(w, "panic")
    BY <1>4, <2>1
  <2>2. CASE /\ template[r.site] \notin {NoMap, NoTemplate} /\ Local
             /\ call' = [call EXCEPT ![w].at = "execute", ![w].text = template[r.site]]
    <3>1. template[r.site] \in SqlTexts
      BY <1>1, <1>7, <2>2 DEF Fetch, TypeOK, At
    <3> DEFINE c == [call[w] EXCEPT !.at = "execute", !.text = template[r.site]]
    <3>2. /\ c \in Calls /\ c.at = "execute" /\ c.text \in SqlTexts
          /\ c.row = call[w].row /\ c.result = call[w].result
      BY <1>1, <3>1 DEF Calls, Steps
    <3>3. call' = [call EXCEPT ![w] = c]
      BY <2>2
    <3> HIDE DEF c
    <3>4. UnderWay(c, r)
      BY <1>2, <3>2 DEF UnderWay, Before, RowSteps, OneRow
    <3>5. Records(w, c)
      BY <1>2, <2>2, <3>2 DEF Records, Counts, Local
    <3> QED BY <2>2, <3>2, <3>3, <3>4, <3>5 DEF Moves, Local
  <2> QED BY <1>7, <2>1, <2>2 DEF Fetch
<1> QED
  BY <1>5, <1>6, <1>7 DEF Build

LEMMA NoRows == ASSUME NEW r PROVE Rows1To(0) = <<>> /\ Kept(r, Rows1To(0)) = <<>>
<1>1. Rows1To(0) = <<>>
  <2>1. Rows1To(0) \in Seq([row : Nat, whole : BOOLEAN]) /\ Len(Rows1To(0)) = 0
    BY RowsAppend
  <2> QED BY <2>1
<1> QED
  BY <1>1 DEF Kept

LEMMA RunWork ==
  ASSUME TypeOK, WorkInv, NEW w \in Workers, Run(w)
  PROVE  (\E c \in Calls : Moves(w, c)) \/ (\E d \in Calls : Ends(w, d))
<1> DEFINE r == Request(w)
           RunSteps == {"execute", "recordRead", "recordWrite", "convert", "send", "columns"}
<1>1. call[w] \in Calls /\ call[w].at \in RunSteps /\ r \in Requests
  BY RequestTyped DEF Run, Execute, RecordRead, RecordWrite, ConvertValues, Exec, QueryContext, ColumnTypes, TypeOK, At
<1>2. /\ UnderWay(call[w], r) /\ call[w].text \in SqlTexts
      /\ call[w].row = 1 /\ call[w].result = <<>>
  BY <1>1 DEF WorkInv, UnderWay, Before, RowSteps, OneRow
<1>3. Len(r.rows) \in Nat /\ Len(r.args) \in Nat /\ call[w].arg \in Nat
  BY <1>1 DEF Requests, Calls
<1>4. ASSUME NEW step \in {"recordRead", "convert", "send", "columns", "next"}, Go(w, step), Local,
             step = "recordRead" => call[w].text \notin Failing,
             LogFunc => \A x \in Contexts :
               Counts(call[w], r, x)
               <=> step # "recordRead" /\ call[w].text \notin Failing \union {NoTemplate} /\ r.ctx = x
      PROVE  \E c \in Calls : Moves(w, c)
  <2>1. step \in Steps
    BY DEF Steps
  <2>2. PICK c \in Calls : /\ call' = [call EXCEPT ![w] = c] /\ c.at = step
                           /\ c.text = call[w].text /\ c.list = call[w].list
                           /\ c.row = call[w].row /\ c.result = call[w].result
    BY <1>4, <2>1, GoesTo
  <2>3. UnderWay(c, r)
    BY <1>2, <1>3, <1>4, <2>2, NoRows DEF UnderWay, Before, RowSteps, OneRow
  <2>4. Records(w, c)
    BY <1>2, <1>4, <2>2 DEF Records, Counts, Local
  <2> QED BY <1>4, <2>2, <2>3, <2>4 DEF Moves, Local
<1>5. ASSUME NEW outcome \in {"ok", "error", "panic"}, Return(w, outcome),
             outcome = "ok" => r.kind = "exec",
             outcome = "panic" => r.args[call[w].arg] = "registered",
             call[w].at \in {"execute", "recordRead", "recordWrite"} => call[w].text \in Failing
      PROVE  \E d \in Calls : Ends(w, d)
  <2>1. PICK d \in Calls :
           /\ done' = [done EXCEPT ![w] = Append(@, d)] /\ call' = [call EXCEPT ![w] = Idle] /\ UNCHANGED <<jobs, record>>
           /\ d.at = "idle" /\ d.text = call[w].text /\ d.outcome = outcome /\ d.arg = call[w].arg
           /\ d.row = call[w].row /\ d.nilDest = call[w].nilDest /\ d.cut = call[w].cut
           /\ d.result = IF outcome # "ok" /\ Request(w).entry = "template" THEN <<>> ELSE call[w].result
    BY <1>1, <1>5, Returns
  <2>2. GoodResult(d, r)
    BY <1>2, <1>5, <2>1, NoRows DEF GoodResult
  <2> QED BY <1>1, <1>5, <2>1, <2>2 DEF Ends
<1>6. CASE Execute(w)
  <2>1. CASE call[w].text \in Failing /\ Return(w, "error")
    BY <1>5, <2>1
  <2>2. CASE call[w].text \notin Failing /\ Go(w, IF Recorded(w) THEN "recordRead" ELSE "convert") /\ Local
    <3>1. \A x \in Contexts : ~Counts(call[w], r, x)
      BY <1>6 DEF Execute, At, Counts
    <3>2. CASE Recorded(w)
      BY <1>4, <2>2, <3>1, <3>2 DEF Recorded
    <3>3. CASE ~Recorded(w) /\ ~LogFunc
      <4>1. PICK c \in Calls : /\ call' = [call EXCEPT ![w] = c] /\ c.at = "convert"
                               /\ c.text = call[w].text /\ c.list = call[w].list
                               /\ c.row = call[w].row /\ c.result = call[w].result
        BY <2>2, <3>3, GoesTo DEF Steps
      <4>2. UnderWay(c, r)
        BY <1>2, <4>1 DEF UnderWay, Before, RowSteps, OneRow
      <4>3. Records(w, c)
        BY <2>2, <3>3, <4>1 DEF Records, Local
      <4> QED BY <2>2, <4>1, <4>2, <4>3 DEF Moves, Local
    <3>4. CASE ~Recorded(w) /\ LogFunc
      <4>1. \A x \in Contexts : r.ctx # x
        BY <3>4, NilAssumption DEF Recorded
      <4> QED BY <1>4, <2>2, <3>1, <3>4, <4>1
    <3> QED BY <3>2, <3>3, <3>4
  <2> QED BY <1>6, <2>1, <2>2 DEF Execute
<1>7. CASE RecordRead(w)
  <2> DEFINE c == [call[w] EXCEPT !.at = "recordWrite", !.list = record[r.ctx]]
  <2>1. r.ctx \in Contexts /\ record[r.ctx] \in Seq(SqlTexts \union {NoTemplate}) /\ Local
    BY <1>7 DEF RecordRead, TypeOK, At
  <2>2. /\ c \in Calls /\ c.at = "recordWrite" /\ c.text = call[w].text /\ c.list = record[r.ctx]
        /\ c.row = call[w].row /\ c.result = call[w].result
    BY <1>1, <2>1 DEF Calls, Steps
  <2>3. call' = [call EXCEPT ![w] = c] /\ call[w].at = "recordRead"
    BY <1>7 DEF RecordRead, At
  <2> HIDE DEF c
  <2>4. UnderWay(c, r)
    BY <1>2, <2>2, <2>3 DEF UnderWay, Before, RowSteps, OneRow
  <2>5. Records(w, c)
    BY <2>1, <2>2, <2>3 DEF Records, Counts, Local
  <2> QED BY <2>1, <2>2, <2>3, <2>4, <2>5 DEF Moves, Local
<1>8. CASE RecordWrite(w)
  <2>1. PICK c \in Calls : /\ call' = [call EXCEPT ![w] = c] /\ c.at = "convert"
                           /\ c.text = call[w].text /\ c.list = call[w].list
                           /\ c.row = call[w].row /\ c.result = call[w].result
    BY <1>8, GoesTo DEF RecordWrite, Steps
  <2>2. UnderWay(c, r)
    BY <1>2, <2>1 DEF UnderWay, Before, RowSteps, OneRow
  <2>3. Records(w, c)
    BY <1>8, <2>1 DEF Records, RecordWrite, At
  <2> QED BY <1>8, <2>1, <2>2, <2>3 DEF Moves, RecordWrite
<1>9. CASE ConvertValues(w)
  <2> DEFINE arg == r.args[call[w].arg]
  <2>0. call[w].at = "convert"
    BY <1>9 DEF ConvertValues, At
  <2>1. CASE Go(w, "send") /\ Local
    BY <1>4, <2>0, <2>1 DEF Counts
  <2>2. CASE /\ call[w].arg <= Len(r.args) /\ ConvertValue(arg) # "ok" /\ Return(w, ConvertValue(arg))
    <3>1. call[w].arg \in 1 .. Len(r.args)
      BY <1>1, <2>2 DEF Calls, Requests
    <3>2. arg \in {"plain", "json", "unmarshalable", "registered", "refused"}
      BY <1>1, <3>1 DEF Requests
    <3>3. ConvertValue(arg) \in {"error", "panic"} /\ (ConvertValue(arg) = "panic" => arg = "registered")
      BY <2>2, <3>2 DEF ConvertValue
    <3> HIDE DEF arg
    <3>4. PICK outcome \in {"error", "panic"} : Return(w, outcome) /\ (outcome = "panic" => arg = "registered")
      BY <2>2, <3>3
    <3> QED BY <1>5, <2>0, <3>4 DEF arg
  <2>3. CASE call' = [call EXCEPT ![w].arg = @ + 1] /\ Local
    <3> DEFINE c == [call[w] EXCEPT !.arg = @ + 1]
    <3>1. call[w].arg + 1 \in Nat \ {0}
      BY <1>1 DEF Calls
    <3>2. /\ c \in Calls /\ c.at = call[w].at /\ c.text = call[w].text
          /\ c.row = call[w].row /\ c.result = call[w].result
      BY <1>1, <3>1 DEF Calls
    <3>3. call' = [call EXCEPT ![w] = c]
      BY <2>3
    <3> HIDE DEF c
    <3>4. UnderWay(c, r)
      BY <1>2, <2>0, <3>2 DEF UnderWay, Before, RowSteps, OneRow
    <3>5. Records(w, c)
      BY <2>0, <2>3, <3>2 DEF Records, Counts, Local
    <3> QED BY <2>3, <3>2, <3>3, <3>4, <3>5 DEF Moves, Local
  <2> QED BY <1>3, <1>9, <2>1, <2>2, <2>3 DEF ConvertValues
<1>10. CASE Exec(w)
  <2>1. call[w].at = "send" /\ r.kind = "exec"
    BY <1>10 DEF Exec, At
  <2> QED BY <1>5, <1>10, <2>1 DEF Exec
<1>11. CASE QueryContext(w) \/ ColumnTypes(w)
  <2>1. call[w].at \in {"send", "columns"}
    BY <1>11 DEF QueryContext, ColumnTypes, At
  <2>2. CASE Return(w, "error")
    BY <1>5, <2>1, <2>2
  <2>3. ASSUME NEW step \in {"columns", "next"}, Go(w, step), Local
        PROVE  \E c \in Calls : Moves(w, c)
    <3>1. PICK c \in Calls : /\ call' = [call EXCEPT ![w] = c] /\ c.at = step
                             /\ c.text = call[w].text /\ c.list = call[w].list
                             /\ c.row = call[w].row /\ c.result = call[w].result
      BY <2>3, GoesTo DEF Steps
    <3>2. UnderWay(c, r)
      BY <1>2, <1>3, <3>1, NoRows DEF UnderWay, Before, RowSteps, OneRow
    <3>3. Records(w, c)
      BY <2>1, <2>3, <3>1 DEF Records, Counts, Local
    <3> QED BY <2>3, <3>1, <3>2, <3>3 DEF Moves, Local
  <2> QED BY <1>11, <2>2, <2>3 DEF QueryContext, ColumnTypes
<1> QED
  BY <1>6, <1>7, <1>8, <1>9, <1>10, <1>11 DEF Run

LEMMA RowsWork ==
  ASSUME TypeOK, WorkInv, NEW w \in Workers, Rows(w)
  PROVE  (\E c \in Calls : Moves(w, c)) \/ (\E d \in Calls : Ends(w, d))
<1> DEFINE r == Request(w)
           n == call[w].row
           items == Rows1To(n - 1)
           under == items \o IF r.byReference THEN <<Partial(n)>> ELSE <<>>
           old == call[w].result
<1>1. call[w] \in Calls /\ call[w].at \in RowSteps /\ r \in Requests
  BY RequestTyped
  DEF Rows, NextRow, Cut, SeeTemp, MakeTemp, FindTemp, StoreTemp, ReturnTemp, Scan, SelectOne, TypeOK, At, RowSteps, OneRow
<1>2. UnderWay(call[w], r) /\ call[w].text \in SqlTexts
  BY <1>1 DEF WorkInv, UnderWay, Before, RowSteps, OneRow
<1>3. /\ Len(r.rows) \in Nat /\ n \in Nat \ {0} /\ n <= Len(r.rows) + 1
      /\ call[w].at \in {"next", "break"} => old = Kept(r, items)
      /\ call[w].at \in OneRow => old = Kept(r, under) /\ n \in 1 .. Len(r.rows)
      /\ r.kind = "one" /\ call[w].at # "break" => n = 1
      /\ call[w].at = "break" => r.kind = "one" /\ n = 2 /\ Len(r.rows) >= 1
  BY <1>1, <1>2 DEF UnderWay, RowSteps, Requests
<1>4. /\ (IF r.byReference THEN Placed(Kept(r, items), r, Partial(n)) ELSE Kept(r, items)) = Kept(r, under)
      /\ (IF r.byReference THEN [Kept(r, under) EXCEPT ![Len(Kept(r, under))] = Whole(n)]
          ELSE Placed(Kept(r, under), r, Whole(n))) = Kept(r, Rows1To(n))
  BY <1>3, ItemsFacts
<1> HIDE DEF n, items, under, old
\* The records do not change, and the call has counted since it was recorded.
<1>5. ASSUME NEW c \in Calls, call' = [call EXCEPT ![w] = c], UNCHANGED <<jobs, done, record>>,
             c.at \in RowSteps, c.text = call[w].text, UnderWay(c, r)
      PROVE  \E d \in Calls : Moves(w, d)
  <2>1. Records(w, c)
    BY <1>1, <1>5 DEF Records, Counts, RowSteps, OneRow
  <2> QED BY <1>5, <2>1 DEF Moves
<1>6. ASSUME NEW d \in Calls, done' = [done EXCEPT ![w] = Append(@, d)], call' = [call EXCEPT ![w] = Idle],
             UNCHANGED <<jobs, record>>, GoodResult(d, r), d.at = "idle", d.text = call[w].text
      PROVE  \E e \in Calls : Ends(w, e)
  BY <1>1, <1>6 DEF Ends, RowSteps, OneRow
<1>7. ASSUME NEW outcome \in {"ok", "error"}, Return(w, outcome),
             \A d \in Calls :
               /\ d.outcome = outcome /\ d.row = n /\ d.nilDest = call[w].nilDest
               /\ d.result = IF outcome # "ok" /\ r.entry = "template" THEN <<>> ELSE old
               => GoodResult(d, r)
      PROVE  \E e \in Calls : Ends(w, e)
  <2>1. PICK d \in Calls :
           /\ done' = [done EXCEPT ![w] = Append(@, d)] /\ call' = [call EXCEPT ![w] = Idle] /\ UNCHANGED <<jobs, record>>
           /\ d.at = "idle" /\ d.text = call[w].text /\ d.outcome = outcome
           /\ d.row = n /\ d.nilDest = call[w].nilDest
           /\ d.result = IF outcome # "ok" /\ r.entry = "template" THEN <<>> ELSE old
    BY <1>1, <1>7, Returns DEF n, old, RowSteps, OneRow
  <2> QED BY <1>6, <1>7, <2>1
<1>8. CASE NextRow(w)
  <2>1. call[w].at = "next" /\ old = Kept(r, items) /\ (r.kind = "one" => n = 1)
    BY <1>3, <1>8 DEF NextRow, At
  <2>2. CASE n > Len(r.rows) /\ Return(w, "ok")
    <3>1. n - 1 = Len(r.rows) /\ (r.kind = "one" => r.rows = <<>>)
      <4>1. n - 1 = Len(r.rows) /\ (r.kind = "one" => Len(r.rows) = 0)
        BY <1>3, <2>1, <2>2
      <4> QED BY <1>1, <4>1 DEF Requests
    <3>2. \A d \in Calls : d.outcome = "ok" /\ d.row = n /\ d.result = old => GoodResult(d, r)
      BY <2>1, <3>1 DEF GoodResult, items
    <3> QED BY <1>7, <2>2, <3>2
  <2>3. CASE /\ n <= Len(r.rows) /\ Local
             /\ call' = [call EXCEPT ![w].at = IF r.ignored THEN "temp" ELSE "scan",
                                     ![w].result = IF r.byReference THEN Placed(@, r, Partial(n)) ELSE @]
    <3> DEFINE where == IF r.ignored THEN "temp" ELSE "scan"
               new == IF r.byReference THEN Placed(old, r, Partial(n)) ELSE old
               c == [call[w] EXCEPT !.at = where, !.result = new]
    <3>1. where \in OneRow /\ where \in Steps
      BY DEF OneRow, Steps
    <3>2. new = Kept(r, under)
      BY <1>4, <2>1
    <3>3. new \in Seq([row : Nat, whole : BOOLEAN])
      BY <1>1, <1>3, PlacedTyped DEF Calls, old, Partial
    <3>4. call' = [call EXCEPT ![w] = c]
      BY <2>3 DEF old
    <3> HIDE DEF where, new
    <3>5. c \in Calls /\ c.at = where /\ c.text = call[w].text /\ c.row = n /\ c.result = new
      BY <1>1, <3>1, <3>3 DEF Calls, n
    <3> HIDE DEF c
    <3>6. UnderWay(c, r)
      BY <1>2, <1>3, <2>1, <2>3, <3>1, <3>2, <3>5 DEF UnderWay, Before, RowSteps, OneRow, under, items
    <3> QED BY <1>5, <2>3, <3>1, <3>4, <3>5, <3>6 DEF Local, RowSteps
  <2> QED BY <1>8, <2>2, <2>3 DEF NextRow, n
<1>9. CASE Cut(w)
  <2> DEFINE d == Finished([call[w] EXCEPT !.cut = TRUE], r, "ok")
  <2>1. call[w].at = "next" /\ old = Kept(r, items)
    BY <1>3, <1>9 DEF Cut, At
  <2>2. [call[w] EXCEPT !.cut = TRUE] \in Calls
    BY <1>1 DEF Calls
  <2>3. d \in Calls
    BY <2>2, FinishedFacts
  <2>4. d.at = "idle" /\ d.text = call[w].text /\ d.outcome = "ok" /\ d.cut /\ d.row = n /\ d.result = old
    BY <1>1 DEF Finished, Calls, n, old
  <2>5. done' = [done EXCEPT ![w] = Append(@, d)] /\ call' = [call EXCEPT ![w] = Idle] /\ UNCHANGED <<jobs, record>>
    BY <1>9 DEF Cut
  <2> HIDE DEF d
  <2>6. GoodResult(d, r)
    BY <2>1, <2>4 DEF GoodResult, items
  <2> QED BY <1>6, <2>3, <2>4, <2>5, <2>6
<1>10. ASSUME call[w].at \in OneRow, NEW step \in OneRow, Go(w, step), UNCHANGED <<jobs, done, record>>
       PROVE  \E c \in Calls : Moves(w, c)
  <2>1. step \in Steps
    BY DEF OneRow, Steps
  <2>2. PICK c \in Calls : /\ call' = [call EXCEPT ![w] = c] /\ c.at = step
                           /\ c.text = call[w].text /\ c.list = call[w].list
                           /\ c.row = call[w].row /\ c.result = call[w].result
    BY <1>10, <2>1, GoesTo
  <2>3. UnderWay(c, r)
    BY <1>2, <1>10, <2>2 DEF UnderWay, Before, RowSteps, OneRow
  <2> QED BY <1>5, <1>10, <2>2, <2>3 DEF RowSteps
<1>11. CASE SeeTemp(w) \/ MakeTemp(w) \/ FindTemp(w) \/ StoreTemp(w)
  BY <1>10, <1>11 DEF SeeTemp, MakeTemp, FindTemp, StoreTemp, Local, At, OneRow
<1>12. CASE ReturnTemp(w)
  <2> DEFINE isNil == temp # TRUE
             c == [call[w] EXCEPT !.at = "scan", !.nilDest = isNil]
  <2>1. call[w].at = "tempReturn" /\ Local /\ call' = [call EXCEPT ![w] = c]
    BY <1>12 DEF ReturnTemp, At
  <2>2. isNil \in BOOLEAN
    OBVIOUS
  <2> HIDE DEF isNil
  <2>3. /\ c \in Calls /\ c.at = "scan" /\ c.text = call[w].text
        /\ c.row = call[w].row /\ c.result = call[w].result
    BY <1>1, <2>2 DEF Calls, Steps
  <2> HIDE DEF c
  <2>4. UnderWay(c, r)
    BY <1>2, <2>1, <2>3 DEF UnderWay, Before, RowSteps, OneRow
  <2> QED BY <1>5, <2>1, <2>3, <2>4 DEF Local, RowSteps, OneRow
<1>13. CASE Scan(w)
  <2>1. call[w].at = "scan" /\ old = Kept(r, under) /\ n \in 1 .. Len(r.rows) /\ (r.kind = "one" => n = 1)
    BY <1>3, <1>13 DEF Scan, At, OneRow
  <2>2. CASE (r.rows[n] = "bad" \/ call[w].nilDest) /\ Return(w, "error")
    <3>1. \A d \in Calls :
            /\ d.outcome = "error" /\ d.row = n /\ d.nilDest = call[w].nilDest
            /\ d.result = IF r.entry = "template" THEN <<>> ELSE old
            => GoodResult(d, r)
      BY <2>1, <2>2 DEF GoodResult, under, items
    <3> QED BY <1>7, <2>2, <3>1
  <2>3. CASE /\ r.rows[n] # "bad" /\ ~call[w].nilDest /\ Local
             /\ call' = [call EXCEPT ![w].at = IF r.kind = "one" THEN "break" ELSE "next",
                                     ![w].row = @ + 1,
                                     ![w].result = IF r.byReference
                                                   THEN [@ EXCEPT ![Len(@)] = Whole(n)]
                                                   ELSE Placed(@, r, Whole(n))]
    <3> DEFINE where == IF r.kind = "one" THEN "break" ELSE "next"
               new == IF r.byReference THEN [old EXCEPT ![Len(old)] = Whole(n)] ELSE Placed(old, r, Whole(n))
               c == [call[w] EXCEPT !.at = where, !.row = n + 1, !.result = new]
    <3>1. where \in Steps /\ where \in {"next", "break"} /\ (r.kind = "one" <=> where = "break")
      BY DEF Steps
    <3>2. new = Kept(r, Rows1To(n))
      BY <1>4, <2>1
    <3>3. new \in Seq([row : Nat, whole : BOOLEAN]) /\ n + 1 \in Nat /\ n + 1 - 1 = n
      <4>1. Rows1To(n) \in Seq([row : Nat, whole : BOOLEAN])
        BY <1>3, RowsAppend
      <4>2. Kept(r, Rows1To(n)) \in Seq([row : Nat, whole : BOOLEAN])
        BY <4>1, KeptSeq
      <4> HIDE DEF new
      <4> QED BY <1>3, <3>2, <4>2
    <3>4. call' = [call EXCEPT ![w] = c]
      BY <2>3 DEF old, n
    <3> HIDE DEF where, new
    <3>5. c \in Calls /\ c.at = where /\ c.text = call[w].text /\ c.row = n + 1 /\ c.result = new
      BY <1>1, <3>1, <3>3 DEF Calls
    <3> HIDE DEF c
    <3>6. UnderWay(c, r)
      BY <1>2, <1>3, <2>1, <3>1, <3>2, <3>3, <3>5 DEF UnderWay, Before, RowSteps, OneRow
    <3> QED BY <1>5, <2>3, <3>1, <3>4, <3>5, <3>6 DEF Local, RowSteps
  <2> QED BY <1>13, <2>2, <2>3 DEF Scan, n
<1>14. CASE SelectOne(w)
  <2>1. call[w].at = "break" /\ Return(w, "ok") /\ old = Kept(r, items) /\ n = 2 /\ r.kind = "one" /\ Len(r.rows) >= 1
    BY <1>3, <1>14 DEF SelectOne, At
  <2>2. r.rows # <<>> /\ n - 1 = 1
    BY <1>1, <2>1 DEF Requests
  <2>3. \A d \in Calls : d.outcome = "ok" /\ d.row = n /\ d.result = old => GoodResult(d, r)
    BY <2>1, <2>2 DEF GoodResult, items
  <2> QED BY <1>7, <2>1, <2>3
<1> QED
  BY <1>8, <1>9, <1>11, <1>12, <1>13, <1>14 DEF Rows

\* Every step of a goroutine moves its call on or ends it.
LEMMA StepWork ==
  ASSUME TypeOK, WorkInv, NEW w \in Workers, Step(w)
  PROVE  (\E c \in Calls : Moves(w, c)) \/ (\E d \in Calls : Ends(w, d))
BY StartWork, BuildWork, RunWork, RowsWork DEF Step

LEMMA WorkStarts == Init => WorkInv
BY DEF Init, WorkInv, Idle

LEMMA WorkStep == TypeOK /\ WorkInv /\ [Next]_vars => WorkInv'
<1> SUFFICES ASSUME TypeOK, WorkInv, [Next]_vars PROVE WorkInv'
  OBVIOUS
<1>1. ASSUME NEW w \in Workers, NEW c \in Calls, Moves(w, c) PROVE WorkInv'
  <2>1. /\ \A v \in Workers : call'[v] = IF v = w THEN c ELSE call[v]
        /\ UNCHANGED <<jobs, done>> /\ \A v \in Workers : Request(v)' = Request(v)
    BY <1>1 DEF Moves, TypeOK, Request
  <2>2. UnderWay(c, Request(w)) /\ c.at # "idle"
    BY <1>1 DEF Moves, UnderWay
  <2> QED BY <2>1, <2>2 DEF WorkInv
<1>2. ASSUME NEW w \in Workers, NEW d \in Calls, Ends(w, d) PROVE WorkInv'
  <2>1. /\ \A v \in Workers : call'[v] = IF v = w THEN Idle ELSE call[v]
        /\ \A v \in Workers : v # w => done'[v] = done[v] /\ Request(v)' = Request(v)
        /\ jobs' = jobs /\ done'[w] = Append(done[w], d) /\ done[w] \in Seq(Calls)
    BY <1>2 DEF Ends, TypeOK, Request
  <2>2. ASSUME NEW k \in DOMAIN done'[w] PROVE GoodResult(done'[w][k], jobs[w][k])
    <3>1. \/ k \in 1 .. Len(done[w]) /\ done'[w][k] = done[w][k]
          \/ k = Len(done[w]) + 1 /\ done'[w][k] = d
      BY <2>1, <2>2
    <3>2. CASE k \in 1 .. Len(done[w]) /\ done'[w][k] = done[w][k]
      BY <2>1, <3>2 DEF WorkInv
    <3>3. CASE k = Len(done[w]) + 1 /\ done'[w][k] = d
      BY <1>2, <3>3 DEF Ends, Request
    <3> QED BY <3>1, <3>2, <3>3
  <2>3. Idle.at = "idle" /\ Idle.text = NoTemplate
    BY DEF Idle
  <2> QED BY <2>1, <2>2, <2>3 DEF WorkInv
<1>3. CASE UNCHANGED <<jobs, call, done>>
  BY <1>3 DEF WorkInv, Request
<1> QED
  BY <1>1, <1>2, <1>3, StepWork DEF Next, MapFault, Stopped, vars

\* What a call gives back is what it scanned, for any rows, requests and goroutines: the rows
\* that were read, in their order, also when the call failed midway (queryOption).  A cut
\* iteration counts as the whole of it, a row that failed may be there half filled, and a lost
\* template or a registered converter, also one that README.md:433-457 shows as working, makes
\* the call panic before any row.
THEOREM ResultsRight == Spec => []ResultsTrue
<1>1. Inv => TypeOK
  BY DEF Inv
<1>2. WorkInv => ResultsTrue
  BY DEF WorkInv, ResultsTrue, GoodResult
<1> QED
  BY <1>1, <1>2, InitInv, InvStep, WorkStarts, WorkStep, PTL DEF Spec
-----------------------------------------------------------------------------
(* What a goroutine has had recorded.                                      *)
\* The recursive function of Ran, up to n, and its value for all of the calls.
Collects(g, n, all, js, x) ==
  g = [k \in 0 .. n |-> IF k = 0 THEN <<>>
                        ELSE IF Counts(all[k], js[k], x) THEN Append(g[k - 1], all[k].text) ELSE g[k - 1]]
RanOf(all, js, x) == (CHOOSE g : Collects(g, Len(all), all, js, x))[Len(all)]

\* Every set of numbers has a least one: what the inductions over the calls below use.
LEMMA LeastNat ==
  ASSUME NEW S, S \subseteq Nat, S # {}
  PROVE  \E n \in S : \A m \in S : n <= m
<1> DEFINE R == OpToRel(<, Nat)
<1>1. IsWellFoundedOn(R, Nat)
  BY NatLessThanWellFounded
<1>2. \A n, m \in Nat : n < m => <<n, m>> \in R
  BY DEF OpToRel
<1> HIDE DEF R
<1>3. PICK n \in S : \A m \in S : ~ (<<m, n>> \in R)
  BY <1>1, WFMin
<1>4. \A m \in S : ~(m < n)
  BY <1>2, <1>3
<1> QED
  BY <1>3, <1>4

LEMMA CollectExists ==
  ASSUME NEW n \in Nat, NEW all, NEW js, NEW x
  PROVE  \E g : Collects(g, n, all, js, x)
<1> DEFINE S == {m \in Nat : ~ \E g : Collects(g, m, all, js, x)}
           Next1(g, k) == IF Counts(all[k], js[k], x) THEN Append(g[k - 1], all[k].text) ELSE g[k - 1]
<1>1. SUFFICES ASSUME S # {} PROVE FALSE
  BY <1>1
<1>2. PICK m \in S : \A y \in S : m <= y
  <2> HIDE DEF S
  <2>1. S \subseteq Nat
    BY DEF S
  <2> QED BY <1>1, <2>1, LeastNat
<1>3. CASE m = 0
  <2> DEFINE g == [k \in 0 .. 0 |-> <<>>]
  <2>1. Collects(g, 0, all, js, x)
    BY DEF Collects
  <2> QED BY <1>3, <2>1
<1>4. CASE m # 0
  <2>1. m - 1 \in Nat /\ m - 1 \notin S
    BY <1>2, <1>4
  <2>2. PICK g : Collects(g, m - 1, all, js, x)
    BY <2>1
  <2> DEFINE last == Next1(g, m)
             h == [k \in 0 .. m |-> IF k = m THEN last ELSE g[k]]
  <2>3. \A k \in 0 .. m : k = m \/ k \in 0 .. m - 1
    OBVIOUS
  <2>4. \A k \in 0 .. m - 1 : g[k] = IF k = 0 THEN <<>> ELSE Next1(g, k)
    BY <2>2 DEF Collects
  <2>5. \A k \in 0 .. m - 1 : h[k] = g[k] /\ (k # 0 => h[k - 1] = g[k - 1])
    BY <2>3
  <2>6. h[m] = last /\ h[m - 1] = g[m - 1]
    BY <1>4
  <2> HIDE DEF h
  <2>7. \A k \in 0 .. m : h[k] = IF k = 0 THEN <<>> ELSE Next1(h, k)
    BY <1>4, <2>3, <2>4, <2>5, <2>6
  <2>8. h = [k \in 0 .. m |-> h[k]]
    BY DEF h
  <2>9. Collects(h, m, all, js, x)
    BY <2>7, <2>8 DEF Collects
  <2> QED BY <2>9
<1> QED
  BY <1>3, <1>4

\* The texts of the calls that count, up to k.
LEMMA CollectFacts ==
  ASSUME NEW n \in Nat, NEW all, NEW js, NEW x, NEW g, Collects(g, n, all, js, x)
  PROVE  /\ g[0] = <<>>
         /\ \A k \in 1 .. n : g[k] = IF Counts(all[k], js[k], x) THEN Append(g[k - 1], all[k].text) ELSE g[k - 1]
<1>1. 0 \in 0 .. n /\ \A k \in 1 .. n : k \in 0 .. n /\ k # 0
  OBVIOUS
<1>2. \A k \in 0 .. n : g[k] = IF k = 0 THEN <<>>
                                ELSE IF Counts(all[k], js[k], x) THEN Append(g[k - 1], all[k].text) ELSE g[k - 1]
  BY DEF Collects
<1>3. g[0] = <<>>
  BY <1>1, <1>2
<1>4. \A k \in 1 .. n : g[k] = IF Counts(all[k], js[k], x) THEN Append(g[k - 1], all[k].text) ELSE g[k - 1]
  BY <1>1, <1>2
<1> QED
  BY <1>3, <1>4

LEMMA CollectLast ==
  ASSUME NEW n \in Nat \ {0}, NEW all, NEW js, NEW x, NEW g, Collects(g, n, all, js, x)
  PROVE  g[n] = IF Counts(all[n], js[n], x) THEN Append(g[n - 1], all[n].text) ELSE g[n - 1]
<1>1. \A k \in 1 .. n : g[k] = IF Counts(all[k], js[k], x) THEN Append(g[k - 1], all[k].text) ELSE g[k - 1]
  BY CollectFacts
<1>2. n \in 1 .. n
  OBVIOUS
<1> QED
  BY <1>1, <1>2

LEMMA CollectSame ==
  ASSUME NEW n \in Nat, NEW m \in 0 .. n, NEW all, NEW all2, NEW js, NEW x, NEW g, NEW h,
         Collects(g, n, all, js, x), Collects(h, m, all2, js, x),
         \A k \in 1 .. m : /\ Counts(all2[k], js[k], x) <=> Counts(all[k], js[k], x)
                           /\ Counts(all2[k], js[k], x) => all2[k].text = all[k].text
  PROVE  g[m] = h[m]
<1> DEFINE S == {k \in 0 .. m : g[k] # h[k]}
<1>1. SUFFICES ASSUME S # {} PROVE FALSE
  <2>1. m \in 0 .. m
    OBVIOUS
  <2> QED BY <1>1, <2>1
<1>2. PICK k \in S : \A y \in S : k <= y
  <2> HIDE DEF S
  <2>1. S \subseteq Nat
    BY DEF S
  <2> QED BY <1>1, <2>1, LeastNat
<1>3. k # 0
  BY <1>2, CollectFacts
<1>4. k \in 1 .. m /\ k - 1 \in 0 .. m /\ k - 1 \notin S
  BY <1>2, <1>3
<1>5. g[k - 1] = h[k - 1]
  BY <1>4
<1>6. /\ g[k] = IF Counts(all[k], js[k], x) THEN Append(g[k - 1], all[k].text) ELSE g[k - 1]
      /\ h[k] = IF Counts(all2[k], js[k], x) THEN Append(h[k - 1], all2[k].text) ELSE h[k - 1]
  <2>1. m \in Nat /\ k \in 1 .. n
    BY <1>4
  <2> QED BY <1>4, <2>1, CollectFacts
<1>7. g[k] = h[k]
  BY <1>4, <1>5, <1>6
<1> QED
  BY <1>2, <1>7

LEMMA CollectTyped ==
  ASSUME NEW n \in Nat, NEW all, NEW js, NEW x, NEW g, NEW T, Collects(g, n, all, js, x),
         \A k \in 1 .. n : all[k].text \in T
  PROVE  g[n] \in Seq(T)
<1> DEFINE S == {k \in 0 .. n : g[k] \notin Seq(T)}
<1>1. SUFFICES ASSUME S # {} PROVE FALSE
  <2>1. n \in 0 .. n
    OBVIOUS
  <2> QED BY <1>1, <2>1
<1>2. PICK k \in S : \A y \in S : k <= y
  <2> HIDE DEF S
  <2>1. S \subseteq Nat
    BY DEF S
  <2> QED BY <1>1, <2>1, LeastNat
<1>3. k # 0
  <2>1. <<>> \in Seq(T) /\ g[0] = <<>>
    BY CollectFacts
  <2> QED BY <1>2, <2>1
<1>4. k \in 1 .. n /\ k - 1 \in 0 .. n /\ k - 1 \notin S
  BY <1>2, <1>3
<1>5. g[k] = IF Counts(all[k], js[k], x) THEN Append(g[k - 1], all[k].text) ELSE g[k - 1]
  BY <1>4, CollectFacts
<1>6. g[k - 1] \in Seq(T) /\ all[k].text \in T
  BY <1>4
<1>7. Append(g[k - 1], all[k].text) \in Seq(T)
  BY <1>6
<1>8. g[k] \in Seq(T)
  BY <1>5, <1>6, <1>7
<1> QED
  BY <1>2, <1>8

\* What has run is the same when a call goes on or ends without being recorded, and gets the
\* statement of the call that is.
LEMMA RanSame ==
  ASSUME NEW n \in Nat, NEW all, NEW all2, NEW js, NEW x, Len(all) = n + 1,
         Len(all2) = n + 1 \/ (Len(all2) = n + 2 /\ ~Counts(all2[n + 2], js[n + 2], x)),
         \A k \in 1 .. n + 1 : /\ Counts(all2[k], js[k], x) <=> Counts(all[k], js[k], x)
                               /\ Counts(all2[k], js[k], x) => all2[k].text = all[k].text
  PROVE  RanOf(all2, js, x) = RanOf(all, js, x)
<1>0. Len(all) \in Nat /\ Len(all2) \in Nat
  OBVIOUS
<1>1. \E g : Collects(g, Len(all), all, js, x)
  BY <1>0, CollectExists
<1>2. \E g : Collects(g, Len(all2), all2, js, x)
  BY <1>0, CollectExists
<1>3. PICK g : Collects(g, n + 1, all, js, x) /\ RanOf(all, js, x) = g[n + 1]
  BY <1>1 DEF RanOf
<1>4. PICK h : Collects(h, Len(all2), all2, js, x) /\ RanOf(all2, js, x) = h[Len(all2)]
  BY <1>2 DEF RanOf
<1>5. h[Len(all2)] = h[n + 1]
  <2>1. CASE Len(all2) = n + 2
    <3>1. n + 2 \in 1 .. n + 2 /\ n + 2 - 1 = n + 1 /\ n + 2 \in Nat
      OBVIOUS
    <3>2. \A k \in 1 .. n + 2 : h[k] = IF Counts(all2[k], js[k], x) THEN Append(h[k - 1], all2[k].text) ELSE h[k - 1]
      BY <1>4, <2>1, <3>1, CollectFacts
    <3> QED BY <2>1, <3>1, <3>2
  <2> QED BY <2>1
<1>6. h[n + 1] = g[n + 1]
  <2>1. n + 1 \in 0 .. Len(all2) /\ Len(all2) \in Nat /\ n + 1 \in Nat
    OBVIOUS
  <2>2. \A k \in 1 .. n + 1 : /\ Counts(all[k], js[k], x) <=> Counts(all2[k], js[k], x)
                              /\ Counts(all[k], js[k], x) => all[k].text = all2[k].text
    OBVIOUS
  <2> QED BY <1>3, <1>4, <2>1, <2>2, CollectSame
<1> QED
  BY <1>3, <1>4, <1>5, <1>6

LEMMA RanMore ==
  ASSUME NEW n \in Nat, NEW all, NEW all2, NEW js, NEW x, Len(all) = n + 1, Len(all2) = n + 1,
         \A k \in 1 .. n : all2[k] = all[k], ~Counts(all[n + 1], js[n + 1], x), Counts(all2[n + 1], js[n + 1], x)
  PROVE  RanOf(all2, js, x) = Append(RanOf(all, js, x), all2[n + 1].text)
<1>1. PICK g : Collects(g, n + 1, all, js, x) /\ RanOf(all, js, x) = g[n + 1]
  <2>1. \E g : Collects(g, Len(all), all, js, x)
    BY CollectExists
  <2> QED BY <2>1 DEF RanOf
<1>2. PICK h : Collects(h, n + 1, all2, js, x) /\ RanOf(all2, js, x) = h[n + 1]
  <2>1. \E h : Collects(h, Len(all2), all2, js, x)
    BY CollectExists
  <2> QED BY <2>1 DEF RanOf
<1>3. PICK f : Collects(f, n, all, js, x)
  BY CollectExists
<1>4. n + 1 \in Nat /\ n + 1 \in 1 .. n + 1 /\ n + 1 - 1 = n /\ n \in 0 .. n + 1
  OBVIOUS
<1>5. g[n] = f[n]
  BY <1>1, <1>3, <1>4, CollectSame
<1>6. h[n] = f[n]
  <2>1. \A k \in 1 .. n : /\ Counts(all[k], js[k], x) <=> Counts(all2[k], js[k], x)
                          /\ Counts(all[k], js[k], x) => all[k].text = all2[k].text
    OBVIOUS
  <2> QED BY <1>2, <1>3, <1>4, <2>1, CollectSame
<1>7. g[n + 1] = g[n]
  BY <1>1, <1>4, CollectFacts
<1>8. h[n + 1] = Append(h[n], all2[n + 1].text)
  <2> DEFINE m == n + 1
  <2>1. m \in Nat \ {0} /\ m - 1 = n /\ Collects(h, m, all2, js, x) /\ Counts(all2[m], js[m], x)
    BY <1>2
  <2> HIDE DEF m
  <2>2. h[m] = Append(h[n], all2[m].text)
    BY <2>1, CollectLast
  <2> QED BY <2>2 DEF m
<1> QED
  BY <1>1, <1>2, <1>5, <1>6, <1>7, <1>8

LEMMA RanIs ==
  ASSUME NEW w, NEW x
  PROVE  /\ Ran(w, x) = RanOf(Append(done[w], call[w]), jobs[w], x)
         /\ Ran(w, x)' = RanOf(Append(done'[w], call'[w]), jobs'[w], x)
<1>1. Ran(w, x) = RanOf(Append(done[w], call[w]), jobs[w], x)
  BY DEF Ran, RanOf, Collects, Counts
<1>2. Ran(w, x)' = RanOf(Append(done'[w], call'[w]), jobs'[w], x)
  BY DEF Ran, RanOf, Collects, Counts
<1> QED
  BY <1>1, <1>2
-----------------------------------------------------------------------------
\* The statements the goroutines that use a context have run with it.
Texts(x) == UNION {ToSet(Ran(w, x)) : w \in Users(x)}

\* The records say what has run, and a list that is about to be written back says what has run
\* too; it is the whole record if nobody else uses the context.
RecordInv ==
  LogFunc => \A x \in Contexts :
    /\ \A w \in Workers : Users(x) = {w} => record[x] = Ran(w, x)
    /\ ToSet(record[x]) \subseteq Texts(x)
    /\ \A w \in Workers :
         call[w].at = "recordWrite" /\ Request(w).ctx = x =>
           /\ Users(x) = {w} => call[w].list = record[x]
           /\ ToSet(call[w].list) \subseteq Texts(x)

LEMMA RanTyped ==
  ASSUME TypeOK, NEW w \in Workers, NEW x
  PROVE  Ran(w, x) \in Seq(SqlTexts \union {NoTemplate})
<1> DEFINE all == Append(done[w], call[w])
           n == Len(all)
<1>1. all \in Seq(Calls)
  BY DEF TypeOK
<1> HIDE DEF all
<1>2. n \in Nat /\ \A k \in 1 .. n : all[k].text \in SqlTexts \union {NoTemplate}
  <2>1. n \in Nat /\ \A k \in 1 .. n : all[k] \in Calls
    BY <1>1
  <2> QED BY <2>1 DEF Calls
<1> HIDE DEF n
<1>3. PICK g : Collects(g, n, all, jobs[w], x) /\ RanOf(all, jobs[w], x) = g[n]
  <2>1. \E g : Collects(g, n, all, jobs[w], x)
    BY <1>2, CollectExists
  <2> QED BY <2>1 DEF RanOf, n
<1>4. g[n] \in Seq(SqlTexts \union {NoTemplate})
  BY <1>2, <1>3, CollectTyped
<1> QED
  BY <1>3, <1>4, RanIs DEF all

\* Nothing is recorded by a step that leaves the records alone.
LEMMA RanKept ==
  ASSUME TypeOK, NEW w \in Workers, NEW x \in Contexts, NEW v \in Workers, NEW e \in Calls, UNCHANGED jobs,
         \/ /\ call' = [call EXCEPT ![w] = e] /\ UNCHANGED done
            /\ Counts(e, Request(w), x) <=> Counts(call[w], Request(w), x)
            /\ Counts(e, Request(w), x) => e.text = call[w].text
         \/ Ends(w, e)
  PROVE  Ran(v, x)' = Ran(v, x)
<1>2. CASE v # w
  <2>1. call'[v] = call[v] /\ done'[v] = done[v]
    BY <1>2 DEF TypeOK, Ends
  <2> QED BY <2>1, RanIs
<1> DEFINE n == Len(done[w])
           all == Append(done[w], call[w])
           all2 == Append(done'[w], call'[w])
           js == jobs[w]
<1>3. /\ n \in Nat /\ Len(all) = n + 1 /\ all[n + 1] = call[w] /\ js[n + 1] = Request(w)
      /\ \A k \in 1 .. n : all[k] = done[w][k]
  BY DEF TypeOK, Request
<1>4. \A k \in 1 .. n + 1 : k \in 1 .. n \/ k = n + 1
  BY <1>3
<1>5. Ran(w, x) = RanOf(all, js, x) /\ Ran(w, x)' = RanOf(all2, js, x)
  BY RanIs
<1>6. ASSUME NEW c \in Calls, call' = [call EXCEPT ![w] = c], UNCHANGED done,
             Counts(c, Request(w), x) <=> Counts(call[w], Request(w), x),
             Counts(c, Request(w), x) => c.text = call[w].text
      PROVE  Ran(w, x)' = Ran(w, x)
  <2>1. Len(all2) = n + 1 /\ all2[n + 1] = c /\ \A k \in 1 .. n : all2[k] = done[w][k]
    BY <1>6 DEF TypeOK
  <2> HIDE DEF n, all, all2, js
  <2>2. \A k \in 1 .. n + 1 : /\ Counts(all2[k], js[k], x) <=> Counts(all[k], js[k], x)
                              /\ Counts(all2[k], js[k], x) => all2[k].text = all[k].text
    BY <1>3, <1>4, <1>6, <2>1
  <2>3. RanOf(all2, js, x) = RanOf(all, js, x)
    BY <1>3, <2>1, <2>2, RanSame
  <2> QED BY <1>5, <2>3
<1>7. ASSUME NEW d \in Calls, Ends(w, d)
      PROVE  Ran(w, x)' = Ran(w, x)
  <2>1. /\ Len(all2) = n + 2 /\ all2[n + 1] = d /\ all2[n + 2] = Idle
        /\ \A k \in 1 .. n : all2[k] = done[w][k]
    <3>1. done[w] \in Seq(Calls) /\ done'[w] = Append(done[w], d) /\ call'[w] = Idle
      BY <1>7 DEF Ends, TypeOK
    <3>2. Idle \in Calls
      BY DEF Idle, Calls, Steps
    <3>3. done'[w] \in Seq(Calls) /\ Len(done'[w]) = n + 1 /\ done'[w][n + 1] = d
          /\ \A k \in 1 .. n : done'[w][k] = done[w][k]
      BY <3>1
    <3> HIDE DEF n
    <3> QED BY <1>3, <3>1, <3>2, <3>3
  <2>2. ~Counts(Idle, js[n + 2], x)
    BY DEF Counts, Idle
  <2>3. /\ Counts(d, Request(w), x) <=> Counts(call[w], Request(w), x)
        /\ Counts(d, Request(w), x) => d.text = call[w].text
    BY <1>7 DEF Ends, Counts
  <2> HIDE DEF n, all, all2, js
  <2>4. \A k \in 1 .. n + 1 : /\ Counts(all2[k], js[k], x) <=> Counts(all[k], js[k], x)
                              /\ Counts(all2[k], js[k], x) => all2[k].text = all[k].text
    BY <1>3, <1>4, <2>1, <2>3
  <2>5. RanOf(all2, js, x) = RanOf(all, js, x)
    BY <1>3, <2>1, <2>2, <2>4, RanSame
  <2> QED BY <1>5, <2>5
<1> QED
  BY <1>2, <1>6, <1>7

\* The statement that is recorded has run, and nothing else.
LEMMA RanGrows ==
  ASSUME TypeOK, NEW w \in Workers, NEW x \in Contexts, NEW v \in Workers, NEW c \in Calls,
         UNCHANGED <<jobs, done>>, call' = [call EXCEPT ![w] = c],
         call[w].at = "recordWrite", c.at = "convert", c.text = call[w].text,
         c.text \notin Failing \union {NoTemplate}
  PROVE  Ran(v, x)' = IF v = w /\ Request(w).ctx = x THEN Append(Ran(v, x), c.text) ELSE Ran(v, x)
<1>1. CASE v # w
  <2>1. call'[v] = call[v] /\ done'[v] = done[v]
    BY <1>1 DEF TypeOK
  <2> QED BY <1>1, <2>1, RanIs
<1> DEFINE n == Len(done[w])
           all == Append(done[w], call[w])
           all2 == Append(done'[w], call'[w])
           js == jobs[w]
<1>2. /\ n \in Nat /\ Len(all) = n + 1 /\ all[n + 1] = call[w] /\ js[n + 1] = Request(w)
      /\ Len(all2) = n + 1 /\ all2[n + 1] = c /\ \A k \in 1 .. n : all2[k] = all[k]
  BY DEF TypeOK, Request
<1>3. Ran(w, x) = RanOf(all, js, x) /\ Ran(w, x)' = RanOf(all2, js, x)
  BY RanIs
<1>4. ~Counts(call[w], Request(w), x) /\ (Counts(c, Request(w), x) <=> Request(w).ctx = x)
  BY DEF Counts
<1> HIDE DEF n, all, all2, js
<1>5. CASE Request(w).ctx = x
  <2>1. RanOf(all2, js, x) = Append(RanOf(all, js, x), all2[n + 1].text)
    BY <1>2, <1>4, <1>5, RanMore
  <2> QED BY <1>1, <1>2, <1>3, <1>5, <2>1
<1>6. CASE Request(w).ctx # x
  <2>1. \A k \in 1 .. n + 1 : k \in 1 .. n \/ k = n + 1
    BY <1>2
  <2>2. \A k \in 1 .. n + 1 : /\ Counts(all2[k], js[k], x) <=> Counts(all[k], js[k], x)
                              /\ Counts(all2[k], js[k], x) => all2[k].text = all[k].text
    BY <1>2, <1>4, <1>6, <2>1
  <2>3. RanOf(all2, js, x) = RanOf(all, js, x)
    BY <1>2, <2>2, RanSame
  <2> QED BY <1>1, <1>3, <1>6, <2>3
<1> QED
  BY <1>5, <1>6

LEMMA RecordStart == Init => RecordInv
<1> SUFFICES ASSUME Init, NEW x \in Contexts PROVE
      /\ \A w \in Workers : Users(x) = {w} => record[x] = Ran(w, x)
      /\ ToSet(record[x]) \subseteq Texts(x)
      /\ \A w \in Workers : call[w].at # "recordWrite"
  BY DEF RecordInv
<1>1. record[x] = <<>> /\ \A w \in Workers : call[w] = Idle /\ done[w] = <<>>
  BY DEF Init
<1>2. ASSUME NEW w \in Workers PROVE Ran(w, x) = <<>>
  <2> DEFINE all == Append(done[w], call[w])
  <2>1. all = Append(<<>>, Idle)
    BY <1>1
  <2>2. Len(all) = 1 /\ all[1] = Idle
    BY <2>1
  <2>3. ~Counts(Idle, jobs[w][1], x)
    BY DEF Counts, Idle
  <2> HIDE DEF all
  <2>4. PICK g : Collects(g, 1, all, jobs[w], x) /\ RanOf(all, jobs[w], x) = g[1]
    <3>1. \E g : Collects(g, 1, all, jobs[w], x)
      BY CollectExists
    <3> QED BY <2>2, <3>1 DEF RanOf
  <2>5. g[1] = g[0] /\ g[0] = <<>>
    <3>1. \A k \in 1 .. 1 : g[k] = IF Counts(all[k], jobs[w][k], x) THEN Append(g[k - 1], all[k].text) ELSE g[k - 1]
      BY <2>4, CollectFacts
    <3>2. g[0] = <<>>
      BY <2>4, CollectFacts
    <3> QED BY <2>2, <2>3, <3>1, <3>2
  <2> QED BY <2>4, <2>5, RanIs DEF all
<1>3. \A w \in Workers : call[w].at # "recordWrite"
  BY <1>1 DEF Idle
<1>4. ToSet(<<>>) = {}
  BY DEF ToSet
<1> QED
  BY <1>1, <1>2, <1>3, <1>4

LEMMA RecordStep == TypeOK /\ WorkInv /\ RecordInv /\ [Next]_vars => RecordInv'
<1> SUFFICES ASSUME TypeOK, WorkInv, RecordInv, [Next]_vars, LogFunc PROVE RecordInv'
  BY DEF RecordInv
<1>0. jobs' = jobs /\ \A x : Users(x)' = Users(x)
  BY StepWork DEF Next, MapFault, Stopped, vars, Moves, Ends, Users
<1>1. ASSUME record' = record, \A x \in Contexts, v \in Workers : Ran(v, x)' = Ran(v, x),
             \A v \in Workers : call'[v].at = "recordWrite" =>
               \/ call'[v] = call[v] /\ Request(v)' = Request(v)
               \/ Request(v)' = Request(v) /\ call'[v].list = record[Request(v).ctx]
      PROVE  RecordInv'
  <2>1. \A x : Users(x) \subseteq Workers
    BY DEF Users
  <2>2. \A x \in Contexts : Texts(x)' = Texts(x)
    BY <1>0, <1>1, <2>1 DEF Texts
  <2> QED BY <1>0, <1>1, <2>2 DEF RecordInv
<1>2. ASSUME NEW w \in Workers, NEW c \in Calls, Moves(w, c) PROVE RecordInv'
  <2>1. /\ \A v \in Workers : call'[v] = IF v = w THEN c ELSE call[v]
        /\ UNCHANGED <<jobs, done>> /\ \A v \in Workers : Request(v)' = Request(v)
        /\ call' = [call EXCEPT ![w] = c]
    BY <1>2 DEF Moves, TypeOK, Request
  <2>2. CASE /\ record' = record
             /\ \A x \in Contexts :
                  /\ Counts(c, Request(w), x) <=> Counts(call[w], Request(w), x)
                  /\ Counts(c, Request(w), x) => c.text = call[w].text
             /\ c.at = "recordWrite" => c.list = record[Request(w).ctx]
    <3>1. ASSUME NEW x \in Contexts, NEW v \in Workers PROVE Ran(v, x)' = Ran(v, x)
      <4>1. /\ call' = [call EXCEPT ![w] = c] /\ UNCHANGED done
            /\ Counts(c, Request(w), x) <=> Counts(call[w], Request(w), x)
            /\ Counts(c, Request(w), x) => c.text = call[w].text
        BY <2>1, <2>2
      <4> QED BY <1>0, <4>1, RanKept
    <3> QED BY <1>1, <2>1, <2>2, <3>1
  <2>3. CASE /\ record' = [record EXCEPT ![Request(w).ctx] = Append(call[w].list, call[w].text)]
             /\ call[w].at = "recordWrite" /\ c.at = "convert" /\ c.text = call[w].text
    <3> DEFINE y == Request(w).ctx
               T == SqlTexts \union {NoTemplate}
    <3>1. /\ y \in Contexts /\ call[w].list \in Seq(T) /\ c.text \in T
          /\ c.text \notin Failing \union {NoTemplate} /\ w \in Users(y)
      <4>1. y \in Contexts /\ call[w] \in Calls
        BY <2>3 DEF TypeOK
      <4>2. UnderWay(call[w], Request(w)) /\ call[w].text \in SqlTexts \ Failing
        BY <2>3 DEF WorkInv, UnderWay, Before
      <4>3. Len(done[w]) + 1 \in DOMAIN jobs[w]
        <5>1. jobs[w] \in Seq(Requests) /\ done[w] \in Seq(Calls) /\ Len(done[w]) < Len(jobs[w])
          BY <2>3 DEF TypeOK
        <5> QED BY <5>1
      <4>4. w \in Users(y)
        BY <4>3 DEF Users, Request
      <4> QED BY <2>3, <4>1, <4>2, <4>4, NilAssumption DEF Calls
    <3>2. \A x \in Contexts : record'[x] = IF x = y THEN Append(call[w].list, c.text) ELSE record[x]
      BY <2>3, <3>1 DEF TypeOK
    <3> HIDE DEF y
    <3>3. ASSUME NEW x \in Contexts, NEW v \in Workers
          PROVE  Ran(v, x)' = IF v = w /\ x = y THEN Append(Ran(v, x), c.text) ELSE Ran(v, x)
      BY <2>1, <2>3, <3>1, RanGrows DEF y
    <3>4. \A s \in Seq(T) : ToSet(Append(s, c.text)) = ToSet(s) \union {c.text}
      <4>1. ASSUME NEW s \in Seq(T) PROVE ToSet(Append(s, c.text)) = ToSet(s) \union {c.text}
        <5>1. DOMAIN Append(s, c.text) = 1 .. Len(s) + 1 /\ DOMAIN s = 1 .. Len(s) /\ Len(s) \in Nat
          OBVIOUS
        <5>2. /\ \A k \in 1 .. Len(s) : Append(s, c.text)[k] = s[k]
              /\ Append(s, c.text)[Len(s) + 1] = c.text
          OBVIOUS
        <5>3. \A k \in 1 .. Len(s) + 1 : k \in 1 .. Len(s) \/ k = Len(s) + 1
          BY <5>1
        <5> QED BY <5>1, <5>2, <5>3 DEF ToSet
      <4> QED BY <4>1
    <3>5. \A x \in Contexts, v \in Workers : Ran(v, x) \in Seq(T)
      BY RanTyped
    <3>6. \A x : Users(x) \subseteq Workers
      BY DEF Users
    <3>7. ASSUME NEW x \in Contexts
          PROVE  Texts(x) \subseteq Texts(x)' /\ (x = y => c.text \in Texts(x)')
      <4>1. \A v \in Users(x) : ToSet(Ran(v, x)) \subseteq ToSet(Ran(v, x)')
        BY <3>3, <3>4, <3>5, <3>6
      <4>2. x = y => c.text \in ToSet(Ran(w, x)') /\ w \in Users(x)
        BY <3>1, <3>3, <3>4, <3>5
      <4>3. Texts(x)' = UNION {ToSet(Ran(v, x)') : v \in Users(x)}
        BY <1>0 DEF Texts, ToSet
      <4> QED BY <4>1, <4>2, <4>3 DEF Texts
    <3>8. ASSUME NEW x \in Contexts
          PROVE  /\ \A v \in Workers : Users(x) = {v} => record'[x] = Ran(v, x)'
                 /\ ToSet(record'[x]) \subseteq Texts(x)'
                 /\ \A v \in Workers :
                      call'[v].at = "recordWrite" /\ Request(v).ctx = x =>
                        /\ Users(x) = {v} => call'[v].list = record'[x]
                        /\ ToSet(call'[v].list) \subseteq Texts(x)'
      <4>1. /\ \A v \in Workers : Users(x) = {v} => record[x] = Ran(v, x)
            /\ ToSet(record[x]) \subseteq Texts(x)
            /\ \A v \in Workers :
                 call[v].at = "recordWrite" /\ Request(v).ctx = x =>
                   /\ Users(x) = {v} => call[v].list = record[x]
                   /\ ToSet(call[v].list) \subseteq Texts(x)
        BY DEF RecordInv
      <4>2. ASSUME NEW v \in Workers, Users(x) = {v} PROVE record'[x] = Ran(v, x)'
        <5>1. CASE x = y
          <6>1. v = w /\ call[w].list = record[x] /\ record[x] = Ran(w, x)
            BY <2>3, <3>1, <4>1, <4>2, <5>1 DEF y
          <6> QED BY <3>2, <3>3, <5>1, <6>1
        <5>2. CASE x # y
          BY <3>2, <3>3, <4>1, <4>2, <5>2
        <5> QED BY <5>1, <5>2
      <4>3. ToSet(record'[x]) \subseteq Texts(x)'
        <5>1. CASE x = y
          <6>1. ToSet(call[w].list) \subseteq Texts(x)
            BY <2>3, <4>1, <5>1 DEF y
          <6> QED BY <3>1, <3>2, <3>4, <3>7, <5>1, <6>1
        <5>2. CASE x # y
          BY <3>2, <3>7, <4>1, <5>2
        <5> QED BY <5>1, <5>2
      <4>4. ASSUME NEW v \in Workers, call'[v].at = "recordWrite", Request(v).ctx = x
            PROVE  /\ Users(x) = {v} => call'[v].list = record'[x]
                   /\ ToSet(call'[v].list) \subseteq Texts(x)'
        <5>1. v # w /\ call'[v] = call[v]
          BY <2>1, <2>3, <4>4
        <5>2. Users(x) = {v} => x # y
          BY <3>1, <5>1
        <5> QED BY <3>2, <3>7, <4>1, <4>4, <5>1, <5>2
      <4> QED BY <4>2, <4>3, <4>4
    <3>9. ASSUME NEW x \in Contexts
          PROVE  /\ \A v \in Workers : Users(x)' = {v} => record'[x] = Ran(v, x)'
                 /\ ToSet(record'[x]) \subseteq Texts(x)'
                 /\ \A v \in Workers :
                      call'[v].at = "recordWrite" /\ Request(v)'.ctx = x =>
                        /\ Users(x)' = {v} => call'[v].list = record'[x]
                        /\ ToSet(call'[v].list) \subseteq Texts(x)'
      BY <1>0, <2>1, <3>8
    <3> QED BY <3>9 DEF RecordInv
  <2>4. Records(w, c)
    BY <1>2 DEF Moves
  <2> QED BY <2>2, <2>3, <2>4 DEF Records
<1>3. ASSUME NEW w \in Workers, NEW d \in Calls, Ends(w, d) PROVE RecordInv'
  <2>1. /\ \A v \in Workers : call'[v] = IF v = w THEN Idle ELSE call[v]
        /\ \A v \in Workers : v # w => Request(v)' = Request(v)
        /\ record' = record /\ Idle.at # "recordWrite"
    BY <1>3 DEF Ends, TypeOK, Request, Idle
  <2>2. \A x \in Contexts, v \in Workers : Ran(v, x)' = Ran(v, x)
    BY <1>0, <1>3, RanKept
  <2> QED BY <1>1, <2>1, <2>2
<1>4. CASE UNCHANGED <<jobs, call, done, record>>
  <2>1. \A x \in Contexts, v \in Workers : Ran(v, x)' = Ran(v, x)
    BY <1>4, RanIs
  <2> QED BY <1>1, <1>4, <2>1 DEF Request
<1> QED
  BY <1>2, <1>3, <1>4, StepWork DEF Next, MapFault, Stopped, vars

\* The record of a context that one goroutine uses has the statements of its calls, once each and
\* in their order, those that failed after it included, and no record ever has a statement nobody
\* ran: for any goroutines, contexts and requests.
THEOREM RecordsRight == Spec => []RecordsKept
<1>1. Inv => TypeOK
  BY DEF Inv
<1>2. RecordInv => RecordsKept
  BY DEF RecordInv, RecordsKept, Texts
<1> QED
  BY <1>1, <1>2, InitInv, InvStep, WorkStarts, WorkStep, RecordStart, RecordStep, PTL DEF Spec
=============================================================================
