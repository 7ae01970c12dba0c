------------------------------ MODULE QueryCall ------------------------------
(***************************************************************************)
(* One statement from its text to its result, for the two ways there are   *)
(* to run one.  SqlTemplate.Query and Exec (entry "template") look the     *)
(* template of their call site up in a map all goroutines share and build  *)
(* it there when it is missing; a function bound by InitDBFunc (entry      *)
(* "bound") has its template.  Both then execute the template, record the  *)
(* statement, convert its arguments, send it, and scan the rows into the   *)
(* result.                                                                 *)
(*                                                                         *)
(* Nothing of this takes a lock, so every access to tdb.template, to       *)
(* tempScanDest and to a record's list is a step of its own.  A map write  *)
(* during another access to the map is what the runtime may stop the       *)
(* program for (MapFault); when it does not, the accesses happen one after *)
(* the other.                                                              *)
(***************************************************************************)
EXTENDS Naturals, Sequences, SequencesExt, FiniteSets

CONSTANTS
  Workers,    \* goroutines
  Jobs,       \* for each goroutine the sequences of requests it may make, one after the other
  Sites,      \* call sites of SqlTemplate.Query and Exec: a pc and a line
  Contexts,   \* contexts that carry a RecordSql
  NoContext,  \* a context without one
  SqlTexts,   \* SQL templates
  Unparsable, \* the texts ParseSql refuses
  Failing,    \* the texts whose execution fails
  NoMap,      \* a nil map
  NoTemplate, \* a nil *Template
  LogFunc     \* whether tdb.sqlLogFunc is set

(* A request: how it is made and what its rows are.  Without many the      *)
(* result takes one row; with byReference rows are scanned through a       *)
(* pointer or into a map; with ignored a column of the rows has no field.  *)
Requests ==
  [entry : {"template", "bound"}, kind : {"query", "one", "exec"}, site : Sites, text : SqlTexts,
   ctx : Contexts \union {NoContext},
   args : Seq({"plain", "json", "unmarshalable", "registered", "refused"}),
   many : BOOLEAN, byReference : BOOLEAN, ignored : BOOLEAN, rows : Seq({"good", "bad"})]

ASSUME JobsAssumption == Jobs \in [Workers -> SUBSET Seq(Requests)]
ASSUME NilAssumption ==
  /\ NoMap \notin SqlTexts /\ NoMap \notin BOOLEAN /\ NoTemplate \notin SqlTexts
  /\ NoMap \notin [Sites -> SqlTexts \union {NoMap, NoTemplate}]
  /\ NoContext \notin Contexts

VARIABLES
  jobs,      \* the requests of each goroutine
  call,      \* the call each goroutine is in
  done,      \* the calls each goroutine has returned from
  template,  \* tdb.template: for each site no map, no template or the text it was parsed from
  temp,      \* tempScanDest, for the one type of the ignored columns: NoMap, FALSE or TRUE
  record,    \* RecordSql.List of each context
  fatal      \* the runtime found a concurrent map access and stopped the program

vars == <<jobs, call, done, template, temp, record, fatal>>

Request(w) == jobs[w][Len(done[w]) + 1]

------------------------------------------------------------------------------
(* Steps at which a call is about to write one of the two shared maps, or  *)
(* to read it.                                                             *)
TemplateWrites == {"makeInner", "store"}
TemplateReads  == {"inner", "line", "fetch"}
TempWrites     == {"tempStore"}
TempReads      == {"tempFind", "tempReturn"}

(* Nobody is between seeing something missing and putting it there.        *)
Settled(s) ==
  /\ template # NoMap /\ template[s] \notin {NoMap, NoTemplate}
  /\ \A w \in Workers : call[w].at \notin {"makeOuter", "makeInner", "parse", "store"}
TempSettled ==
  /\ temp = TRUE
  /\ \A w \in Workers : call[w].at \notin {"tempMake", "tempStore"}

Idle == [at |-> "idle", text |-> NoTemplate, list |-> <<>>, arg |-> 1, row |-> 1,
         result |-> <<>>, cut |-> FALSE, nilDest |-> FALSE,
         settled |-> FALSE, tempSettled |-> FALSE, outcome |-> "none"]

Init ==
  /\ jobs \in {js \in [Workers -> UNION {Jobs[w] : w \in Workers}] : \A w \in Workers : js[w] \in Jobs[w]}
  /\ call = [w \in Workers |-> Idle]
  /\ done = [w \in Workers |-> <<>>]
  /\ template = NoMap /\ temp = NoMap
  /\ record = [c \in Contexts |-> <<>>]
  /\ fatal = FALSE

At(w, step) == ~fatal /\ call[w].at = step
Go(w, step) == call' = [call EXCEPT ![w].at = step]

(* The call returns: Query gives a zero value with an error, a bound       *)
(* function the results it has so far.                                     *)
Finished(c, r, outcome) ==
  [c EXCEPT !.outcome = outcome, !.at = "idle",
            !.result = IF outcome # "ok" /\ r.entry = "template" THEN <<>> ELSE @]

Return(w, outcome) ==
  /\ done' = [done EXCEPT ![w] = Append(@, Finished(call[w], Request(w), outcome))]
  /\ call' = [call EXCEPT ![w] = Idle]
  /\ UNCHANGED <<jobs, template, temp, record, fatal>>

Local == UNCHANGED <<jobs, done, template, temp, record, fatal>>

------------------------------------------------------------------------------
(* sqlTemplateBuild                                                        *)

Start(w) ==
  /\ At(w, "idle") /\ Len(done[w]) < Len(jobs[w])
  /\ LET r == Request(w) IN
     call' = [call EXCEPT ![w] =
       [Idle EXCEPT !.at = IF r.entry = "template" THEN "outer" ELSE "execute",
                    !.text = IF r.entry = "template" THEN NoTemplate ELSE r.text,
                    !.settled = r.entry = "template" /\ Settled(r.site),
                    !.tempSettled = TempSettled]]
  /\ Local

SeeOuter(w) ==
  /\ At(w, "outer")
  /\ Go(w, IF template = NoMap THEN "makeOuter" ELSE "inner")
  /\ Local

MakeOuter(w) ==
  /\ At(w, "makeOuter")
  /\ template' = [s \in Sites |-> NoMap]
  /\ Go(w, "inner")
  /\ UNCHANGED <<jobs, done, temp, record, fatal>>

SeeInner(w) ==
  /\ At(w, "inner")
  /\ Go(w, IF template[Request(w).site] = NoMap THEN "makeInner" ELSE "line")
  /\ Local

MakeInner(w) ==
  /\ At(w, "makeInner")
  /\ template' = [template EXCEPT ![Request(w).site] = NoTemplate]
  /\ Go(w, "line")
  /\ UNCHANGED <<jobs, done, temp, record, fatal>>

(* The template is parsed whether it is there or not.                      *)
SeeLineBug(w) == At(w, "line") /\ Go(w, "parse") /\ Local

(* A missing line of a map that is not there any more reads as missing.    *)
SeeLine(w) ==
  /\ At(w, "line")
  /\ Go(w, IF template[Request(w).site] \in {NoMap, NoTemplate} THEN "parse" ELSE "fetch")
  /\ Local

(* A text that does not parse is tried again.                              *)
ParseSqlBug(w) ==
  /\ At(w, "parse")
  /\ Go(w, IF Request(w).text \in Unparsable THEN "line" ELSE "store") /\ Local

ParseSql(w) ==
  /\ At(w, "parse")
  /\ \/ Request(w).text \in Unparsable /\ Return(w, "error")
     \/ Request(w).text \notin Unparsable /\ Go(w, "store") /\ Local

(* Another goroutine may have put a new outer map in place: the inner one  *)
(* is nil then and the assignment panics.                                  *)
Store(w) ==
  LET s == Request(w).site IN
  /\ At(w, "store")
  /\ \/ template[s] = NoMap /\ Return(w, "panic")
     \/ /\ template[s] # NoMap
        /\ template' = [template EXCEPT ![s] = Request(w).text]
        /\ Go(w, "fetch")
        /\ UNCHANGED <<jobs, done, temp, record, fatal>>

Fetch(w) ==
  LET s == Request(w).site IN
  /\ At(w, "fetch")
  /\ \/ template[s] \in {NoMap, NoTemplate} /\ Return(w, "panic")  \* Execute of a nil template
     \/ /\ template[s] \notin {NoMap, NoTemplate}
        /\ call' = [call EXCEPT ![w].at = "execute", ![w].text = template[s]]
        /\ Local

------------------------------------------------------------------------------
(* The template's execution and sqlPrintAndRecord.  The append of a record *)
(* reads the list and writes it back.                                      *)
Recorded(w) == LogFunc /\ Request(w).ctx # NoContext

Execute(w) ==
  /\ At(w, "execute")
  /\ \/ call[w].text \in Failing /\ Return(w, "error")
     \/ call[w].text \notin Failing /\ Go(w, IF Recorded(w) THEN "recordRead" ELSE "convert") /\ Local

RecordRead(w) ==
  /\ At(w, "recordRead")
  /\ call' = [call EXCEPT ![w].at = "recordWrite", ![w].list = record[Request(w).ctx]]
  /\ Local

(* The record takes the text of the request, not the one that was run.     *)
RecordWriteBug(w) ==
  /\ At(w, "recordWrite")
  /\ record' = [record EXCEPT ![Request(w).ctx] = Append(call[w].list, Request(w).text)]
  /\ Go(w, "convert")
  /\ UNCHANGED <<jobs, done, template, temp, fatal>>

RecordWrite(w) ==
  /\ At(w, "recordWrite")
  /\ record' = [record EXCEPT ![Request(w).ctx] = Append(call[w].list, call[w].text)]
  /\ Go(w, "convert")
  /\ UNCHANGED <<jobs, done, template, temp, fatal>>

(* ConvertValue: what the driver takes is left alone, a value with a       *)
(* registered converter goes through it, any other struct, map or slice    *)
(* becomes JSON.  ret[1] of a converter is a value of type error, valid    *)
(* also when the error is nil, and the assertion on a nil error panics.    *)
ConvertValue(arg) ==
  CASE arg \in {"plain", "json"}            -> "ok"
    [] arg \in {"unmarshalable", "refused"} -> "error"
    [] arg = "registered"                   -> "panic"

ConvertValues(w) ==
  LET args == Request(w).args IN
  /\ At(w, "convert")
  /\ IF call[w].arg > Len(args) THEN Go(w, "send") /\ Local
     ELSE \/ ConvertValue(args[call[w].arg]) # "ok" /\ Return(w, ConvertValue(args[call[w].arg]))
          \/ /\ ConvertValue(args[call[w].arg]) = "ok"
             /\ call' = [call EXCEPT ![w].arg = @ + 1]
             /\ Local

------------------------------------------------------------------------------
(* exec and queryOption                                                    *)

Exec(w) ==
  /\ At(w, "send") /\ Request(w).kind = "exec"
  /\ \E outcome \in {"ok", "error"} : Return(w, outcome)

QueryContext(w) ==
  /\ At(w, "send") /\ Request(w).kind # "exec"
  /\ \/ Return(w, "error")
     \/ Go(w, "columns") /\ Local

ColumnTypes(w) ==
  /\ At(w, "columns")
  /\ \/ Return(w, "error")
     \/ Go(w, "next") /\ Local

Whole(i) == [row |-> i, whole |-> TRUE]
Partial(i) == [row |-> i, whole |-> FALSE]

(* A slice takes every row at its end, anything else the last one.         *)
Placed(result, r, item) == IF r.many THEN Append(result, item) ELSE <<item>>

(* rows.Next and the part of GetScanDest that is the call's own: a pointer *)
(* or a map is put in the result before the row is scanned into it.        *)
(* rows.Next is false at the end, and also when the iteration was cut      *)
(* short: rows.Err is not looked at.                                       *)
NextRow(w) ==
  LET r == Request(w)
      c == call[w] IN
  /\ At(w, "next")
  /\ \/ /\ c.row <= Len(r.rows)
        /\ call' = [call EXCEPT ![w].at = IF r.ignored THEN "temp" ELSE "scan",
                                ![w].result = IF r.byReference THEN Placed(@, r, Partial(c.row)) ELSE @]
        /\ Local
     \/ c.row > Len(r.rows) /\ Return(w, "ok")

Cut(w) ==
  /\ At(w, "next") /\ call[w].row <= Len(Request(w).rows)
  /\ done' = [done EXCEPT ![w] = Append(@, Finished([call[w] EXCEPT !.cut = TRUE], Request(w), "ok"))]
  /\ call' = [call EXCEPT ![w] = Idle]
  /\ UNCHANGED <<jobs, template, temp, record, fatal>>

(* getTempScanDest, for a column no field takes.                           *)
SeeTemp(w) ==
  /\ At(w, "temp")
  /\ Go(w, IF temp = NoMap THEN "tempMake" ELSE "tempFind")
  /\ Local

MakeTemp(w) ==
  /\ At(w, "tempMake")
  /\ temp' = FALSE
  /\ Go(w, "tempFind")
  /\ UNCHANGED <<jobs, done, template, record, fatal>>

FindTemp(w) ==
  /\ At(w, "tempFind")
  /\ Go(w, IF temp = TRUE THEN "scan" ELSE "tempStore")
  /\ Local

StoreTemp(w) ==
  /\ At(w, "tempStore")
  /\ temp' = TRUE
  /\ Go(w, "tempReturn")
  /\ UNCHANGED <<jobs, done, template, record, fatal>>

(* The destination is read from the map again, which may be a new one.     *)
ReturnTemp(w) ==
  /\ At(w, "tempReturn")
  /\ call' = [call EXCEPT ![w].at = "scan", ![w].nilDest = temp # TRUE]
  /\ Local

(* The break of a function of one row is missing.                          *)
ScanBug(w) ==
  LET r == Request(w)
      c == call[w] IN
  /\ At(w, "scan")
  /\ \/ (r.rows[c.row] = "bad" \/ c.nilDest) /\ Return(w, "error")
     \/ /\ r.rows[c.row] # "bad" /\ ~c.nilDest
        /\ call' = [call EXCEPT ![w].at = "next", ![w].row = @ + 1,
                                ![w].result = IF r.byReference
                                              THEN [@ EXCEPT ![Len(@)] = Whole(c.row)]
                                              ELSE Placed(@, r, Whole(c.row))]
        /\ Local

(* rows.Scan, and the functions GetScanDest left to run after it.          *)
Scan(w) ==
  LET r == Request(w)
      c == call[w] IN
  /\ At(w, "scan")
  /\ \/ (r.rows[c.row] = "bad" \/ c.nilDest) /\ Return(w, "error")
     \/ /\ r.rows[c.row] # "bad" /\ ~c.nilDest
        /\ call' = [call EXCEPT ![w].at = IF r.kind = "one" THEN "break" ELSE "next",
                                ![w].row = @ + 1,
                                ![w].result = IF r.byReference
                                              THEN [@ EXCEPT ![Len(@)] = Whole(c.row)]
                                              ELSE Placed(@, r, Whole(c.row))]
        /\ Local

SelectOne(w) == At(w, "break") /\ Return(w, "ok")

------------------------------------------------------------------------------
MapFault ==
  /\ ~fatal
  /\ \E v, w \in Workers :
       /\ v # w
       /\ \/ call[v].at \in TemplateWrites /\ call[w].at \in TemplateWrites \union TemplateReads
          \/ call[v].at \in TempWrites /\ call[w].at \in TempWrites \union TempReads
  /\ fatal' = TRUE
  /\ UNCHANGED <<jobs, call, done, template, temp, record>>

Over == fatal \/ \A w \in Workers : Len(done[w]) = Len(jobs[w])
Stopped == Over /\ UNCHANGED vars

Build(w) == \/ SeeOuter(w) \/ MakeOuter(w) \/ SeeInner(w) \/ MakeInner(w)
            \/ SeeLine(w) \/ ParseSql(w) \/ Store(w) \/ Fetch(w)
Run(w)   == \/ Execute(w) \/ RecordRead(w) \/ RecordWrite(w) \/ ConvertValues(w)
            \/ Exec(w) \/ QueryContext(w) \/ ColumnTypes(w)
Rows(w)  == \/ NextRow(w) \/ Cut(w) \/ SeeTemp(w) \/ MakeTemp(w) \/ FindTemp(w)
            \/ StoreTemp(w) \/ ReturnTemp(w) \/ Scan(w) \/ SelectOne(w)

Step(w) == Start(w) \/ Build(w) \/ Run(w) \/ Rows(w)

Next == (\E w \in Workers : Step(w)) \/ MapFault \/ Stopped

Spec == Init /\ [][Next]_vars

(* Every goroutine gets its turn.                                          *)
FairSpec == Spec /\ \A w \in Workers : WF_vars(Step(w))

------------------------------------------------------------------------------
(* The values of every variable; a call in progress has a request.         *)
Steps ==
  {"idle", "outer", "makeOuter", "inner", "makeInner", "line", "parse", "store", "fetch",
   "execute", "recordRead", "recordWrite", "convert", "send", "columns",
   "next", "temp", "tempMake", "tempFind", "tempStore", "tempReturn", "scan", "break"}
Calls ==
  [at : Steps, text : SqlTexts \union {NoTemplate}, list : Seq(SqlTexts \union {NoTemplate}), arg : Nat \ {0}, row : Nat,
   result : Seq([row : Nat, whole : BOOLEAN]), cut : BOOLEAN, nilDest : BOOLEAN,
   settled : BOOLEAN, tempSettled : BOOLEAN, outcome : {"none", "ok", "error", "panic"}]

TypeOK ==
  /\ jobs \in [Workers -> Seq(Requests)]
  /\ call \in [Workers -> Calls] /\ done \in [Workers -> Seq(Calls)]
  /\ \A w \in Workers :
       /\ Len(done[w]) <= Len(jobs[w])
       /\ call[w].at # "idle" => Len(done[w]) < Len(jobs[w])
       /\ call[w].at \in {"inner", "makeInner", "line", "parse", "store", "fetch"} => template # NoMap
       /\ call[w].at \in {"recordRead", "recordWrite"} => Request(w).ctx \in Contexts
  /\ template \in {NoMap} \union [Sites -> SqlTexts \union {NoMap, NoTemplate}]
  /\ temp \in {NoMap} \union BOOLEAN
  /\ record \in [Contexts -> Seq(SqlTexts \union {NoTemplate})]
  /\ fatal \in BOOLEAN

(* A call that begins when the template of its site is there and nobody is *)
(* building one finds it, whatever the others do, and so does every later  *)
(* one: the map is not replaced under them.  The same for the shared       *)
(* destination of ignored columns.                                         *)
SettledServed ==
  \A w \in Workers : \A k \in DOMAIN done[w] :
    /\ done[w][k].settled => done[w][k].text = template[jobs[w][k].site]
    /\ done[w][k].tempSettled => ~done[w][k].nilDest

(* What a call that comes to the rows gives back is what was scanned: all  *)
(* of the rows, in their order, for a slice, the last of them (the first   *)
(* for a function of one row) otherwise.  Three things the code does are   *)
(* let through: a cut iteration counts as the whole of it (rows.Err is not *)
(* looked at); with an error a bound function gives the rows before the    *)
(* failing one and, when rows are scanned through a pointer or into a map, *)
(* the failing one itself, not whole; and a call panics, before any row,   *)
(* for a template lost to another goroutine or a registered converter,     *)
(* also one that README.md:433-457 shows as working.                       *)
Rows1To(n) == [i \in 1 .. n |-> Whole(i)]
Kept(r, items) == IF r.many \/ items = <<>> THEN items ELSE <<Last(items)>>
ResultsTrue ==
  \A w \in Workers : \A k \in DOMAIN done[w] :
    LET d == done[w][k]
        r == jobs[w][k]
        failed == d.outcome = "error" /\ d.row <= Len(r.rows) /\ (r.rows[d.row] = "bad" \/ d.nilDest)
        scanning == d.result # <<>> \/ d.row > 1
    IN \/ r.entry = "template" /\ d.outcome # "ok" /\ d.result = <<>>
       \/ d.outcome = "ok" /\ d.result = Kept(r, Rows1To(d.row - 1))
          /\ (d.cut \/ r.kind = "exec" \/ d.row - 1 = IF r.kind = "one" /\ r.rows # <<>> THEN 1 ELSE Len(r.rows))
       \/ d.outcome = "error" /\ ~scanning
       \/ failed /\ d.result = Kept(r, Rows1To(d.row - 1) \o IF r.byReference THEN <<Partial(d.row)>> ELSE <<>>)
       \/ /\ d.outcome = "panic" /\ ~scanning
          /\ d.text = NoTemplate \/ r.args[d.arg] = "registered"

(* The record of a context that one goroutine uses has the statements of   *)
(* its calls, those that failed later included, once each and in their     *)
(* order; every recorded statement was executed by some call.              *)
Ran(w, c) ==
  LET all == Append(done[w], call[w])
      Has(k) == /\ all[k].text \notin Failing \union {NoTemplate}
                /\ all[k].at \notin {"execute", "recordRead", "recordWrite"}
                /\ jobs[w][k].ctx = c
      upTo[k \in 0 .. Len(all)] ==
        IF k = 0 THEN <<>> ELSE IF Has(k) THEN Append(upTo[k - 1], all[k].text) ELSE upTo[k - 1]
  IN upTo[Len(all)]
Users(c) == {w \in Workers : \E k \in DOMAIN jobs[w] : jobs[w][k].ctx = c}
RecordsKept ==
  LogFunc => \A c \in Contexts :
    /\ \A w \in Workers : Users(c) = {w} => record[c] = Ran(w, c)
    /\ ToSet(record[c]) \subseteq UNION {ToSet(Ran(w, c)) : w \in Users(c)}

(* Every call of every goroutine comes to its end.                         *)
EveryCallEnds == \A w \in Workers : <>(fatal \/ Len(done[w]) = Len(jobs[w]))

==============================================================================
