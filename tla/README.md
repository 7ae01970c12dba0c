# A TLA+ model of tgsql

`tgsql` is a Go library that turns SQL templates written in comments of a struct into
functions over `database/sql`. This directory models the parts of it whose correctness
depends on the order in which things happen, checks the models with TLC and proves the
properties that matter most with TLAPS. Source paths below are relative to the repository.

## 1. Inventory

| Component | Source | State | Operations | Correct when |
|---|---|---|---|---|
| Transactions and recovery | `sql_tx.go`, `sql_recover.go` | two context keys (`*sql.Tx`, `*bool` recover flag), the `sql.Tx` | `Begin`, `BeginTx`, `AutoCommit`, `Commit`, `Rollback`, `NewRecover`, `Recover`, `enableRecover` | a nil error means committed; the panic `handleErr` raises for a failed database function never ends in a commit; every transaction is ended by its frame |
| Generated functions | `makefunc_context.go`, `sql_error.go`, `sql_option.go`, `sql_context_templatedb.go` | per call: `op`, `err`, `results`, the pooled connection | the closure of `makeDBFuncContext`, `handleErr`, `SqlTemplate.Query`/`Exec` | connections go back on every path; failures are reported the way the signature says |
| Batch insert | `makefunc_context.go:94-208`, `tgensql.go:84-102,174-186` | `op.offset/sql/args/stmt`, `preSql`, `stmtMap` | `changeOp`, prepare, execute per row, deferred closes | every row once, with its own statement; errors stop and are reported |
| Query and scan | `tgensql.go:111-147`, `sqlval/` | rows iterator, scan destinations, a package-level cache | `queryOption`, `GetScanDest`, `ConvertValues` | all rows or an error |
| Call-site cache, SQL record | `tgensql.go:194-227`, `sql_record.go` | `tdb.template[pc][line]`, `RecordSql.List` | `sqlTemplateBuild`, `sqlPrintAndRecord` | the template executed is the one of the SQL passed |
| Pre-processor | `template/parse/pre_handle*.go`, `sql_lex.go` | token list, bracket counter, column names | `handleOption`, `handleAtsign`, `handleFiledName`, `handleInsertColumns/Values` | `[..]`, `@x`, `?` mean what the README says |
| Lexer | `template/parse/lex.go` | position, start, line, paren depth, items | the state functions, `emit`, `errorf`, `nextItem` | items tile the text and fit the grammar; it ends |
| Parser | `template/parse/parse.go` | look-ahead buffer, variables, tree set, the call stack | `next`, `peek`, `backup`, `parse*` | every token is parsed once and in its place; scopes are those of the text |
| Template execution | `template/exec.go`, `sqlwrite/`, `sql_func.go` | variable stack, depth, text and arguments written | `walk*`, `eval*`, `printValue`, `WriteParam` | placeholders and arguments correspond; variables are those in scope |
| Template set | `template/template.go`, `helper.go`, `option.go` | `common.tmpl`, `parseFuncs`, two locks | `New`, `Parse`, `Lookup`, `Funcs`, `Clone`, `AddParseTree` | a set may be used by several goroutines |
| Loading and binding | `load/`, `makefunc_context.go:221-319` | registry of statements by struct and function | `LoadFuncDataInfo*`, `InitDBFunc`, `checkAllDBFuncSet` | every function field gets its own statement or the load fails |
| Interpolation | `util/sqlescape.go` | argument position | `InterpolateParams` | n-th placeholder gets n-th argument |

How they interact. `InitDBFunc` parses each loaded comment (pre-processor, parser) into a
template and installs a closure of `makeDBFuncContext`. A call of that closure looks the
transaction up in its context, or takes a connection from the pool; it executes the
template (which writes SQL text and arguments), interpolates if asked to, and runs the
statement. If it fails it returns the error, or, when its signature has no error result,
sets the recover flag of its context and panics; the `AutoCommit` or `Recover` deferred by an
enclosing function finds the flag through its own context and turns the panic into an
error. Contexts, the recover flag and the connection pool are what goroutines share.

Hard parts: panics unwinding through frames that commit or roll back; nested `Begin`s that
share one transaction; a flag shared by goroutines and never reset; a bounded pool;
cancellation ending a transaction behind its owner's back; a loop over rows in which four
variables about "the current row" change at different points; caches without locks. They
are listed by line under `hazards` in `PROJECT.json`.

## 2. Modules

| Module | What it is |
|---|---|
| `TxFrames` | goroutines, frames, panics, transactions, the recover flag, the pool |
| `TxFramesProof` | its inductive invariant and theorems |
| `BatchInsert` | one call of a batch function, statement by statement |
| `BatchContract` | what such a call promises: rows in order, none left out |
| `BatchInsertProof` | its invariants, and that it implements `BatchContract` |
| `QueryCall` | goroutines running statements: call-site cache, record, arguments, rows, scan destinations |
| `QueryCallProof` | that settled calls are served, that results and records are right, for any goroutines |
| `FuncBinding` | loading of SQL comments, `InitDBFunc`, calls of the bound functions in between |
| `FuncBindingProof` | that the registry is what was loaded, and fields get their own functions, which run, for any program of loads and initialisations |
| `PreHandle` | the pre-processor of statements: brackets, `@name`, `?`, columns of an INSERT |
| `PreHandleProof` | what it writes, and that a `?` of an INSERT gets its column, for statements of any length |
| `Lexer` | the lexer, and `handleFiledName` reading one action through it |
| `LexerProof` | its safety properties, for texts of any length |
| `Parser` | the recursive-descent parser and its token buffers |
| `ParserProof` | that it parses every token once and in place, that accepted texts are closed and use variables in scope, for texts of any length and nesting |
| `SqlFuncs` | values, the SQL writer, the SQL functions, interpolation (no state of its own) |
| `TemplateExec` | the walk of a template into an SQL writer (extends `SqlFuncs`) |
| `TemplateExecProof` | that variables keep to their scope, loops start right, and placeholders, parameters and separators correspond, for any programs and data |

Each state machine `M` has a module `MCM` that gives its constants values for TLC. A statement
passes through `PreHandle` and `Lexer` (text to items), `Parser` (items to trees), `FuncBinding`
(trees to functions), `TemplateExec` (a tree and data to text and parameters), `QueryCall` or
`BatchInsert` (text to results), inside the frames of `TxFrames`. The places where one
assumes something of another are named: `Parser!Fits` is what `Lexer!ItemsFit` establishes,
`QueryCall` and `BatchInsert` reduce a template to what its execution can do (succeed, fail).

### TxFrames

A *task* is a goroutine running user code; a *frame* is a user function that opened with
`Begin` and `defer AutoCommit(ctx, &err)`, or with `NewRecover` and `defer Recover(ctx,
&err)`. A context is reduced to the two values the package looks up in it. The named error
of a frame is a Boolean; the user may keep or overwrite it after every call (`TakeErr`).

| Code | Definition |
|---|---|
| `BeginTx`: joined / waiting for the pool / opened / failed | `BeginJoins`, `BeginWaits`, `BeginOpens`, `BeginFails` |
| `NewRecover` ... `defer Recover` | `RecoverFrame` |
| closure of `makeDBFuncContext`, `SqlTemplate.Query/Exec`: choice of transaction or pool, `db.Conn`, the rest | `StartCall`, `GetConn` / `GetConnFails`, `CallOk` / `CallFails` |
| `handleErr` | `HandleErr`; before `results` is allocated, the branch of `GetConnFails` |
| a panic inside the closure that `handleErr` does not raise: nil `results`, the assertion in `ConvertValue` | `RuntimePanic`, of `GetConnFails` and of `CallFails`: no flag is set |
| `AutoCommit` up to its `recover()`, `Recover` | `Defer` |
| `AutoCommit`: `tx.Rollback()` / `*err = tx.Commit()` | `Ending` with `RollbackAtEnd`, `CommitAtEnd` |
| `Commit`, `Rollback` called by the user | `UserEnds` |
| leaving the function, further unwinding | `Pop` |
| cancellation of the transaction's context (`database/sql`) | `CancelTx` |

`AutoCommit` is two steps, `Defer` and `Ending`, because another goroutine can set the
shared flag, and the cancellation can end the transaction, in between.

### BatchInsert

A row is what `templateBuild` makes of it: an SQL text, a failure of the template (which
leaves `op` as the row before left it) or a failure of the interpolation (which empties
`op.sql`). `ChangeOp`, `Prepare`/`PrepareFails`, `Exec`/`ExecFails` are the three parts
of the loop body, `EndRound` its exit; `UseTx`/`OpenConn`/`OpenConnFails`, `Check` and
`CloseStmts`/`CloseConn` are the code before and the deferred calls after it. `sent` records
which row was executed with the statement of which text; the code keeps no such record.

`BatchContract` is the view of the database: `Deliver` the next row, `Redeliver` the last
one, `Succeed` when all have arrived, `Fail` at any time. `Contract` instantiates it with
`size <- Len(req.rows)`, `arrived <-` the rows of `sent`, `status <-` the outcome, for
batches whose rows render to one text; other batches stay at the contract's start, because
of the second of the disagreements in section 5 that have no run.

### QueryCall

A goroutine works through a list of requests, each a statement with its call site, its
arguments and what its rows are. Every access to state that goroutines share is a step of its
own: `tdb.template` (an outer map by program counter, an inner by line; `NoMap` is nil,
`NoTemplate` a missing entry), the package-level `tempScanDest`, and the list of a `RecordSql`.

| Code | Definition |
|---|---|
| `sqlTemplateBuild` | `SeeOuter`, `MakeOuter`, `SeeInner`, `MakeInner`, `SeeLine`, `ParseSql`, `Store`, `Fetch` |
| template execution; `sqlPrintAndRecord` | `Execute`; `RecordRead`, `RecordWrite` (the append reads and writes) |
| `ConvertValues` | `ConvertValues`, one argument a step |
| `exec`; `queryOption` up to the rows | `Exec`; `QueryContext`, `ColumnTypes` |
| the row loop, `GetScanDest`, `selectOne` | `NextRow`, `Cut`, `Scan`, `SelectOne` |
| `getTempScanDest` | `SeeTemp`, `MakeTemp`, `FindTemp`, `StoreTemp`, `ReturnTemp` |
| the Go runtime stopping the program at a concurrent map access | `MapFault` |

`Cut` is an iteration that ends because of an error: `rows.Err` is not looked at.

### FuncBinding

A program is a list of loads and initialisations, made by one goroutine; `Call` is a function
called by any other at any moment. `LoadFuncDataInfoBytes`, `LoadDir`/`LoadDirEnd` are the
loader; `Begin`, `AddParse` (parse of one statement), `AddTree` (one tree of it enters the set, in
any order: they come out of a map), `Bind` and `checkAllDBFuncSet` are `InitDBFunc`. A set is a
function from names to trees; `bound` is what a field holds. A function keeps the template it was bound to
whatever enters the set later, with one exception: the set is created with a template named like the
struct type (`TypeName`, `Root`), and a tree of that name is put into that very template (`Overwritten`),
under the function that has it. A file is the list of its comments, a
text its body, what it calls and what it defines. `served` is a ghost: the statements the last whole
initialisation of a struct went through, which is what `SettledRuns` may rely on (the registry
may have more by the time a function is called).

### PreHandle

A statement is a sequence of tokens, each what one call of `sqlLexer.nextItem` yields; an
action in braces is one token (`Lexer` has its inside). `mode` is the handler at work; every
step consumes one token, so that the handlers' private lexers and the `l.pos += pos` that bring
them together are one position, `pos`.

| Code | Definition |
|---|---|
| `handleAtsign` | `AtsignItem`, `AtsignOption` (calls `handleOption`), `AtsignInsert` (calls `handleInsertColumns`), `AtsignEnd` |
| `handleOption`, and the `if` `handleAtsign` puts around what it returns | `OptionItem`, `OptionBracket`, `OptionEnd` with `Wrapped` |
| `handleInsertColumns` | `ColumnsItem`, `ColumnsEnd` |
| `handleInsertValues` | `ValuesItem` with `ValuesMark` and `NextSlot`, `ValuesEnd` |

Output is a sequence of pieces, text or field, `if` or `end`, each with the position of the
token it is for; the condition of an `if` is its list of arguments, each the names that are written
without a space between them: `@a` and `@b` in one option are the one argument `@a@b` (`Joined`). The properties compare
pieces with the tokens at their positions, so they say what a statement means without a
second copy of the handlers.

### Lexer

A text is a sequence of classes of characters; delimiters, comment marks and keywords are one
glyph each. There is an action for every state function (`lexText`, `lexLeftDelim`, `lexComment`,
`lexRightDelim`, `lexInsideAction`, `lexSpace`, `lexIdentifier`, `lexFieldOrVariable`, `lexNumber`,
`lexQuoted`), with the position, the line, the line of the item and the depth of parentheses it
leaves behind. The lexer has two readers: the parser takes every item, and `handleFiledName`
(`HandleItem`, `Rewritten`, `Cond`) reads up to the right delimiter and rewrites the action:
names become fields, a comma closes the action and opens the next. `hasFunction` is
constantly false, as it is in the program (finding 3).

### Parser

The calls in progress are a stack of frames; an action is what a function does between two of
its calls or token reads. A tree in progress has the three-token buffer (`token`, `peekCount`)
and the variables; the trees of `define` and `block` stand on top of the one they interrupt and
read the same items. `Peek`, `Use`, `Hold` and `backup3` are the buffer's operations; `Unexpected`
collects every refusal. `taken` is a ghost: the places of the items the grammar has used. What the
lexer promises is a condition on the input (`Fits`, with `InputAssumption`), said with counts of
delimiters and parentheses as `Lexer!ItemsFit` says it.

### SqlFuncs and TemplateExec

A value is its kind, a number that tells it from others of its kind, and its elements; `boxed`
is a value inside an interface, as the elements of `map[string]any` are. A writer is a sequence of
tokens with a sequence of parameters; a placeholder remembers, as a ghost, the value it was
written for. `WriteParam`, `Separated` and an operator per function (`inParameter`, `setParameter`, `whereParameter`, `like`, ...)
are `sqlwrite` and `sql_func.go`; `InterpolateParams` is the counting of
`util/sqlescape.go`.

The walk is a stack of frames (`walkText`, `walkAction`, `walkIfOrWith`, `walkRange`,
`oneIteration`, `leave` for the deferred `pop`, `lookupTemplate`, `walkTemplate`, `return`); `evalCommand`, `evalArg`,
`evalCall` and `endPipeline` evaluate a pipeline. Each template in execution has its stack of
variables (`states`); the marks `pop` goes back to are in the frames. `scope` is a ghost: the
names the lists around have declared. Programs are made of `Nodes` and `Pipes`; `ProgramAssumption` is
what the parser makes sure of: a command has a word, its operands are of the kinds the parser makes
(`Operands`), a function it names was looked up, and a range declares two variables at most. A question mark
that a template holds as text is the token `raw?`, so that the two users of `?`, the writer and
the interpolation, can be told apart. `DataAssumption` says what data are (`Parts`): the keys of a map and the
fields of a struct are distinct, and a writer given as data is empty. The
assignment at the end of a pipeline is said at once for all its variables: the loop of
`evalPipeline` gives every one of them the same value.

## 3. Runs

| Run | Checks | Shows |
|---|---|---|
| `tx_any` | `TypeOK`, `ConnAccounting`, `NoOrphanTx`, `NilMeansCommitted` | whatever contexts and panic values users choose: connections are accounted for, an active transaction has a frame that ends it (or its owner unwinds with a non-error value), nil means committed |
| `tx_live` | `NoHoldAndWait`, `WaitersServed`, `TxsEnd`, `DbPanicNeverCommits` | if every call gets the context of its frame, and the connections of one task may fail: no task waits for a connection while it holds one, the panic that `handleErr` raises never unwinds through a commit, every waiter is served, every transaction ends |
| `batch_rows` | `RowMatchesStmt`, `Released`, `Terminates`, `Contract` | any rows, any failures: no row with the statement of another, everything released, an end, and the contract |
| `batch_once` | `EachRowOnce` (violated) | finding 1 |
| `query_calls` | `SettledServed`, `ResultsTrue`, `RecordsKept`, `EveryCallEnds` | whatever two goroutines do to the three shared places: a call that finds its template and destination settled is served, records are of statements that ran, calls end; a success has given the rows of the statement up to the last or to an iteration that an error cut short, an error in a row those before it (and, by reference, that row in part), and a panic is one of a template lost to another goroutine or of a registered converter (section 5) |
| `func_bindings` | `RegistryTrue`, `BoundTrue`, `SettledRuns`, `SetsApart` | repeated and failing loads and initialisations: the registry is what was loaded, a field has the tree of its statement at every moment, and not that of a later one unless it is named like the struct type, initialised functions run, and nothing changes the templates of functions bound before |
| `pre_statements` | `TypeOK`, `InOrder`, `NothingLost`, `MarkNamesWord`, `FieldsGuarded`, `SlotsMatchColumns` | any brackets, balanced or not: tokens keep their order, what is read is written but for brackets and an `@` that is no parameter, all is read unless such an `@` before a digit, outside the options, ends the statement there, a `?` is named after the identifier before it, an `if` asks for all the parameters of its text or has an argument the lexer refuses; in an INSERT, with or without `INTO`, a table and spaces, a `?` of the first tuple gets the column at its place, at any depth of parentheses |
| `pre_apart` | `OptionsApart` (violated) | finding 2 |
| `lex_texts` | `Tiled`, `LinesTrue`, `ItemsFit`, `BodyDelimited`, `Terminates` | items make up the text with what may be skipped, carry their line, and are what the parser relies on; a rewritten action stays in its delimiters; lexing ends unless an `@` stands before a digit or the end |
| `lex_calls` | `CallsKept` (violated) | finding 3 |
| `parse_texts` | `TokensInOrder`, `Closed`, `ScopeRespected`, `Terminates` | through all look-ahead every token is parsed once and in place, accepted texts are closed and use variables in scope, parsing ends |
| `exec_programs` | `ScopeRespected`, `LoopVariables`, `PlaceholdersMatch`, `SeparatorsAlternate`, `InterpolatedInPlace` | the variable stack holds the names in scope, an iteration starts with its own item, text and parameters stay paired, in the statement and inside every fragment, and after interpolation (not that a fragment becomes part of the statement: it does not, section 5); a function called with items that are not nil puts one separator between two placeholders (an action property, of the step that makes the call) |

`Lexer`, `Parser`, `TemplateExec`, `QueryCall`, `FuncBinding` and `BatchInsert` also state a `TypeOK`: it says
what the variables range over, and is what proofs about them start from (those of
`BatchInsert`, `QueryCall`, `FuncBinding` and `Lexer` are proved).

Bounds.

* Transactions. Two tasks and one connection are the smallest instance in which tasks compete
  for the pool and share a recover flag; with a second connection nothing waits. `MaxDepth = 2`
  gives a nested `Begin` in a joined transaction, an inner `Recover`, and an inner frame whose
  outcome the outer one sees; `MaxOps = 3` allows two frames and a call, explicit end or
  panic in the inner one. `ErrorPanics` leaves the re-raised values out of `tx_live` because they
  leave transactions behind (hazard `sql_tx.go:57`); there the connections of one task (`Hasty`) may
  fail; those of the other never do, so that it is served only if others give back what they hold.
* Batches. Three rows are enough for a batch that repeats a text after another one; there are
  two texts.
* Query calls. Two goroutines on one call site; one makes two calls with texts of their own, or one
  with rows, arguments or failures of every kind; the other makes one that writes the template, the
  record or the scan destination. Two rows are the fewest in which the first is scanned and the
  second fails.
* Bindings. Two struct types, one with two functions and a `*TgenSql`; directories of two entries,
  with and without a subdirectory; statements that share, redefine, or lack a template. One struct type is
  named like one of its functions, and a statement of its other function defines a template of that name.
* Statements of five tokens hold an option with a parameter, a name for it and a token on each
  side, or two options; the INSERTs have one column and nothing else, or two with words and spaces before
  INSERT, before the list, in it and behind it, and up to five tokens of values.
* Texts. Up to five glyphs behind a delimiter over each part of the alphabet: delimiters with
  trim marks and comments, words and numbers, operators and quotes, lists of fields. Programs of the
  parser are three (of six kinds, four) actions with the ends they lack, and single actions of any four items.
* Templates. One control around up to two nodes or a control, with every pipeline, behind a declaration of the same
  name or not; calls with a recursion cut at depth two; every function with up to two arguments.

Fairness. `FairSpec` of `TxFrames` is weak fairness of each task outside idle periods (a
user function that was called returns, a statement is answered) and strong fairness of
being handed a connection: `database/sql` keeps a queue of requests and gives a freed
connection to one of them. `FairSpec` of `BatchInsert` and of `QueryCall` is weak fairness of the next step
of a call: nothing in them waits for another goroutine, and the Go scheduler gives each its turn.
`Lexer` and `Parser` are sequential functions: weak fairness says that the function that was called runs.

## 4. Proofs

There is a proof module for every state machine. All theorems
hold for every value of the constants that satisfies the assumptions named in the modules:
bounds are naturals, types have names, and model values differ (`BoundsAssumption`, `TypeNameAssumption`, `FlagsAssumption`,
`DistinctAssumption`, `NilAssumption`, `MainAssumption`, `MaxExecDepthAssumption`), requests, files, programs and
texts are of their types (`RowsAssumption`, `JobsAssumption`, `LayoutAssumption`, `ProgramsAssumption`,
`ProgramAssumption`, `DataAssumption`, the `InputAssumption`s). That of `Parser` includes `Fits`, which
`ItemsFitGrammar` proves of the lexer; the last two theorems of `TxFramesProof` assume `Disciplined`.

| Module | Theorem | Property |
|---|---|---|
| `TxFramesProof` | `TypeCorrect`, `ConnectionsAccounted`, `TransactionsOwned`, `SuccessIsCommitted` | `TypeOK`, `ConnAccounting`, `NoOrphanTx`, `NilMeansCommitted` |
| | `WaitersHoldNothing`, `DbPanicRollsBack` | `NoHoldAndWait`, `DbPanicNeverCommits` |
| `BatchInsertProof` | `TypeCorrect`, `StatementsMatchRows`, `EverythingReleased`, `ContractImplemented` | `TypeOK`, `RowMatchesStmt`, `Released`, `Contract` |
| `QueryCallProof` | `TypeCorrect`, `SettledSafe`, `ResultsRight`, `RecordsRight` | `TypeOK`, `SettledServed`, `ResultsTrue`, `RecordsKept` |
| `FuncBindingProof` | `TypeCorrect`, `FieldsBound`, `InitialisedRuns`, `OldSetsKept`, `RegistryKept` | `TypeOK`, `BoundTrue`, `SettledRuns`, `SetsApart`, `RegistryTrue` |
| `PreHandleProof` | `TypeCorrect`, `OrderKept`, `TokensKept`, `MarksTakeWords`, `ParametersAsked`, `MarksTakeColumns` | `TypeOK`, `InOrder`, `NothingLost`, `MarkNamesWord`, `FieldsGuarded`, `SlotsMatchColumns` |
| `LexerProof` | `TypeCorrect`, `LinesRight`, `ItemsFitGrammar`, `ActionsDelimited`, `TextTiled` | `TypeOK`, `LinesTrue`, `ItemsFit`, `BodyDelimited`, `Tiled` |
| `ParserProof` | `TokensParsedInOrder`, `AcceptedTextsClosed`, `ScopesRespected` | `TokensInOrder`, `Closed`, `ScopeRespected` |
| `TemplateExecProof` | `ScopeKept`, `IterationsStartRight` | `ScopeRespected`, `LoopVariables` |
| | `PlaceholdersMatched`, `Interpolated`, `FragmentsSeparated` | `PlaceholdersMatch`, `InterpolatedInPlace`, `SeparatorsAlternate` |
| | `OneSeparatorEach` | of `Separated`, for any list of fragments |

**`TxFramesProof`.** None of the four invariants is inductive alone; `Inv` adds where a task can be
while it panics (`ControlInv`), that the name `Begin` picks is unused (`FreshInv`), that a frame's
transaction was opened (`OpenedInv`) and that an `AutoCommit` past its `recover()` has ended it
(`EndedInv`). The steps are grouped by what they may disturb: lemmas `TypeStep`, `ControlStep`,
`ConnStep`, `OpenedStep`, `EndedStep`, `OrphanStep`, `ReturnedStep`, put together in `InvStep`.
When every call gets the context of its frame, `DisciplineInv` is added: a frame with a transaction
gives it to every frame above it and all frames of a task share one cell (`ChainInv`), so that a task
with a transaction joins it and never waits (`WaitInv`), and the flag of a task that
panics with a failed function is set when the frame that ends its transaction looks (`FlagInv`). `DbPanicRollsBack`
is about the panics `handleErr` raises; a runtime panic inside a call sets no flag (section 5).

**`BatchInsertProof`.** `LoopInv`: `op.sql` is empty or the text of the row `op.args` came from, and
statements exist only while the connection does. `ContractImplemented` is the refinement, with
`UniformInv` counting executions against `offset` in a batch of one text.

**`QueryCallProof`.** `SettledServed` needs `Stable`: the site has its template, no goroutine is at
`makeOuter`, and none on the way to `makeInner`, `parse` or `store` is at the site. A settled call starts at a
stable site; every step of every goroutine leaves a stable site stable, with the same template
(`BuildForm`, `RunForm` and `RowsForm` bring each step to one of two forms, `Advanced` and `Returned`, which
`AdvancedKeeps` and `ReturnedKeeps` show to keep `Inv`). `TempStable` is the same for the scan destination.
The results need `WorkInv`: what a call under way has scanned is, one by one, the rows before the one
its iterator is at (`UnderWay`). The records need `RecordInv`, over what each goroutine has run so
far (`RanOf`): the record of one user is that list, and between the two halves of an append it is
still what was read.

**`FuncBindingProof`.** `SetInv` says of the set being filled, for every name, which tree it has by
then (`Content`): the last that is not empty of those dealt with, or the first when all are, in whatever order the trees of a
statement enter. `BoundInv` and `Settled` relate fields to statements: the fields of an initialised struct are bound, in a
set that has all the names its statements bring. That `Latest` chooses what `Content` describes
(`LatestIs`), and that the recursive functions of the loader give what they should, is by taking the
least index at which it fails. The function named like the struct type is followed through the
whole fill: when it is bound, and ever after, it has the tree the set has for its name (`OwnTree`, `CurrentOwn`), so
that `BoundTrue` says of it what was entered by now (`Entered`) instead of by its own statement. `RegInv` adds to `RegistryTrue` what a directory under way has read: every
load takes more at the end of what the loads before it took (`FlattenGrows`, `FlattenNext`), and the
comments of a type in two files are those of the one and then those of the other (`OfTypeJoined`).

**`PreHandleProof`.** The order needs `OptionInv`: while an option is open its pieces are in order and behind
its bracket, and what is outside is before it. Every step then appends one piece for the token it
consumes (`Written`) or puts the pieces of the option behind the others (`WrappedFacts`). `KeptInv` (what
is before `pos` has come out, or waits in the open option, and a statement that is over before its end is so
at an `@` that is no parameter), `KeyInv` (the key in hand is the name of the
last identifier) and `GuardInv` (the condition being built has every field of the option) give the next three.
`SlotsMatchColumns` needs `SlotInv`: in a well-formed INSERT the handlers are before INSERT, between it and the column list, in the list, with
the columns of the tokens read so far (`InColumns`, `Listed`), or in the first tuple, where the index and
the parentheses that `handleInsertValues` counts are those of the text (`InTuple`: `slot` is `Place`, `parens` is
`Depth`); an option that is opened later starts behind the tuple. Tokens are counted by `Cardinality`,
one token at a time (`SetNext`).

**`LexerProof`.** `Standing` is where a lexer that goes on stands: the position, both line counters
as numbers of newlines (`Lines`), the depth, and what the text has at the position for each
state. Every state function takes one of three forms, it emits an item (`Emits`), fails or moves on,
and the invariants of the properties are shown for the forms: lines, counts of delimiters and
parentheses (`FitInv`), the pieces of a rewritten action (`BodyInv`), and the text covered (`TileInv`).
Scans end because the set of places where they could has a least one.

**`ParserProof`.** `StackInv` says who calls whom. `TreesInv`: there is one tree for every call that makes
one, and the buffers of the trees that wait are empty, so that no token of an interrupted tree is
overtaken. `TokensInv`: used, held and pending tokens are in order and together all that was read
(`Tokens`), how much may be pending at each place of the grammar (`Buffer`; three only behind a variable), and what a
variable waits for before it is known to be a declaration (`Waits`).
`Closed` needs `NestInv`, which sets the stack against the text: the depth of controls at the last token used is the
number of frames a control or definition opened (`Level`), adjusted for what the frame on top has used
ahead of its caller; up to there it was never below nought, nor nought at an `{else}`, unless such a token
is about to be refused (`Floor`, `Doomed`); at the end of the input it is nought. `ScopeRespected` needs `ScopeInv`.
Every variable in `vars` of a tree, other than `$`, has a declaration that the parse still sees (`Sees`): no control
around it has ended since (`Steady`), templates begun since have ended or are under way in trees above (`InTree`), and
the frames that will leave it in `vars` when they end do not enclose it (`Around`); the marks that `EndControl`
cuts back to grow along the stack (`Marks`); every variable used so far was in scope (`Scoped`). A step that neither
declares, opens nor closes keeps all of it by one lemma; eight steps have one of their own.

**`TemplateExecProof`.** `FramesInv`: each frame by itself (`Alone`) and with its caller (`Over`): a `pop` and a
loop cut back to the length of the scope of the list below them, an evaluation took its mark
there. `VarsInv`: the frames of one execution count on more and more variables (`Low`), the names each counts on
are the first of its stack (`Holds`), the number of stacks is that of returns and one
(`Exec`), and under a return the caller's stack is its scope exactly. So a step that changes
only the last stack, above what the last frame counts on, disturbs nobody (`SetTop`, `CutBack`), and a list that is
walked on has exactly its scope (`Exact`). A loop starts an iteration with its variables on top, or,
when it assigns, somewhere in its scope (`Covers`); `IteratedFacts` is the rest of `LoopVariables`.
The other three rest on `DataInv`: every value that a frame, a variable or a parameter of the writer carries
is well-formed, and if it is a fragment its text and parameters match (`IsValue`, `Carried`, `VarsCarried`),
and a call that needs an argument has one (`Ready`). Each function of `SqlFuncs` has a lemma that it
gives such a value; the recursive ones (`Concat`, `Separated`, the position in `InterpolateParams`) are reasoned about
by the least index at which they would fail (`LeastNat`). `FragmentsSeparated` is of single steps: what a
call was given decides the separators of what it returns.

Only model-checked is all liveness, which is beyond the prover: `WaitersServed`, `TxsEnd`, `Terminates` (of
`BatchInsert`, `Lexer` and `Parser`) and `EveryCallEnds`. The three properties that the code violates (section 5)
are refuted by their runs. Every other property of a run is a theorem.

## 5. Findings

1. `makefunc_context.go:197`: the last row of a batch is executed twice (`batch_once`).
2. `template/parse/pre_handle.go:113`: two optional conditions become one; the first option
   runs on to the end of the statement (`pre_apart`).
3. `template/parse/parse.go:248`: a template is lexed, and pre-processed, before the functions it may
   call are set, so the name of a function becomes a field (`lex_calls`).

Seen while modelling, and part of the models, without a run of their own. The first four disagree with what
the documentation says, and the properties about the same code are worded so as not to claim it:

* `makefunc_context.go:67`: a function with an error result panics instead of returning the error when no
  connection can be had: `handleErr` indexes `results`, which is nil until line 90. README.md:327-328 takes the error
  from the result. In `TxFrames`, `RuntimePanic` of `GetConnFails`. No recover flag is set, so an `AutoCommit` that
  this panic, or the next one, unwinds through commits: `DbPanicNeverCommits` is of the panics `handleErr` raises only.
* `sqlval/convert_value.go:72`: every registered converter that returns a nil error panics, that of README.md:433-457
  included: the error is a valid `reflect.Value`, and a nil interface is asserted to be an error. In `QueryCall`,
  `ConvertValue`, and in `TxFrames`, `RuntimePanic` of `CallFails`. `ResultsTrue` admits this panic, before any row.
* `template/exec.go:1152`: all functions of `sql_func.go` that build text return a pointer to a writer;
  `printValue` follows the pointer and writes one placeholder whose parameter is the structure.
  README.md:119-124 says that `{param .id .user_name .age}` is three placeholders. In `TemplateExec`, `printed`.
  `PlaceholdersMatch` counts such a fragment as one parameter. (A statement meets this only once finding 3 is
  mended: until then the name of the function is a field.)
* `template/parse/pre_handle.go:127`: two `@name` in one option become the one argument `@a@b` of its `if`, which
  the lexer refuses, so that the statement does not parse. In `PreHandle`, `Joined`. `FieldsGuarded` takes such an
  argument as a refusal.

And further:

* `makefunc_context.go:185`: rows whose text differs from the first one's are skipped, although
  `:168` keeps a statement per text. In `BatchInsert`, `Prepare`.
* `makefunc_context.go:119`: the error of building a row is lost; `:180` would return it. In `BatchInsert`, `Build`.
* `tgensql.go:202`: a call site that passes a second text is served the template of the first. In `QueryCall`, `SeeLine`.
* `tgensql.go:146`: an iteration that an error cuts short is a success. In `QueryCall`, `Cut`.
* `template/parse/lex.go:425`: an `@` before a digit or the end makes empty numbers without end. `Lexer!Terminates` leaves such texts out.
* `load/all_load.go:70`: the name of a directory prefixes the files after it. In `FuncBinding`, `LoadDir`.
* `template/parse/pre_handle_sql.go:53`: the values of an INSERT lose every character other than comma and
  `?`, decimal points included. In `PreHandle`, `ValuesItem`.
* `template/template.go:164`: a tree named like the struct type is put into the template the set was created
  with: a function bound to it runs the later tree. In `FuncBinding`, `Overwritten`.
* `sql_func.go:190` and `:235`: `set` and `where` refuse a pointer to a struct; README.md:264-266 shows `{set .}` with
  `user *User`. In `SqlFuncs`, `setParameter` and `whereParameter`; no property says which data a function takes.

## 6. Plan

Done: the transactions, batch insert, pre-processor, lexer, parser, SQL functions, template
execution, query calls, loading and binding, each with its run.

Proved: every safety property and every action property of the runs, and the refinement of `BatchContract`.

What is left: the parts of section 7 that have decisions, which are the comparison functions of `funcs.go` and
`handleParam`'s pairing of arguments with names. Liveness stays with TLC.

## 7. Not modelled

Components without a module are in `PROJECT.json` with the reason. Inside the others:

* Transactions and calls: a nil error pointer passed to `AutoCommit` or `Recover`, contexts
  that carry a nil `*sql.Tx`, the argument binding of `handleParam` (reflection over a signature), stack traces.
* Query calls: which Go type scans which column (`scan.go`, `scan_json.go`); a row scans or fails.
* Pre-processor and lexer: the spelling of tokens; hexadecimal, imaginary and exponent forms of
  numbers; the loop at `pre_handle.go:59` that a malformed constant causes in the caller of
  `handleFiledName` (the model ends where that returns).
* Parser: `break` and `continue` (the pre-processor has made fields of them, so that
  `breakControl`, `continueControl` and their execution are unreachable), the construction and printing of nodes.
* Template execution: chains of fields (`.a.b`: one lookup after another, `exec.go:672`), the failure of
  `marshal` (`json.Marshal` refuses a value: the execution ends with an error, as that of any function), methods, function values, channels and iterators in the data, typed
  arguments of user functions, builtins that only compute (`eq`, `len`, `print`, ...), escaping.
* Template set: `Clone`, `Templates`, the file helpers, `Option`: nothing in the program calls them
  between two steps that matter.
* Interpolation: the bytes of one parameter (`util/sqlescape.go` quoting).
* `util`, `sql_common_type.go`, the example program and its tests, and the MySQL server.
