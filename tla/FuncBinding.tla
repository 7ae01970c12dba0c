----------------------------- MODULE FuncBinding -----------------------------
(***************************************************************************)
(* From SQL comments to functions that run.  The loader reads Go files and *)
(* keeps, for every struct type, the statements found in the comments of   *)
(* its function fields; InitDBFunc parses the statements of a type into    *)
(* one set of associated templates and puts a function into every field.   *)
(*                                                                         *)
(* One goroutine loads and initialises.  Others may call the functions of  *)
(* the same struct at any time, which matters when a struct is initialised *)
(* again: fields change one by one, and the trees of a text enter their    *)
(* set one by one, each under the lock of the set.                         *)
(***************************************************************************)
EXTENDS Naturals, Sequences, SequencesExt, FiniteSets, FiniteSetsExt

CONSTANTS
  Name,      \* names of fields, statements and templates
  Body,      \* bodies of templates, "" for one that is empty
  Types,     \* the struct types
  TypeName,  \* the name of each, which its set of templates is created with
  Layout,    \* for each type its fields in order, functions by name and Handle for a *TgenSql
  Handle,
  Unsuited,  \* the function fields with a parameter or result InitDBFunc refuses
  Programs,  \* the sequences of calls the program may make
  Nil,       \* a nil function or template
  NoFile     \* what reading a missing file gives

\* A text parses to trees: its own, named as the statement, and those of its define and
\* block actions, kept by their names.
Tree(name, body, calls) == [name |-> name, body |-> body, calls |-> calls]
Trees(info) == {Tree(info.name, info.text.body, info.text.calls)} \union info.text.defines

AnyTree == [name : Name, body : Body, calls : SUBSET Name]
Text    == [parses : BOOLEAN, body : Body, calls : SUBSET Name, defines : SUBSET AnyTree]
Comment == {c \in [type : Types, name : Name, text : Text] :
              \A t, u \in Trees(c) : t.name = u.name => t = u}
File    == [parses : BOOLEAN, comments : Seq(Comment)]
IsCall(p) ==
  \/ p.op = "loadBytes" /\ p.file \in File
  \/ /\ p.op = "loadDir" /\ p.entries \in Seq(ToSet(p.entries))
     /\ \A e \in ToSet(p.entries) : /\ e.dir \/ e.file \in File
                                    /\ \A n \in DOMAIN e.inside : e.inside[n] \in File
  \/ p.op = "init" /\ p.type \in Types

ASSUME LayoutAssumption ==
  /\ Layout \in [Types -> Seq(Name \union {Handle})] /\ Handle \notin Name /\ Unsuited \subseteq Name
ASSUME TypeNameAssumption == TypeName \in [Types -> Name]
ASSUME ProgramsAssumption == \A p \in Programs : p \in Seq(ToSet(p)) /\ \A k \in DOMAIN p : IsCall(p[k])
ASSUME NilAssumption == NoFile \notin File /\ Nil \notin AnyTree \union [set : Nat, tree : AnyTree]

VARIABLES
  program,   \* the calls the program makes, chosen at the start
  at,        \* [call, step, entry]: where the program is
  outcomes,  \* the outcome of every call made
  dirName,   \* the prefix of the files LoadFuncDataInfo reads
  registry,  \* sqlDataInfos: for each type its statements
  sets,      \* the template sets made, each a function from names to trees
  pending,   \* the parsed trees that are not in the set yet
  bound,     \* for each type and field the function in it: its set and its tree
  handle,    \* the types whose *TgenSql field is set
  run,       \* the last call of a function
  served     \* history: for each type the statements its last whole initialisation dealt with

vars == <<program, at, outcomes, dirName, registry, sets, pending, bound, handle, run, served>>

Op == program[at.call]
Running(op) == at.call <= Len(program) /\ Op.op = op
Return(outcome) ==
  /\ outcomes' = Append(outcomes, outcome)
  /\ at' = [call |-> at.call + 1, step |-> "start", entry |-> 1]

Functions(T) == ToSet(Layout[T]) \ {Handle}
NoRun == [settled |-> FALSE, outcome |-> "none", missing |-> {}, known |-> {}]

Init ==
  /\ program \in Programs
  /\ at = [call |-> 1, step |-> "start", entry |-> 1]
  /\ outcomes = <<>> /\ dirName = <<>>
  /\ registry = [T \in Types |-> <<>>]
  /\ sets = <<>> /\ pending = {}
  /\ bound = [T \in Types |-> [f \in Functions(T) |-> Nil]]
  /\ handle = {}
  /\ run = NoRun
  /\ served = [T \in Types |-> <<>>]

------------------------------------------------------------------------------
(* loadCommentBytes.  A file is a sequence of comments in the order of the *)
(* declarations: the type, the name (that of the field, or of the name     *)
(* option) and the text.  Names are unique in a file, whatever the type.   *)
loadable(file) ==
  /\ file # NoFile /\ file.parses
  /\ \A i, j \in DOMAIN file.comments : file.comments[i].name = file.comments[j].name => i = j

(* The comments of a type: SelectSeq, as a recursive function.             *)
OfType(T, comments) ==
  LET upTo[n \in 0 .. Len(comments)] ==
        IF n = 0 THEN <<>>
        ELSE IF comments[n].type = T THEN Append(upTo[n - 1], comments[n]) ELSE upTo[n - 1]
  IN upTo[Len(comments)]
Appended(file) == [T \in Types |-> registry[T] \o OfType(T, file.comments)]

(* The comments before the refused one of a file are kept.                 *)
LoadFuncDataInfoBytesBug ==
  /\ Running("loadBytes")
  /\ registry' = IF Op.file.parses THEN Appended(Op.file) ELSE registry
  /\ Return(IF loadable(Op.file) THEN "ok" ELSE "error")
  /\ UNCHANGED <<program, dirName, sets, pending, bound, handle, run, served>>

LoadFuncDataInfoBytes ==
  /\ Running("loadBytes")
  /\ \/ loadable(Op.file) /\ registry' = Appended(Op.file) /\ Return("ok")
     \/ ~loadable(Op.file) /\ registry' = registry /\ Return("error")
  /\ UNCHANGED <<program, dirName, sets, pending, bound, handle, run, served>>

(* LoadFuncDataInfo reads the entries of a directory in the order of their *)
(* names.  A directory is not entered: its name becomes the prefix of      *)
(* every file after it, which is then looked for inside.                   *)
ReadFile(entries, e) ==
  IF dirName = <<>> THEN e.file
  ELSE LET d == CHOOSE x \in ToSet(entries) : x.name = dirName[1]
       IN IF e.name \in DOMAIN d.inside THEN d.inside[e.name] ELSE NoFile

LoadDir ==
  LET e == Op.entries[at.entry]
      file == ReadFile(Op.entries, e)
      further == at' = [at EXCEPT !.entry = @ + 1] /\ UNCHANGED outcomes
  IN
  /\ Running("loadDir") /\ at.entry <= Len(Op.entries)
  /\ \/ /\ e.dir /\ dirName' = <<e.name>> /\ further /\ UNCHANGED registry
     \/ /\ ~e.dir /\ loadable(file)
        /\ registry' = Appended(file) /\ further /\ UNCHANGED dirName
     \/ /\ ~e.dir /\ ~loadable(file)
        /\ Return("error") /\ dirName' = <<>> /\ UNCHANGED registry
  /\ UNCHANGED <<program, sets, pending, bound, handle, run, served>>

LoadDirEnd ==
  /\ Running("loadDir") /\ at.entry > Len(Op.entries)
  /\ Return("ok") /\ dirName' = <<>>
  /\ UNCHANGED <<program, registry, sets, pending, bound, handle, run, served>>

------------------------------------------------------------------------------
(* The template set.                                                       *)
IsEmptyTree(tree) == tree.body = ""
Lookup(set, name) == IF name \in DOMAIN set THEN set[name] ELSE Nil

(* Any tree replaces the one before it.                                    *)
AddParseTreeBug(set, tree) == [n \in DOMAIN set \union {tree.name} |-> IF n = tree.name THEN tree ELSE set[n]]

(* AddParseTree and associate: an empty tree does not replace another.     *)
AddParseTree(set, tree) ==
  IF tree.name \in DOMAIN set /\ IsEmptyTree(tree) THEN set
  ELSE [n \in DOMAIN set \union {tree.name} |-> IF n = tree.name THEN tree ELSE set[n]]

------------------------------------------------------------------------------
(* InitDBFunc                                                              *)

Infos == registry[Op.type]
Info == Infos[at.entry]
Current == Len(sets)
To(step) == at' = [at EXCEPT !.step = step] /\ UNCHANGED outcomes
Fail == Return("error")

Begin ==
  /\ Running("init") /\ at.step = "start"
  /\ \/ Infos = <<>> /\ Fail /\ UNCHANGED sets
     \/ Infos # <<>> /\ To("parse") /\ sets' = Append(sets, <<>>)
  /\ UNCHANGED <<program, dirName, registry, pending, bound, handle, run, served>>

(* AddParse: nothing of a text that does not parse enters the set.         *)
AddParse ==
  /\ Running("init") /\ at.step = "parse" /\ at.entry <= Len(Infos)
  /\ \/ ~Info.text.parses /\ Fail /\ UNCHANGED pending
     \/ /\ Info.text.parses /\ To("add")
        /\ pending' = Trees(Info)
  /\ UNCHANGED <<program, dirName, registry, sets, bound, handle, run, served>>

(* Every name gets a template of its own each time, except the one the set *)
(* was created with (AddParseTree: nt = t): its template is overwritten    *)
(* where it is, under a function that has it.                              *)
Root == TypeName[Op.type]
Overwritten(tree) ==
  IF tree.name = Root /\ Root \in Functions(Op.type) /\ bound[Op.type][Root] # Nil /\ bound[Op.type][Root].set = Current
  THEN [bound EXCEPT ![Op.type][Root] = [set |-> Current, tree |-> AddParseTree(sets[Current], tree)[Root]]]
  ELSE bound

(* The tree enters every set.                                              *)
AddTreeBug ==
  /\ Running("init") /\ at.step = "add"
  /\ \E tree \in pending :
       /\ sets' = [s \in DOMAIN sets |-> AddParseTree(sets[s], tree)]
       /\ bound' = Overwritten(tree)
       /\ pending' = pending \ {tree}
       /\ IF pending = {tree} THEN To("bind") ELSE UNCHANGED <<at, outcomes>>
  /\ UNCHANGED <<program, dirName, registry, handle, run, served>>

(* The trees come out of a map, in any order.                              *)
AddTree ==
  /\ Running("init") /\ at.step = "add"
  /\ \E tree \in pending :
       /\ sets' = [sets EXCEPT ![Current] = AddParseTree(@, tree)]
       /\ bound' = Overwritten(tree)
       /\ pending' = pending \ {tree}
       /\ IF pending = {tree} THEN To("bind") ELSE UNCHANGED <<at, outcomes>>
  /\ UNCHANGED <<program, dirName, registry, handle, run, served>>

(* A statement without a field of its name is there for other statements   *)
(* to call.                                                                *)
Bind ==
  LET f == Info.name
      further == at' = [at EXCEPT !.step = "parse", !.entry = @ + 1] /\ UNCHANGED outcomes
  IN
  /\ Running("init") /\ at.step = "bind"
  /\ \/ f \notin Functions(Op.type) /\ further /\ UNCHANGED bound
     \/ f \in Functions(Op.type) /\ f \in Unsuited /\ Fail /\ UNCHANGED bound
     \/ /\ f \in Functions(Op.type) \ Unsuited /\ further
        /\ bound' = [bound EXCEPT ![Op.type][f] = [set |-> Current, tree |-> Lookup(sets[Current], f)]]
  /\ UNCHANGED <<program, dirName, registry, sets, pending, handle, run, served>>

Unset(T) == {i \in DOMAIN Layout[T] : Layout[T][i] # Handle /\ bound[T][Layout[T][i]] = Nil}

(* The last field is not looked at.                                        *)
checkAllDBFuncSetBug ==
  LET T == Op.type IN
  /\ Running("init") /\ at.step = "parse" /\ at.entry > Len(Infos)
  /\ handle' = handle \union {T}
  /\ Return(IF \A i \in 1 .. Len(Layout[T]) - 1 : Layout[T][i] = Handle \/ bound[T][Layout[T][i]] # Nil
            THEN "ok" ELSE "error")
  /\ served' = [served EXCEPT ![T] = Infos]
  /\ UNCHANGED <<program, dirName, registry, sets, pending, bound, run>>

(* checkAllDBFuncSet stops at the first function without a statement, and  *)
(* sets a *TgenSql field it meets before that.                             *)
checkAllDBFuncSet ==
  LET T == Op.type
      first == IF Unset(T) = {} THEN Len(Layout[T]) + 1 ELSE Min(Unset(T))
  IN
  /\ Running("init") /\ at.step = "parse" /\ at.entry > Len(Infos)
  /\ handle' = IF \E i \in 1 .. first - 1 : Layout[T][i] = Handle THEN handle \union {T} ELSE handle
  /\ Return(IF Unset(T) = {} THEN "ok" ELSE "error")
  /\ served' = [served EXCEPT ![T] = Infos]
  /\ UNCHANGED <<program, dirName, registry, sets, pending, bound, run>>

------------------------------------------------------------------------------
(* A call of a function: a nil function panics, and a template the         *)
(* statement calls is looked up in the set of the statement, as it is then.*)
Inits(T) == {k \in 1 .. at.call : k <= Len(program) /\ program[k].op = "init" /\ program[k].type = T}
Initialised(T) == Inits(T) # {} /\ Max(Inits(T)) < at.call /\ outcomes[Max(Inits(T))] = "ok"

Known(infos) == UNION {{t.name : t \in Trees(infos[k])} : k \in DOMAIN infos}

Call(T, f) ==
  LET b == bound[T][f]
      missing == IF b = Nil THEN {} ELSE b.tree.calls \ DOMAIN sets[b.set]
  IN
  /\ run' = [settled |-> Initialised(T), missing |-> missing, known |-> Known(served[T]),
             outcome |-> IF b = Nil THEN "panic" ELSE IF missing = {} THEN "ok" ELSE "undefined"]
  /\ UNCHANGED <<program, at, outcomes, dirName, registry, sets, pending, bound, handle, served>>

Load == LoadFuncDataInfoBytes \/ LoadDir \/ LoadDirEnd
InitDBFunc == Begin \/ AddParse \/ AddTree \/ Bind \/ checkAllDBFuncSet

Next == Load \/ InitDBFunc \/ \E T \in Types : \E f \in Functions(T) : Call(T, f)

Spec == Init /\ [][Next]_vars

------------------------------------------------------------------------------
TypeOK ==
  /\ program \in Programs
  /\ at \in [call : 1 .. Len(program) + 1, step : {"start", "parse", "add", "bind"}, entry : Nat \ {0}]
  /\ outcomes \in Seq({"ok", "error"}) /\ Len(outcomes) = at.call - 1
  /\ registry \in [Types -> Seq(Comment)] /\ served \in [Types -> Seq(Comment)]
  /\ \A T \in Types : \A k \in DOMAIN registry[T] : registry[T][k].type = T
  /\ sets \in Seq({sets[s] : s \in DOMAIN sets})
  /\ \A s \in DOMAIN sets : /\ DOMAIN sets[s] \subseteq Name /\ sets[s] \in [DOMAIN sets[s] -> AnyTree]
                            /\ \A n \in DOMAIN sets[s] : sets[s][n].name = n
  /\ pending \subseteq AnyTree /\ (at.step = "add" <=> pending # {})
  /\ DOMAIN bound = Types
  /\ \A T \in Types : bound[T] \in [Functions(T) -> {Nil} \union [set : DOMAIN sets, tree : AnyTree]]
  /\ handle \subseteq Types
  /\ run \in [settled : BOOLEAN, outcome : {"none", "ok", "panic", "undefined"},
              missing : SUBSET Name, known : SUBSET Name]

(* What the registry has for a type is what the loads so far found, in     *)
(* their order: all of a directory without subdirectories when the load    *)
(* succeeded, the files before the refused one when it did not, nothing of *)
(* the refused one.                                                        *)
Taken(k) ==
  LET p == program[k] IN
  IF k > at.call \/ p.op = "init" THEN <<>>
  ELSE IF p.op = "loadBytes"
       THEN IF k < at.call /\ loadable(p.file) THEN p.file.comments ELSE <<>>
       ELSE LET n == IF k = at.call THEN at.entry - 1
                     ELSE Max({0} \union {m \in DOMAIN p.entries : \A i \in 1 .. m : loadable(p.entries[i].file)})
            IN FlattenSeq([i \in 1 .. n |-> p.entries[i].file.comments])
Flat(p) == p.op = "loadDir" => \A i \in DOMAIN p.entries : ~p.entries[i].dir
RegistryTrue ==
  (\A k \in DOMAIN program : Flat(program[k])) =>
    \A T \in Types : registry[T] = OfType(T, FlattenSeq([k \in DOMAIN program |-> Taken(k)]))

(* At every moment of an initialisation a field has the function of its    *)
(* last statement dealt with: the tree that entered the set last under its *)
(* name by then, not counting the empty ones after a first, and never one  *)
(* that came with a later statement, unless the field is named like its    *)
(* struct type: that one follows the tree of its name, a later statement's *)
(* too, from the moment it enters the set.  The other fields are as they   *)
(* were.                                                                   *)
Latest(infos, f) ==
  LET Named(k) == {t \in Trees(infos[k]) : t.name = f}
      all == {k \in DOMAIN infos : Named(k) # {}}
      full == {k \in all : \E t \in Named(k) : ~IsEmptyTree(t)}
  IN CHOOSE t \in Named(IF full = {} THEN Min(all) ELSE Max(full)) : TRUE
\* How many statements are in the set as far as the name f is concerned.
Entered(f) ==
  IF at.step = "bind" \/ (at.step = "add" /\ \A t \in pending : t.name # f) THEN at.entry ELSE at.entry - 1
Followed(f, dealt) == IF f = Root THEN Entered(f) ELSE Max(dealt)
BoundTrue ==
  Running("init") /\ at.step # "start" =>
    \A f \in Functions(Op.type) :
      LET dealt == {k \in 1 .. at.entry - 1 : Infos[k].name = f}
          b == bound[Op.type][f]
      IN IF dealt = {} THEN b # Nil => b.set < Len(sets)
         ELSE b = [set |-> Len(sets), tree |-> Latest(SubSeq(Infos, 1, Followed(f, dealt)), f)]

(* A function called when the last initialisation of its struct is over    *)
(* and succeeded runs: it is there, and so is every template its          *)
(* statement calls that is the name of a statement the struct had in that  *)
(* initialisation or is defined by one, whatever was loaded since.         *)
SettledRuns ==
  run.settled => run.outcome # "panic" /\ run.missing \intersect run.known = {}

(* What an earlier initialisation bound stays as it is: its templates are  *)
(* in a set of their own, and no later one changes them.                   *)
SetsApart ==
  [][\A T \in Types : \A f \in Functions(T) :
       LET b == bound[T][f] IN
       b # Nil /\ (Initialised(T) \/ b.set < Len(sets)) /\ bound'[T][f] = b => sets'[b.set] = sets[b.set]]_vars

==============================================================================
