---------------------------- MODULE MCFuncBinding ----------------------------
EXTENDS FuncBinding, TLC

CONSTANTS users, orders, handle0, nil, nofile

MCTypes == {users, orders}
MCNames == {"Get", "List", "Add", "Odd", "cols", "page", "late", "missing", "Orders"}
MCBodies == {"", "get", "list", "add", "odd", "one", "two", "other", "page", "early", "late"}
(* One struct type has the name of one of its functions.                   *)
MCTypeName == users :> "List" @@ orders :> "Orders"
MCLayout == users :> <<"Get", handle0, "List">> @@ orders :> <<"Add", "Odd">>
MCUnsuited == {"Odd"}

SqlText(body, calls, defines) == [parses |-> TRUE, body |-> body, calls |-> calls, defines |-> defines]
Broken == [parses |-> FALSE, body |-> "", calls |-> {}, defines |-> {}]
SqlComment(T, name, text) == [type |-> T, name |-> name, text |-> text]
GoFile(comments) == [parses |-> TRUE, comments |-> comments]

(* Statements that share fragments, one that brings a new version of a     *)
(* fragment and of another statement, one that brings a new version of the *)
(* statement named like the struct type, one that is empty, one that does  *)
(* not parse.                                                              *)
Get   == SqlComment(users, "Get", SqlText("get", {"cols"}, {Tree("cols", "one", {})}))
List  == SqlComment(users, "List", SqlText("list", {"cols", "page"}, {Tree("cols", "two", {}), Tree("Get", "other", {})}))
Page  == SqlComment(users, "page", SqlText("page", {}, {Tree("cols", "", {}), Tree("List", "other", {})}))
Empty == SqlComment(users, "Get", SqlText("", {}, {}))
Wrong == SqlComment(users, "List", Broken)
Early == SqlComment(users, "Get", SqlText("early", {"late"}, {}))
Late  == SqlComment(users, "late", SqlText("late", {}, {}))
Add   == SqlComment(orders, "Add", SqlText("add", {"missing"}, {}))
Odd   == SqlComment(orders, "Odd", SqlText("odd", {}, {}))

Files == {GoFile(<<Get, List, Page>>), GoFile(<<Get, Empty>>), GoFile(<<List, Add>>), GoFile(<<Empty, Page>>),
          GoFile(<<Page, Wrong>>), GoFile(<<Early, Wrong, Late>>), GoFile(<<Add, Odd>>), [parses |-> FALSE, comments |-> <<>>]}

Plain(name, file) == [name |-> name, dir |-> FALSE, file |-> file, inside |-> <<>>]
Dir(name, inside) == [name |-> name, dir |-> TRUE, file |-> nofile, inside |-> inside]

Dirs == {<<Plain("a", f), Plain("b", g)>> : f, g \in Files}
          \union {<<Plain("a", f), Dir("d", ("z" :> GoFile(<<Page>>))), Plain(n, f)>> :
                    f \in {GoFile(<<Get, List, Page>>)}, n \in {"y", "z"}}

LoadD(d) == [op |-> "loadDir", entries |-> d]
LoadB(f) == [op |-> "loadBytes", file |-> f]
InitT(T) == [op |-> "init", type |-> T]

MCPrograms ==
  {<<LoadD(d), InitT(users), LoadB(f), InitT(users), InitT(orders)>> : d \in Dirs, f \in Files}
    \union {<<LoadD(d), LoadD(d), InitT(users), InitT(orders)>> : d \in Dirs}
    \union {<<LoadB(GoFile(<<Early, List, Page>>)), InitT(users), LoadB(GoFile(<<Late>>)), InitT(users)>>}
==============================================================================
