----------------------------- MODULE MCQueryCall -----------------------------
EXTENDS QueryCall

CONSTANTS alice, bob, list, book, noctx, nomap, notemplate

MCWorkers == {alice, bob}
MCSites == {list}
MCContexts == {book}
MCTexts == {"a", "b", "broken", "failing"}
MCUnparsable == {"broken"}
MCFailing == {"failing"}

(* Statements of one call site with a text of their own: every call after  *)
(* the first gets the template of the first.                               *)
Base == [entry |-> "template", kind |-> "exec", site |-> list, text |-> "a", ctx |-> noctx, args |-> <<>>,
         many |-> FALSE, byReference |-> FALSE, ignored |-> FALSE, rows |-> <<>>]

Texts == {[Base EXCEPT !.text = t, !.ctx = c] : t \in {"a", "b", "broken"}, c \in {noctx, book}}

(* Statements with rows: through a call site, and of a bound function.     *)
RowSets == {<<>>, <<"good", "bad">>, <<"good", "good">>}
Selects == {[Base EXCEPT !.kind = "query", !.many = m, !.byReference = b, !.ignored = i, !.rows = rs] :
              m, b \in BOOLEAN, i \in {TRUE}, rs \in RowSets \ {<<>>}}
Bound == {[Base EXCEPT !.entry = "bound", !.kind = IF m THEN "query" ELSE "one", !.many = m,
                       !.byReference = b, !.ignored = i, !.rows = rs, !.ctx = book] :
              m, b \in BOOLEAN, i \in BOOLEAN, rs \in RowSets}
Arguments == {[Base EXCEPT !.entry = "bound", !.args = as, !.text = t, !.ctx = book] :
                as \in {<<>>, <<"json", "plain">>, <<"plain", "refused">>, <<"registered">>, <<"unmarshalable">>},
                t \in {"a", "failing"}}

Select == CHOOSE r \in Selects : r.many /\ r.rows = <<"good", "bad">> /\ ~r.byReference

MCJobs ==
  alice :> {<<r, s>> : r, s \in Texts} \union {<<r>> : r \in Selects \union Bound \union Arguments}
  @@ bob :> {<<[Base EXCEPT !.text = "b", !.ctx = book]>>, <<Select>>}
==============================================================================
