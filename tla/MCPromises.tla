------------------------------ MODULE MCPromises ------------------------------
(* Scripts that make two promises, combine them, and hang handlers on what    *)
(* they have.                                                                 *)
EXTENDS Promises

New == [of |-> "new"]
ThenOn(p, f) == [of |-> "then", promise |-> p, onFulfilled |-> f, onRejected |-> Script]
DoneOn(p) == [of |-> "done", promise |-> p]
Of(what, items) == [of |-> what, items |-> items]

Ends ==
  {<<ThenOn(1, Script), ThenOn(1, Script)>>,
   <<ThenOn(1, None), ThenOn(3, Script), DoneOn(4)>>,
   <<Of("all", <<Ref(1), Ref(2)>>), ThenOn(3, Script)>>,
   <<Of("all", <<Thenable, Plain(0)>>), DoneOn(3)>>,
   <<Of("race", <<Ref(1), Ref(2)>>), ThenOn(3, None)>>}

TheScripts == {<<New, New>> \o end : end \in Ends}

=============================================================================
