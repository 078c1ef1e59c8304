----------------------------- MODULE MCTaskQueue -----------------------------
(* Two threads and the timer thread; one task may throw, one asks for another. *)
EXTENDS TaskQueue, TLC

CONSTANTS t1, t2

TheWork == t1 :> <<"a", "b", "c">> @@ t2 :> <<"d">>
TheFollows == {<<"d", "e">>}

=============================================================================
