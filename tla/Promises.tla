------------------------------- MODULE Promises -------------------------------
(***************************************************************************)
(* The promises of the scripts (libs/promises.js, which environment.js     *)
(* loads): then, resolve and reject, the queue of handlers that a timer    *)
(* flushes, and all, race and done on top of them.                         *)
(*                                                                         *)
(* The memory of the library is one record: its functions call each other, *)
(* and a call of a script is their composition, so they are operators from *)
(* memory to memory.  The script turns and the flush are the actions.      *)
(* Only one thread is in the library at a time here (timers all run on one *)
(* thread); what threads do to the queue is in TaskQueue.                  *)
(*                                                                         *)
(* A promise and the handler whose then made it have the same number.      *)
(* Values and reasons are tagged; a thenable is an object with a then that *)
(* is not of this library.  Left out: sub-classes of Promise (safeThen).   *)
(***************************************************************************)
EXTENDS Integers, FiniteSets, Sequences

CONSTANTS
  MaxPromises,   \* bound: promises made
  MaxResolvers,  \* bound: pairs of resolve and reject made
  Scripts,       \* the sequences of calls a script may make
  Passed,        \* the promises that scripts give to resolve, all and race
  Reasons        \* what scripts reject with, or throw


VARIABLES
  m,      \* the memory of the library
  script  \* the calls a script still makes

vars == <<m, script>>

Promises == 1..MaxPromises

Ref(p) == <<"promise", p>>
Thenable == <<"thenable", "foreign">>
Undefined == <<"undefined">>
Reason == {<<"reason", e>> : e \in Reasons}

\* TypeError("A promise cannot be resolved with itself.")
SelfResolution == <<"reason", "TypeError">>

IsPromise(x) == x[1] = "promise"

\* A callback of a handler: none, one of a script, or one of all, race, done.
None == <<"none">>
Script == <<"script">>

\* What a script may call, and put into all and race.
Plain(n) == <<"value", n>>
Items == {Ref(p) : p \in Promises} \cup {Thenable, Plain(0)}

Call ==
  [of : {"new"}]
    \cup [of : {"then"}, promise : Promises, onFulfilled : {None, Script}, onRejected : {None, Script}]
    \cup [of : {"done"}, promise : Promises]
    \cup [of : {"all", "race"}, items : Seq(Items)]

ASSUME MaxPromisesAssumption == MaxPromises \in Nat
ASSUME MaxResolversAssumption == MaxResolvers \in Nat
ASSUME ScriptsAssumption == Scripts \subseteq Seq(Call)

Init ==
  /\ script \in Scripts
  /\ m = [made |-> 0,
          state |-> [p \in Promises |-> "pending"],  \* "following", "fulfilled", "rejected"
          value |-> [p \in Promises |-> Undefined],
          deferreds |-> [p \in Promises |-> <<>>],
          handler |-> [p \in Promises |->
                         [of |-> p, onFulfilled |-> None, onRejected |-> None]],
          resolver |-> <<>>,     \* its promise, done, and who holds it
          gather |-> <<>>,       \* of the resolver of an all: args, remaining, history: items
          queue |-> <<>>,        \* the tasks of asap: a settled promise, a handler
          flush |-> "idle",      \* "requested" or "running"
          thrown |-> {},         \* what done throws in a timeout
          hung |-> FALSE,        \* in the loop of handle, for ever
          waiting |-> [p \in Promises |-> <<>>],        \* history: handlers not called yet
          answer |-> [p \in Promises |-> <<"pending">>]] \* history: calls of handlers

-----------------------------------------------------------------------------
(* core.js *)

NextIn(h) == [p \in Promises |-> IF h.state[p] = "following" THEN h.value[p][2] ELSE p]

\* where "while (self._37 === 3)" ends, if it does.
Root(h, p) ==
  LET self[n \in 0..MaxPromises] == IF n = 0 THEN p ELSE NextIn(h)[self[n - 1]]
  IN IF h.state[p] = "following" THEN self[MaxPromises] ELSE p

\* Tasks in turn: the first of an empty queue asks for a flush.
Asap(h, tasks) ==
  [h EXCEPT !.queue = @ \o tasks,
            !.flush = IF @ = "idle" THEN "requested" ELSE @]

\* handle of deferreds in turn: they all go where p ends.
HandleAll(h, p, ds) ==
  LET r == Root(h, p)
  IN CASE h.state[r] = "following" -> [h EXCEPT !.hung = TRUE]
       [] h.state[r] = "pending" -> [h EXCEPT !.deferreds[r] = @ \o ds]
       [] OTHER -> Asap(h, [i \in DOMAIN ds |-> <<r, ds[i]>>])

Handle(h, p, d) == HandleAll(h, p, <<d>>)

\* Seeded fault: the loop stops one short.
Finale_Fault(h, p) ==
  IF h.deferreds[p] = <<>> THEN h
  ELSE HandleAll([h EXCEPT !.deferreds[p] = <<>>], p,
                 SubSeq(h.deferreds[p], 1, Len(h.deferreds[p]) - 1))

Finale(h, p) ==
  IF h.deferreds[p] = <<>> THEN h
  ELSE HandleAll([h EXCEPT !.deferreds[p] = <<>>], p, h.deferreds[p])

Settle(h, p, state, x) ==
  Finale([h EXCEPT !.state[p] = state, !.value[p] = x], p)

Reject(h, p, e) == Settle(h, p, "rejected", e)

\* doResolve: a function gets a pair of resolve and reject for p.
NewResolver(h, p, holder) ==
  [h EXCEPT !.resolver = Append(@, [promise |-> p, done |-> FALSE, holder |-> holder]),
            !.gather = Append(@, [args |-> <<>>, remaining |-> 0, items |-> <<>>])]

Resolve(h, p, x) ==
  CASE x = Ref(p) -> Reject(h, p, SelfResolution)
    [] IsPromise(x) /\ x # Ref(p) -> Settle(h, p, "following", x)
    [] x = Thenable -> NewResolver(h, p, "script")
    [] OTHER -> Settle(h, p, "fulfilled", x)

\* Seeded fault: done is not tested.
CallResolve_Fault(h, r, x) ==
  Resolve([h EXCEPT !.resolver[r].done = TRUE], h.resolver[r].promise, x)

\* The two functions doResolve passes: only the first call counts.
CallResolve(h, r, x) ==
  IF h.resolver[r].done THEN h
  ELSE Resolve([h EXCEPT !.resolver[r].done = TRUE], h.resolver[r].promise, x)

CallReject(h, r, e) ==
  IF h.resolver[r].done THEN h
  ELSE Reject([h EXCEPT !.resolver[r].done = TRUE], h.resolver[r].promise, e)

\* new Promise(fn): the promise is the one made last.
NewPromise(h, holder) ==
  NewResolver([h EXCEPT !.made = @ + 1], h.made + 1, holder)

Then(h, p, onFulfilled, onRejected) ==
  LET d == h.made + 1
  IN Handle([h EXCEPT !.made = d,
                      !.handler[d] = [of |-> p, onFulfilled |-> onFulfilled,
                                      onRejected |-> onRejected],
                      !.waiting[p] = Append(@, d)], p, d)

-----------------------------------------------------------------------------
(* es6-extensions.js and polyfill-done.js *)

\* Promise.resolve: the memory after it, and the promise.
ResolvedPromise(h, x) ==
  CASE IsPromise(x) -> <<h, x[2]>>
    [] x = Thenable -> <<NewPromise(h, "script"), h.made + 1>>
    [] OTHER -> <<Settle([h EXCEPT !.made = @ + 1], h.made + 1, "fulfilled", x), h.made + 1>>

\* What all keeps of the value of an item.
Keeping(kept, i, x) == [kept EXCEPT !.args[i] = x, !.remaining = @ - 1]

\* Seeded fault: the values are kept in the order in which they come.
Gather_Fault(h, r, i, x) ==
  LET n == Len(h.gather[r].args) - h.gather[r].remaining + 1
      g == [h EXCEPT !.gather[r] = Keeping(@, n, x)]
  IN IF g.gather[r].remaining = 0 THEN CallResolve(g, r, <<"array", g.gather[r].args>>) ELSE g

\* The function res of all, for a value that is no promise.
Gather(h, r, i, x) ==
  LET g == [h EXCEPT !.gather[r] = Keeping(@, i, x)]
  IN IF g.gather[r].remaining = 0 THEN CallResolve(g, r, <<"array", g.gather[r].args>>) ELSE g

\* Seeded fault: a rejection of an item is not passed on.
Await_Fault(h, r, i, x) ==
  LET awaits(g, p) == Then(g, p, <<"gather", r, i>>, None)
      p == Root(h, x[2])
  IN IF IsPromise(x)
     THEN CASE h.state[p] = "following" -> [h EXCEPT !.hung = TRUE]
            [] h.state[p] = "fulfilled" -> Gather(h, r, i, h.value[p])
            [] OTHER -> awaits(h, p)
     ELSE IF x = Thenable THEN awaits(NewPromise(h, "script"), h.made + 1)
     ELSE Gather(h, r, i, x)

\* The function res of all.
Await(h, r, i, x) ==
  LET awaits(g, p) == Then(g, p, <<"gather", r, i>>, <<"reject", r>>)
      p == Root(h, x[2])
  IN IF IsPromise(x)
     THEN CASE h.state[p] = "following" -> [h EXCEPT !.hung = TRUE]
            [] h.state[p] = "fulfilled" -> Gather(h, r, i, h.value[p])
            [] h.state[p] = "rejected" -> awaits(CallReject(h, r, h.value[p]), p)
            [] OTHER -> awaits(h, p)
     ELSE IF x = Thenable THEN awaits(NewPromise(h, "script"), h.made + 1)
     ELSE Gather(h, r, i, x)

All(h, items) ==
  LET r == Len(h.resolver) + 1
      g == [NewPromise(h, "library") EXCEPT
              !.gather[r] = [args |-> items, remaining |-> Len(items), items |-> items]]
      loop[n \in 0..Len(items)] == IF n = 0 THEN g ELSE Await(loop[n - 1], r, n, items[n])
  IN IF items = <<>> THEN CallResolve(g, r, <<"array", <<>>>>) ELSE loop[Len(items)]

Enters(h, r, x) ==
  LET res == ResolvedPromise(h, x)
  IN Then(res[1], res[2], <<"resolve", r>>, <<"reject", r>>)

Race(h, items) ==
  LET r == Len(h.resolver) + 1
      loop[n \in 0..Len(items)] ==
        IF n = 0 THEN NewPromise(h, "library") ELSE Enters(loop[n - 1], r, items[n])
  IN loop[Len(items)]

\* done(): what goes wrong is thrown by a timeout.
Done(h, p) == Then(h, p, None, <<"throw">>)

-----------------------------------------------------------------------------
(* The tasks *)

\* A callback of the library, which answers undefined.
Calls(h, cb, x) ==
  CASE cb[1] = "gather" -> Gather(h, cb[2], cb[3], x)
    [] cb[1] = "resolve" -> CallResolve(h, cb[2], x)
    [] cb[1] = "reject" -> CallReject(h, cb[2], x)
    [] cb[1] = "throw" -> [h EXCEPT !.thrown = @ \cup {x}]

\* What scripts pass to a resolve n, or answer from a callback (n is 0).
Inputs(n) == {Plain(n), Thenable} \cup {Ref(p) : p \in Passed \cap 1..m.made}

\* The bound on the pairs that thenables are given.
Fits(x) == x = Thenable => Len(m.resolver) < MaxResolvers

FlushStarts ==
  /\ m.flush = "requested"
  /\ m' = [m EXCEPT !.flush = "running"]
  /\ UNCHANGED script

\* A handler that is called waits no more.
Without(waiting, d) ==
  LET i == CHOOSE i \in DOMAIN waiting : waiting[i] = d
  IN SubSeq(waiting, 1, i - 1) \o SubSeq(waiting, i + 1, Len(waiting))

\* The function that handle gives to asap.
RunTask ==
  LET p == m.queue[1][1]
      d == m.queue[1][2]
      x == m.value[p]
      cb == IF m.state[p] = "fulfilled" THEN m.handler[d].onFulfilled
            ELSE m.handler[d].onRejected
      h == [m EXCEPT !.queue = Tail(@),
                     !.answer[d] = <<m.state[p], x>>,
                     !.waiting[m.handler[d].of] = Without(@, d)]
  IN /\ m.flush = "running" /\ m.queue # <<>>
     /\ CASE cb = None ->
               m' = IF m.state[p] = "fulfilled" THEN Resolve(h, d, x) ELSE Reject(h, d, x)
          [] cb = Script ->
               \/ \E e \in Reason : m' = Reject(h, d, e)
               \/ \E y \in Inputs(0) : Fits(y) /\ m' = Resolve(h, d, y)
          [] OTHER -> m' = Resolve(Calls(h, cb, x), d, Undefined)
     /\ UNCHANGED script

FlushEnds ==
  /\ m.flush = "running" /\ m.queue = <<>>
  /\ m' = [m EXCEPT !.flush = "idle"]
  /\ UNCHANGED script

-----------------------------------------------------------------------------
(* The scripts *)

\* A script, or a foreign then, calls one of its functions; what the function
\* of a new promise throws rejects like a call of reject.
Held == {r \in 1..Len(m.resolver) : m.resolver[r].holder = "script"}

Resolves(r) ==
  /\ \E x \in IF m.resolver[r].done THEN {Plain(r)} ELSE Inputs(r) :
       Fits(x) /\ m' = CallResolve(m, r, x)
  /\ UNCHANGED script

Rejects(r) ==
  /\ \E e \in Reason : m' = CallReject(m, r, e)
  /\ UNCHANGED script

\* The memory after a call.
After(call) ==
  CASE call.of = "new" -> NewPromise(m, "script")
    [] call.of = "then" -> Then(m, call.promise, call.onFulfilled, call.onRejected)
    [] call.of = "all" -> All(m, call.items)
    [] call.of = "race" -> Race(m, call.items)
    [] call.of = "done" -> Done(m, call.promise)

\* A script only has promises that were made.
Has(x) == IsPromise(x) => x[2] \in 1..m.made

CanCall(call) ==
  CASE call.of = "new" -> m.made + 1 <= MaxPromises
    [] call.of \in {"then", "done"} -> Has(Ref(call.promise)) /\ m.made + 1 <= MaxPromises
    [] OTHER -> /\ \A i \in DOMAIN call.items : Has(call.items[i])
                /\ m.made + 1 + 2 * Len(call.items) <= MaxPromises

ScriptCalls ==
  /\ script # <<>>
  /\ CanCall(Head(script))
  /\ m' = After(Head(script))
  /\ script' = Tail(script)

Flush == FlushStarts \/ RunTask \/ FlushEnds

ScriptTurn ==
  \/ ScriptCalls
  \/ \E r \in Held : Resolves(r) \/ Rejects(r)

Next == ~m.hung /\ (ScriptTurn \/ Flush)

Spec == Init /\ [][Next]_vars

\* The timer thread goes on with a flush (FlushHappens of EventLoop).
FairSpec == Spec /\ WF_vars(~m.hung /\ Flush)

-----------------------------------------------------------------------------
(* Properties *)

NoOutcome == <<"pending">>

\* A promise that follows another has its outcome.
OutcomeOf(h, p) ==
  LET r == Root(h, p)
  IN IF h.state[r] \in {"fulfilled", "rejected"} THEN <<h.state[r], h.value[r]>> ELSE NoOutcome

Outcome(p) == OutcomeOf(m, p)

Abstract ==
  INSTANCE PromiseSpec WITH
    Promises <- Promises, Handlers <- Promises, Pending <- NoOutcome,
    outcome <- [p \in Promises |-> Outcome(p)],
    waiting <- m.waiting,
    answer <- m.answer

\* A promise settles once, every handler is called at most once, with its
\* outcome, in a later turn and in the order of the calls of then, whatever
\* follows what and whatever resolve is called with or how often.
KeepsItsPromises == Abstract!Spec

\* What an item of all comes to.
ItemOutcome(x) == IF IsPromise(x) THEN Outcome(x[2]) ELSE <<"fulfilled", x>>

\* The calls of all whose items are no foreign thenables.
Gatherings ==
  {r \in 1..Len(m.resolver) :
     m.gather[r].items # <<>> /\ \A i \in DOMAIN m.gather[r].items : m.gather[r].items[i] # Thenable}

\* The promise of all is fulfilled with the values of the items, in the order
\* of the items and not of their coming, or rejected as one of them is.
AllAnswersItsItems ==
  \A r \in Gatherings :
    LET out == Outcome(m.resolver[r].promise)
        items == m.gather[r].items
    IN /\ out[1] = "fulfilled" =>
            \A i \in DOMAIN items : ItemOutcome(items[i]) = <<"fulfilled", out[2][2][i]>>
       /\ out[1] = "rejected" => \E i \in DOMAIN items : ItemOutcome(items[i]) = out

\* Once nothing is due and every item is settled, the promise of all is.
AllSettlesWithItsItems ==
  (m.flush = "idle" /\ ~m.hung) =>
    \A r \in Gatherings :
      (\A i \in DOMAIN m.gather[r].items : ItemOutcome(m.gather[r].items[i]) # NoOutcome)
        => Outcome(m.resolver[r].promise) # NoOutcome

\* A handler of a settled promise is called: the queue is flushed, whatever
\* the handlers before it do, unless the library follows a ring of promises.
HandlersAreCalled ==
  []<>(m.hung \/ \A p \in Promises : m.waiting[p] = <<>> \/ Outcome(p) = NoOutcome)

=============================================================================
