----------------------------- MODULE QCombinators -----------------------------
(***************************************************************************)
(* What libs/q.js builds from then and dispatch: all, any, race, spread,   *)
(* finally, timeout and the others, and what the callbacks they give do.   *)
(*                                                                         *)
(* all and its like are in two parts: the call itself, which waits for the *)
(* promise of an array, and the callback that gets the array.  That all    *)
(* writes the values into the caller's own array is left out.              *)
(***************************************************************************)
EXTENDS QPromises

NoneFulfilled == Error("all promises were rejected")
NotTheSame == Error("not the same")
TimedOut == Error("ETIMEDOUT")
TypeError == Error("TypeError")

-----------------------------------------------------------------------------
(* The loops over an array *)

\* What the loop of one of them does with item i, the value x, for d.
ForItem(h, of, d, i, x) ==
  CASE of = "all" /\ IsPromise(x) /\ Inspect(h, x)[1] = "fulfilled" ->
         [h EXCEPT !.deferred[d].array = With(@, i, Inspect(h, x)[2])]
    [] of = "all" /\ ~(IsPromise(x) /\ Inspect(h, x)[1] = "fulfilled") ->
         When([h EXCEPT !.deferred[d].pendingCount = @ + 1],
              x, <<"gather", d, i>>, <<"reject", d>>, <<"notify", d, i>>)
    [] of = "any" -> When([h EXCEPT !.deferred[d].pendingCount = @ + 1],
                          x, <<"resolve", d>>, <<"miss", d>>, <<"notify", d, i>>)
    [] of = "race" -> When(h, x, <<"resolve", d>>, <<"reject", d>>, None)
    [] of = "Q" -> ToPromise(h, x)
    [] of = "noop" -> When(h, x, <<"returns", Undefined>>, <<"returns", Undefined>>, None)
    [] of = "regardless" -> LET g == ToPromise(h, x)
                            IN Then(g, g.it, <<"inspect", g.it>>, <<"inspect", g.it>>, None)

\* array_reduce: the memory before the loop, and after each of its turns.
Loop(h, of, d, items) ==
  LET after[n \in 0..Len(items)] ==
        IF n = 0 THEN h ELSE ForItem(after[n - 1], of, d, n, items[n])
  IN after

OverItems(h, of, d, items) == Loop(h, of, d, items)[Len(items)]

\* The array of what was left in h.it after each of n turns.
Mapped(after, n) == Gives(after[n], Array([i \in 1..n |-> after[i].it]))

\* array_map
MapItems(h, of, items) == Mapped(Loop(h, of, None, items), Len(items))

-----------------------------------------------------------------------------
(* all and any *)

All(h, x) == When(h, x, <<"all">>, None, None)

\* The promise of all is resolved by the item that is the last.
Counted(h, d) ==
  IF h.deferred[d].pendingCount = 0 THEN Resolve(h, d, h.deferred[d].array) ELSE h

\* Seeded fault: the count is tested before it goes down.
Gather_Fault(h, d, i, x) ==
  LET r == h.deferred[d]
      g == [h EXCEPT !.deferred[d] =
              [r EXCEPT !.array = With(r.array, i, x), !.pendingCount = r.pendingCount - 1]]
  IN IF h.deferred[d].pendingCount = 0 THEN Resolve(g, d, g.deferred[d].array) ELSE g

\* The value of item i of the array of d.
Gather(h, d, i, x) ==
  LET r == h.deferred[d]
  IN Counted([h EXCEPT !.deferred[d] =
                [r EXCEPT !.array = With(r.array, i, x), !.pendingCount = r.pendingCount - 1]], d)

\* all, once it has the array x.
AllOf(h, x) ==
  LET d == Len(h.deferred) + 1
      g == [Defer(h) EXCEPT !.deferred[d].array = x]
  IN IF x = Undefined THEN Throws(h, TypeError)
     ELSE Gives(Counted(OverItems(g, "all", d, Items(x)), d), Deferred(d))

\* Seeded fault: any gives up at the first rejection.
Miss_Fault(h, d) == Reject(h, d, NoneFulfilled)

\* An item of any was rejected.
Miss(h, d) ==
  LET g == [h EXCEPT !.deferred[d].pendingCount = @ - 1]
  IN IF g.deferred[d].pendingCount = 0 THEN Reject(g, d, NoneFulfilled) ELSE g

AnyOf(h, items) ==
  LET d == Len(h.deferred) + 1
  IN IF items = <<>> THEN ToPromise(h, Undefined)
     ELSE Gives(OverItems(Defer(h), "any", d, items), Deferred(d))

-----------------------------------------------------------------------------
(* The others *)

AllResolved(h, x) == When(h, x, <<"allResolved">>, None, None)

\* all of what is in h.it
AllOfIt(h) == All(h, h.it)

\* The promises in h.it, when none of them is pending any more.
OnceSettled(h) ==
  LET g == AllOfIt(MapItems(h, "noop", Items(h.it))) IN ThenResolve(g, g.it, h.it)

AllResolvedOf(h, x) ==
  IF x = Undefined THEN Throws(h, TypeError) ELSE OnceSettled(MapItems(h, "Q", Items(x)))

AllSettled(h, x) == When(h, x, <<"allSettled">>, None, None)

AllSettledOf(h, x) ==
  IF x = Undefined THEN Throws(h, TypeError) ELSE AllOfIt(MapItems(h, "regardless", Items(x)))

\* promise(resolver), where the resolver enters every item.
Race(h, x) ==
  LET g == Defer(h)
      d == Len(g.deferred)
  IN Gives(IF x = Undefined THEN Reject(g, d, TypeError) ELSE OverItems(g, "race", d, Items(x)),
           Deferred(d))

\* promise(resolver), where a script keeps resolve, reject and notify, or throws.
NewPromise(h, resolver) ==
  LET g == Defer(h)
      d == Len(g.deferred)
  IN CASE resolver[1] = "throws" -> Gives(Reject(g, d, resolver[2]), Deferred(d))
       [] resolver[1] = "keeps" -> [g EXCEPT !.outside = @ \cup {d}]

Spread(h, x, fulfilled, rejected) ==
  LET g == All(h, x) IN When(g, g.it, <<"spread", fulfilled>>, rejected, None)

\* Q.join gives spread a function that compares.
Join(h, x, y) == Spread(h, Array(<<x, y>>), <<"same">>, None)

Promised(h, self, args, f) ==
  LET g == All(h, Array(args)) IN Spread(g, Array(<<self, g.it>>), f, None)

Tap(h, x, f) == When(h, x, <<"tap", <<"function", f>>>>, None, None)

Finally(h, x, f) ==
  When(h, x, <<"finally", <<"function", f>>, "returns">>,
       <<"finally", <<"function", f>>, "throws">>, None)

\* The timer that rejects, and the handlers that clear it.
Timeout(h, x) ==
  LET d == Len(h.deferred) + 1
      g == [Defer(h) EXCEPT !.timers = @ \cup {<<"timeout", d>>}]
  IN Gives(When(g, x, <<"clears", d, "resolve">>, <<"clears", d, "reject">>, <<"notify", d>>),
           Deferred(d))

Delay(h, x) == When(h, x, <<"delay">>, None, None)

\* nfcall, nfapply, nfbind, nbind, npost, ninvoke: f gets a call back for d.
Nfapply(h, f) ==
  LET d == Len(h.deferred) + 1
      g == Fcall(Defer(h), <<"function", f>>, <<"nodeback", d>>)
  IN Gives(Fail(g, g.it, <<"reject", d>>), Deferred(d))

\* makeNodeResolver: the function that a Node function calls.
CallNodeResolver(h, d, err, x) == IF err # None THEN Reject(h, d, err) ELSE Resolve(h, d, x)

Nodeify(h, x) == Gives(When(h, x, <<"tells", "value">>, <<"tells", "error">>, None), Undefined)

\* Q.async: a generator that yields what is left of it, then returns or throws
\* its end, and does not catch what is thrown at it.
Continuer(h, verb, generator, x) ==
  LET yields == generator[2]
      end == generator[3]
      rest == <<"generator", Tail(yields), end>>
  IN CASE verb = "throw" -> Rejection(h, x)
       [] verb = "next" /\ yields # <<>> ->
            When(h, Head(yields), <<"continue", "next", rest>>, <<"continue", "throw", rest>>, None)
       [] verb = "next" /\ yields = <<>> /\ end[1] = "returns" -> ToPromise(h, end[2])
       [] verb = "next" /\ yields = <<>> /\ end[1] = "throws" -> Rejection(h, end[2])

Async(h, generator) == Continuer(h, "next", generator, Undefined)

\* Q.spawn
Spawn(h, generator) ==
  LET g == Async(h, generator) IN Done(g, g.it, None, None, None)

-----------------------------------------------------------------------------
(* The callbacks *)

\* A function of a script: it returns, throws, or treats a call back of Node so;
\* nothing else can be called back.
CallScript(h, f, x) ==
  CASE f[1] = "returns" -> Gives(h, f[2])
    [] f[1] = "throws" -> Throws(h, f[2])
    [] f[1] = "same" -> IF ItemOf(x, 1) = ItemOf(x, 2) THEN Gives(h, ItemOf(x, 1))
                        ELSE Throws(h, NotTheSame)
    [] f[1] = "callsBack" /\ x[1] = "nodeback" ->
         Gives(CallNodeResolver(h, x[2], f[2], f[3]), Undefined)
    [] f[1] = "keepsBack" /\ x[1] = "nodeback" ->
         Gives([h EXCEPT !.outside = @ \cup {x[2]}], Undefined)
    [] f[1] \in {"callsBack", "keepsBack"} /\ x[1] # "nodeback" -> Throws(h, TypeError)

IsScript(f) == f[1] \in {"returns", "throws", "same", "callsBack", "keepsBack"}

\* What the callback cb of the library does with x.
CallLibrary(h, cb, x) ==
  CASE cb[1] = "resolve" -> Resolve(h, cb[2], x)
    [] cb[1] = "reject" -> Reject(h, cb[2], x)
    [] cb[1] = "notify" -> Notify(h, cb[2], x)
    [] cb[1] = "gather" -> Gather(h, cb[2], cb[3], x)
    [] cb[1] = "miss" -> Miss(h, cb[2])
    [] cb[1] = "clears" ->
         LET g == [h EXCEPT !.timers = @ \ {<<"timeout", cb[2]>>}]
         IN IF cb[3] = "resolve" THEN Resolve(g, cb[2], x) ELSE Reject(g, cb[2], x)
    [] cb[1] = "unhandled" -> NextTick(h, [do |-> "throw", value |-> x])
    [] cb[1] = "tells" -> NextTick(h, [do |-> "tells", side |-> cb[2], value |-> x])

\* Those whose value matters.
CallForValue(h, cb, x) ==
  CASE cb[1] = "all" -> AllOf(h, x)
    [] cb[1] = "allResolved" -> AllResolvedOf(h, x)
    [] cb[1] = "allSettled" -> AllSettledOf(h, x)
    [] cb[1] = "race" -> Race(h, x)
    [] cb[1] = "inspect" -> Gives(h, <<"snapshot", Inspect(h, cb[2])>>)
    [] cb[1] = "spread" -> CallScript(h, cb[2], x)
    [] cb[1] = "tap" -> LET g == Fcall(h, cb[2], x) IN ThenResolve(g, g.it, x)
    [] cb[1] = "finally" -> LET g == Fcall(h, cb[2], Undefined)
                            IN Then(g, g.it, <<cb[3], x>>, None, None)
    [] cb[1] = "continue" -> Continuer(h, cb[2], cb[3], x)
    [] cb[1] = "delay" -> LET g == Defer(h)
                          IN [g EXCEPT !.timers = @ \cup {<<"delay", Len(g.deferred), x>>}]

Call(h, cb, x) ==
  CASE IsScript(cb) -> CallScript(h, cb, x)
    [] cb[1] \in {"resolve", "reject", "notify", "gather", "miss", "clears", "unhandled",
                  "tells"} -> Gives(CallLibrary(h, cb, x), Undefined)
    [] OTHER -> CallForValue(h, cb, x)

\* The value of a call, or a rejection with what it throws.
Caught(h) == IF h.it[1] = "throw" THEN Rejection(h, h.it[2]) ELSE h

-----------------------------------------------------------------------------
(* The tasks *)

\* s without its first d.
Without(s, d) ==
  LET at == CHOOSE i \in DOMAIN s : s[i] = d /\ \A j \in 1..(i - 1) : s[j] # d
  IN IF \A i \in DOMAIN s : s[i] # d THEN s
     ELSE [i \in 1..(Len(s) - 1) |-> IF i < at THEN s[i] ELSE s[i + 1]]

\* History: the handlers of call d of then on a deferred are called.
Answered(h, d, outcome) ==
  LET self == h.deferred[d].self
  IN IF self[1] # "deferred" THEN h
     ELSE [h EXCEPT !.deferred[d].answer = outcome,
                    !.deferred[self[2]].waiting = Without(@, d)]

\* The value of a call of then resolves its promise.
ResolveWithIt(h, d) == Resolve(h, d, h.it)

\* Seeded fault: a handler does not note that it was called.
Handle_Fault(h, d, side, x) ==
  LET cb == IF side = "fulfilled" THEN h.deferred[d].fulfilled ELSE h.deferred[d].rejected
      g == Answered(h, d, <<side, x>>)
  IN ResolveWithIt(Caught(CASE cb # None -> Call(g, cb, x)
                            [] cb = None /\ side = "fulfilled" -> Gives(g, x)
                            [] cb = None /\ side = "rejected" -> Throws(g, x)), d)

\* _fulfilled or _rejected of call d of then, whichever comes first.
Handle(h, d, side, x) ==
  LET cb == IF side = "fulfilled" THEN h.deferred[d].fulfilled ELSE h.deferred[d].rejected
      g == [Answered(h, d, <<side, x>>) EXCEPT !.deferred[d].done = TRUE]
  IN IF h.deferred[d].done THEN h
     ELSE ResolveWithIt(Caught(CASE cb # None -> Call(g, cb, x)
                                 [] cb = None /\ side = "fulfilled" -> Gives(g, x)
                                 [] cb = None /\ side = "rejected" -> Throws(g, x)), d)

\* What a fulfilled promise for x answers; data says what other messages find.
AskValue(h, x, msg) ==
  CASE msg.op = "when" -> Gives(h, x)
    [] msg.op = "apply" /\ x[1] = "function" -> Call(h, x[2], msg.arg)
    [] msg.op = "apply" /\ x[1] # "function" -> Throws(h, TypeError)
    [] msg.op = "data" -> CallScript(h, msg.arg, x)
    [] OTHER -> Throws(h, Error("not supported"))

\* Seeded fault: a rejection stays in the list after its handler was called.
AskRejection_Fault(h, x, msg) ==
  IF msg.op = "when" /\ msg.rejected # None
  THEN Gives(Handle(h, msg.rejected[2], "rejected", x[3]), Undefined)
  ELSE Gives(h, x)

AskRejection(h, x, msg) ==
  IF msg.op = "when" /\ msg.rejected # None
  THEN Gives(Handle(Untrack(h, x[2]), msg.rejected[2], "rejected", x[3]), Undefined)
  ELSE Gives(h, x)

\* promiseDispatch.
\* What a promise has answered goes to resolve.
Replies(h, resolve) ==
  CASE resolve = None -> h
    [] resolve[1] = "then" -> Handle(h, resolve[2], "fulfilled", h.it)
    [] resolve[1] = "deferred" -> Resolve(h, resolve[2], h.it)

Deliver(h, x, msg) ==
  CASE x[1] = "deferred" -> Send(h, x[2], msg)
    [] x[1] = "fulfilled" -> Replies(Caught(AskValue(h, x[2], msg)), msg.resolve)
    [] x[1] = "rejected" -> Replies(AskRejection(h, x, msg), msg.resolve)

\* What a listener leaves: a throw, or what the listeners of d are to hear.
PassOn(h, d) ==
  IF h.it[1] = "throw" THEN [h EXCEPT !.thrown = Append(@, h.it[2])]
  ELSE Notify(h, d, h.it)

\* A progress listener: without a callback it passes the value on.
Progress(h, d, x) ==
  LET cb == h.deferred[d].progressed
  IN PassOn([(IF cb = None THEN Gives(h, x) ELSE Call(h, cb, x)) EXCEPT
               !.late = IF h.deferred[d].done THEN @ \cup {d} ELSE @], d)

\* A foreign then: it throws, or keeps the functions it is given.
Coerce(h, thenable, d) ==
  CASE thenable[2] = "throws" -> Reject(h, d, Error("then"))
    [] thenable[2] = "keeps" -> [h EXCEPT !.outside = @ \cup {d}]

Run(h, task) ==
  CASE task.do = "dispatch" -> Deliver(h, task.to, task.msg)
    [] task.do = "progress" -> Progress(h, task.of, task.value)
    [] task.do = "coerce" -> Coerce(h, task.thenable, task.deferred)
    [] task.do = "throw" -> [h EXCEPT !.thrown = Append(@, task.value)]
    [] task.do = "tells" -> [h EXCEPT !.called = Append(@, <<task.side, task.value>>)]

=============================================================================
