------------------------------ MODULE QPromises ------------------------------
(***************************************************************************)
(* The functions of libs/q.js, the promises the scripts may use beside     *)
(* those of promises.js.                                                   *)
(*                                                                         *)
(* The memory of the library is one record h, and a function of it an      *)
(* operator from memory to memory that leaves its value, or what it throws,*)
(* in h.it.  No function calls a callback in the turn it is given: it puts *)
(* a task into the queue of nextTick.  So a callback is a tagged tuple of  *)
(* what it has captured, and Call says what it does.                       *)
(*                                                                         *)
(* A promise is <<"deferred", d>>, <<"fulfilled", x>> or <<"rejected", k,  *)
(* e>>, where k tells the rejections of one reason apart.  Every promise   *)
(* made by then has a deferred, and d is also the number of that call.     *)
(*                                                                         *)
(* Left out: stack traces, process and domains (there is none in this      *)
(* virtual machine), master, passByCopy, and the deprecated valueOf.       *)
(***************************************************************************)
EXTENDS Integers, Sequences

None == <<"none">>
Undefined == <<"undefined">>
Error(what) == <<"error", what>>
Array(items) == <<"array", items>>

Pending == <<"pending">>

Deferred(d) == <<"deferred", d>>
Fulfilled(x) == <<"fulfilled", x>>

IsPromise(x) == x[1] \in {"deferred", "fulfilled", "rejected"}

\* What has no items counts as an array of none, unless it is undefined.
Items(x) == IF x[1] = "array" THEN x[2] ELSE <<>>

ItemOf(x, i) == IF i \in DOMAIN Items(x) THEN Items(x)[i] ELSE Undefined

With(x, i, y) == Array([Items(x) EXCEPT ![i] = y])

NewDeferred ==
  [target |-> None,        \* resolvedPromise
   messages |-> <<>>,      \* kept until it is resolved
   listeners |-> <<>>,     \* progressListeners: calls of then
   self |-> None,          \* of the call of then that made it: its promise,
   fulfilled |-> None,     \*   its three callbacks
   rejected |-> None,
   progressed |-> None,
   done |-> FALSE,         \*   whether one was called,
   answer |-> Pending,     \*   and, a history, with what outcome of a deferred
   array |-> None,         \* of the call of all or any that made it
   pendingCount |-> 0,
   waiting |-> <<>>]       \* history: calls of then on it, not answered yet

\* rejected and progress are the operands of when, arg those of other messages.
Message(op, arg, resolve, rejected, progress) ==
  [op |-> op, arg |-> arg, resolve |-> resolve, rejected |-> rejected, progress |-> progress]

Gives(h, x) == [h EXCEPT !.it = x]
Throws(h, e) == [h EXCEPT !.it = <<"throw", e>>]

IsResolved(h, d) == h.deferred[d].target # None

-----------------------------------------------------------------------------
(* nextTick, defer and Q *)

\* Seeded fault: a tick is asked for only when the queue was not empty.
NextTick_Fault(h, task) ==
  [h EXCEPT !.queue = Append(@, task),
            !.flush = IF @ = "idle" /\ h.queue # <<>> THEN "requested" ELSE @]

NextTick(h, task) ==
  [h EXCEPT !.queue = Append(@, task),
            !.flush = IF @ = "idle" THEN "requested" ELSE @]

NextTicks(h, tasks) ==
  [h EXCEPT !.queue = @ \o tasks,
            !.flush = IF @ = "idle" /\ tasks # <<>> THEN "requested" ELSE @]

Dispatching(x, msg) == [do |-> "dispatch", to |-> x, msg |-> msg]

Defer(h) ==
  [h EXCEPT !.deferred = Append(@, NewDeferred), !.it = Deferred(Len(h.deferred) + 1)]

\* Seeded fault: the messages overtake what is in the queue.
Become_Fault(h, d, x) ==
  LET msgs == h.deferred[d].messages
      tasks == [i \in 1..Len(msgs) |-> Dispatching(x, msgs[i])]
  IN [h EXCEPT !.queue = tasks \o @,
               !.flush = IF @ = "idle" /\ tasks # <<>> THEN "requested" ELSE @,
               !.deferred[d] = [@ EXCEPT !.target = x, !.messages = <<>>, !.listeners = <<>>]]

Become(h, d, x) ==
  LET msgs == h.deferred[d].messages
      g == NextTicks(h, [i \in 1..Len(msgs) |-> Dispatching(x, msgs[i])])
  IN [g EXCEPT !.deferred[d] = [@ EXCEPT !.target = x, !.messages = <<>>, !.listeners = <<>>]]

\* Q(x): foreign thenables are called in a turn of their own.
ToPromise(h, x) ==
  CASE IsPromise(x) -> Gives(h, x)
    [] x[1] = "thenable" ->
         LET g == Defer(h)
         IN NextTick(g, [do |-> "coerce", thenable |-> x, deferred |-> Len(g.deferred)])
    [] OTHER -> Gives(h, Fulfilled(x))

\* reject(e) makes a rejection that nobody has handled.
Rejection(h, e) ==
  LET k == h.rejections + 1
  IN [h EXCEPT !.rejections = k, !.unhandled = @ \cup {k}, !.it = <<"rejected", k, e>>]

Untrack(h, k) == [h EXCEPT !.unhandled = @ \ {k}]

Resolve(h, d, x) ==
  IF IsResolved(h, d) THEN h
  ELSE LET g == ToPromise(h, x) IN Become(g, d, g.it)

Reject(h, d, e) ==
  IF IsResolved(h, d) THEN h
  ELSE LET g == Rejection(h, e) IN Become(g, d, g.it)

Notify(h, d, x) ==
  IF IsResolved(h, d) THEN h
  ELSE LET calls == h.deferred[d].listeners
       IN NextTicks(h, [i \in 1..Len(calls) |-> [do |-> "progress", of |-> calls[i], value |-> x]])

\* promiseDispatch of a deferred.
Send(h, d, msg) ==
  LET r == h.deferred[d]
      calls == IF msg.progress = None THEN r.listeners
               ELSE Append(r.listeners, msg.progress[2])
  IN IF IsResolved(h, d) THEN NextTick(h, Dispatching(r.target, msg))
     ELSE [h EXCEPT !.deferred[d] =
             [r EXCEPT !.messages = Append(r.messages, msg), !.listeners = calls]]

\* The promise that x has become: one that no longer changes, or a pending one.
Nearest(h, x) ==
  LET follow[n \in 0..Len(h.deferred)] ==
        [d \in DOMAIN h.deferred |->
           LET y == h.deferred[d].target
           IN IF n = 0 \/ y = None THEN Deferred(d)
              ELSE IF y[1] # "deferred" THEN y
              ELSE follow[n - 1][y[2]]]
  IN IF x[1] = "deferred" THEN follow[Len(h.deferred)][x[2]] ELSE x

Inspect(h, x) ==
  LET y == Nearest(h, x)
  IN CASE y[1] = "deferred" -> Pending
       [] y[1] = "fulfilled" -> y
       [] y[1] = "rejected" -> <<"rejected", y[3]>>

-----------------------------------------------------------------------------
(* then, and the messages to promises *)

\* The two messages of call d of then.
ToAnswer(d) == Message("when", None, <<"then", d>>, <<"then", d>>, None)
ToListen(d) == Message("when", None, None, None, <<"then", d>>)

\* History: call d of then waits for x.
Waits(deferred, x, d) ==
  IF x[1] = "deferred" THEN [deferred EXCEPT ![x[2]].waiting = Append(@, d)] ELSE deferred

\* Listeners are known at once, the handlers one turn later.
Then(h, x, fulfilled, rejected, progressed) ==
  LET d == Len(h.deferred) + 1
      made == [NewDeferred EXCEPT !.self = x, !.fulfilled = fulfilled, !.rejected = rejected,
                                  !.progressed = progressed]
      g == [h EXCEPT !.deferred = Append(Waits(@, x, d), made)]
      k == NextTick(g, Dispatching(x, ToAnswer(d)))
  IN Gives(IF x[1] = "deferred" THEN Send(k, x[2], ToListen(d)) ELSE k, Deferred(d))

When(h, x, fulfilled, rejected, progressed) ==
  LET g == ToPromise(h, x) IN Then(g, g.it, fulfilled, rejected, progressed)

\* dispatch: a message whose answer resolves a new promise.
Dispatch(h, x, op, arg) ==
  LET g == Defer(h)
  IN NextTick(g, Dispatching(x, Message(op, arg, <<"deferred", Len(g.deferred)>>, None, None)))

\* get, set, delete, post, send, apply, call, bind and keys of a promise or a value.
Ask(h, x, op, arg) == LET g == ToPromise(h, x) IN Dispatch(g, g.it, op, arg)

Fcall(h, f, arg) == Ask(h, f, "apply", arg)

Fail(h, x, rejected) == When(h, x, None, rejected, None)
ProgressOf(h, x, progressed) == When(h, x, None, None, progressed)
ThenResolve(h, x, y) == When(h, x, <<"returns", y>>, None, None)
ThenReject(h, x, e) == When(h, x, <<"throws", e>>, None, None)

\* Seeded fault: it watches the promise, not what the handlers made of it.
Done_Fault(h, x, fulfilled, rejected, progressed) ==
  LET g == IF {fulfilled, rejected, progressed} = {None} THEN ToPromise(h, x)
           ELSE When(h, x, fulfilled, rejected, progressed)
      k == ToPromise(g, x)
  IN Gives(Then(k, k.it, None, <<"unhandled">>, None), Undefined)

\* done(): what its handlers leave unhandled is thrown in a turn of its own.
Done(h, x, fulfilled, rejected, progressed) ==
  LET g == IF {fulfilled, rejected, progressed} = {None} THEN ToPromise(h, x)
           ELSE When(h, x, fulfilled, rejected, progressed)
  IN Gives(Then(g, g.it, None, <<"unhandled">>, None), Undefined)

=============================================================================
