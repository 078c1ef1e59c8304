----------------------------- MODULE QCountsProofs -----------------------------
(***************************************************************************)
(* all and any of q.js count their items, for any scripts and any number   *)
(* of promises: the count of a promise that is not resolved is the number  *)
(* of the calls of then that are still to be answered for it.  With it,    *)
(* and the invariant of QScriptsProofs, the memory has its types.          *)
(***************************************************************************)
EXTENDS QScriptsProofs, FiniteSetTheorems

-----------------------------------------------------------------------------
(* What all and any count *)

\* What the counts are about has its shape.
Tidy(h) ==
  /\ DOMAIN h = MemoryFields /\ IsSeq(h.deferred)
  /\ h.flush \in {"idle", "requested", "running"}
  /\ \A d \in DOMAIN h.deferred : DOMAIN h.deferred[d] = DeferredFields

\* The deferred v is counted as it was, when it has become w.
Recounts(v, w) ==
  /\ DOMAIN w = DeferredFields
  /\ w.pendingCount = v.pendingCount /\ w.array = v.array
  /\ w.self = v.self /\ w.fulfilled = v.fulfilled /\ w.rejected = v.rejected /\ w.done = v.done
  /\ v.target # None => w.target # None

\* Nobody counts with the deferred r.
IsUncounted(r) ==
  /\ DOMAIN r = DeferredFields /\ r.array = None /\ r.pendingCount = 0
  /\ r.fulfilled[1] \notin {"gather", "miss"} /\ r.rejected[1] \notin {"gather", "miss"}

\* What was counted is, and nothing more.
Steady(h, g) ==
  /\ Tidy(g)
  /\ \A d \in DOMAIN h.deferred :
       d \in DOMAIN g.deferred /\ Recounts(h.deferred[d], g.deferred[d])
  /\ \A d \in DOMAIN g.deferred : d \notin DOMAIN h.deferred => IsUncounted(g.deferred[d])

LEMMA SteadyTrans ==
  ASSUME NEW h, NEW g, NEW k, Steady(h, g), Steady(g, k)
  PROVE  Steady(h, k)
<1>1. Tidy(k)
  BY DEF Steady
<1>2. \A d \in DOMAIN h.deferred :
        d \in DOMAIN k.deferred /\ Recounts(h.deferred[d], k.deferred[d])
  BY DEF Steady, Recounts
<1>3. ASSUME NEW d \in DOMAIN k.deferred, d \notin DOMAIN h.deferred
      PROVE  IsUncounted(k.deferred[d])
  <2>1. CASE d \in DOMAIN g.deferred
    BY <1>3, <2>1 DEF Steady, Recounts, IsUncounted
  <2>2. CASE d \notin DOMAIN g.deferred
    BY <2>2 DEF Steady
  <2> QED
    BY <2>1, <2>2
<1> QED
  BY <1>1, <1>2, <1>3 DEF Steady

\* Nothing but what is not of the deferreds changes.
LEMMA SteadyAside ==
  ASSUME NEW h, Tidy(h), NEW g, DOMAIN g = MemoryFields, g.deferred = h.deferred,
         g.flush \in {"idle", "requested", "running"}
  PROVE  Steady(h, g)
BY DEF Steady, Tidy, Recounts

\* One deferred changes.
LEMMA SteadyAt ==
  ASSUME NEW h, Tidy(h), NEW d, NEW r, d \in DOMAIN h.deferred => Recounts(h.deferred[d], r),
         NEW g, DOMAIN g = MemoryFields, g.deferred = [h.deferred EXCEPT ![d] = r],
         g.flush \in {"idle", "requested", "running"}
  PROVE  Steady(h, g)
<1>1. /\ DOMAIN g.deferred = DOMAIN h.deferred
      /\ g.deferred = [e \in DOMAIN g.deferred |-> g.deferred[e]]
      /\ \A e \in DOMAIN h.deferred : g.deferred[e] = IF e = d THEN r ELSE h.deferred[e]
  OBVIOUS
<1>2. IsSeq(g.deferred)
  <2>1. DOMAIN h.deferred = 1..Len(h.deferred) /\ Len(h.deferred) \in Nat
    BY SeqIs DEF Tidy
  <2> QED
    BY <1>1, <2>1, IsSeqIs
<1>3. \A e \in DOMAIN h.deferred : Recounts(h.deferred[e], g.deferred[e])
  BY <1>1 DEF Recounts, Tidy
<1>4. Tidy(g)
  BY <1>1, <1>2, <1>3 DEF Tidy, Recounts
<1> QED
  BY <1>1, <1>3, <1>4 DEF Steady

\* A deferred is new.
IsAppended(h, g, r) ==
  LET n == Len(h.deferred) + 1
  IN /\ n \in DOMAIN g.deferred /\ n \notin DOMAIN h.deferred /\ g.deferred[n] = r
     /\ \A d \in DOMAIN h.deferred : d \in DOMAIN g.deferred /\ g.deferred[d] = h.deferred[d]
     /\ \A d \in DOMAIN g.deferred : d \in DOMAIN h.deferred \/ d = n

LEMMA TidyNew ==
  ASSUME NEW h, Tidy(h), NEW r, DOMAIN r = DeferredFields,
         NEW g, DOMAIN g = MemoryFields, g.deferred = Append(h.deferred, r),
         g.flush \in {"idle", "requested", "running"}
  PROVE  Tidy(g) /\ IsAppended(h, g, r)
<1> DEFINE n == Len(h.deferred) + 1
<1>1. /\ IsSeq(g.deferred) /\ DOMAIN g.deferred = 1..n /\ g.deferred[n] = r
      /\ \A d \in DOMAIN h.deferred : g.deferred[d] = h.deferred[d]
  BY AppendIs DEF Tidy
<1>2. DOMAIN h.deferred = 1..(n - 1) /\ n \in Nat /\ n # 0
  BY SeqIs DEF Tidy
<1> HIDE DEF n
<1>3. /\ \A d \in DOMAIN g.deferred : d \in DOMAIN h.deferred \/ d = n
      /\ \A d \in DOMAIN h.deferred : d \in DOMAIN g.deferred
      /\ n \in DOMAIN g.deferred /\ n \notin DOMAIN h.deferred
  BY <1>1, <1>2
<1>4. \A d \in DOMAIN g.deferred : DOMAIN g.deferred[d] = DeferredFields
  BY <1>1, <1>3 DEF Tidy
<1>5. Tidy(g)
  BY <1>1, <1>4 DEF Tidy
<1>6. IsAppended(h, g, r)
  BY <1>1, <1>3 DEF IsAppended, n
<1> QED
  BY <1>5, <1>6

LEMMA SteadyNew ==
  ASSUME NEW h, Tidy(h), NEW r, IsUncounted(r),
         NEW g, DOMAIN g = MemoryFields, g.deferred = Append(h.deferred, r),
         g.flush \in {"idle", "requested", "running"}
  PROVE  Steady(h, g)
<1>1. Tidy(g) /\ IsAppended(h, g, r)
  BY TidyNew DEF IsUncounted
<1>2. \A d \in DOMAIN h.deferred : DOMAIN h.deferred[d] = DeferredFields
  BY DEF Tidy
<1>3. \A d \in DOMAIN h.deferred :
        d \in DOMAIN g.deferred /\ Recounts(h.deferred[d], g.deferred[d])
  BY <1>1, <1>2 DEF IsAppended, Recounts
<1> QED
  BY <1>1, <1>3 DEF Steady, IsAppended

LEMMA AsideSteady ==
  ASSUME NEW h, Tidy(h)
  PROVE  /\ Steady(h, h)
         /\ \A x : Steady(h, Gives(h, x)) /\ Steady(h, Throws(h, x)) /\ Steady(h, Rejection(h, x))
                   /\ Steady(h, Untrack(h, x)) /\ Steady(h, NextTick(h, x))
                   /\ Steady(h, NextTicks(h, x)) /\ Steady(h, Ended(h))
         /\ \A f \in {"timers", "thrown", "called", "outside", "held", "notified", "fired",
                      "late", "queue", "it"} :
              \A x : Steady(h, [h EXCEPT ![f] = x])
<1>1. DOMAIN h = MemoryFields /\ h.flush \in {"idle", "requested", "running"}
  BY DEF Tidy
<1>2. Steady(h, h)
  BY <1>1, SteadyAside
<1>3. ASSUME NEW f \in {"timers", "thrown", "called", "outside", "held", "notified", "fired",
                        "late", "queue", "it"}, NEW x
      PROVE  Steady(h, [h EXCEPT ![f] = x])
  <2> DEFINE g == [h EXCEPT ![f] = x]
  <2>1. DOMAIN g = MemoryFields /\ g.deferred = h.deferred /\ g.flush = h.flush
    BY <1>1 DEF MemoryFields
  <2> HIDE DEF g
  <2>2. Steady(h, g)
    BY <1>1, <2>1, SteadyAside
  <2> QED
    BY <2>2 DEF g
<1>4. ASSUME NEW x PROVE Steady(h, Gives(h, x)) /\ Steady(h, Throws(h, x)) /\ Steady(h, Ended(h))
  BY <1>3 DEF Gives, Throws, Ended
<1>5. ASSUME NEW x PROVE Steady(h, Rejection(h, x))
  <2> DEFINE g == Rejection(h, x)
  <2>1. DOMAIN g = MemoryFields /\ g.deferred = h.deferred /\ g.flush = h.flush
    BY <1>1 DEF Rejection, MemoryFields
  <2> HIDE DEF g
  <2>2. Steady(h, g)
    BY <1>1, <2>1, SteadyAside
  <2> QED
    BY <2>2 DEF g
<1>6. ASSUME NEW x PROVE Steady(h, Untrack(h, x))
  <2> DEFINE g == Untrack(h, x)
  <2>1. DOMAIN g = MemoryFields /\ g.deferred = h.deferred /\ g.flush = h.flush
    BY <1>1 DEF Untrack, MemoryFields
  <2> HIDE DEF g
  <2>2. Steady(h, g)
    BY <1>1, <2>1, SteadyAside
  <2> QED
    BY <2>2 DEF g
<1>7. ASSUME NEW x PROVE Steady(h, NextTick(h, x))
  <2> DEFINE g == NextTick(h, x)
  <2>1. /\ DOMAIN g = MemoryFields /\ g.deferred = h.deferred
        /\ g.flush = IF h.flush = "idle" THEN "requested" ELSE h.flush
    BY <1>1 DEF NextTick, MemoryFields
  <2> HIDE DEF g
  <2>2. Steady(h, g)
    BY <1>1, <2>1, SteadyAside
  <2> QED
    BY <2>2 DEF g
<1>8. ASSUME NEW x PROVE Steady(h, NextTicks(h, x))
  <2> DEFINE g == NextTicks(h, x)
  <2>1. /\ DOMAIN g = MemoryFields /\ g.deferred = h.deferred
        /\ g.flush = IF h.flush = "idle" /\ x # <<>> THEN "requested" ELSE h.flush
    BY <1>1 DEF NextTicks, MemoryFields
  <2> HIDE DEF g
  <2>2. Steady(h, g)
    BY <1>1, <2>1, SteadyAside
  <2> QED
    BY <2>2 DEF g
<1> QED
  BY <1>2, <1>3, <1>4, <1>5, <1>6, <1>7, <1>8

\* A callback that counts for nobody.
CountsNot(cb) == cb[1] \notin {"gather", "miss"}

LEMMA NoneCountsNot == CountsNot(None)
<1>1. None[1] = "none"
  BY DEF None
<1> QED
  BY <1>1 DEF CountsNot

LEMMA DeferSteady ==
  ASSUME NEW h, Tidy(h)
  PROVE  /\ Steady(h, Defer(h)) /\ Defer(h).deferred = Append(h.deferred, NewDeferred)
         /\ Defer(h).it = Deferred(Len(h.deferred) + 1)
<1> DEFINE g == Defer(h)
<1>1. /\ DOMAIN g = MemoryFields /\ g.deferred = Append(h.deferred, NewDeferred)
      /\ g.flush = h.flush /\ h.flush \in {"idle", "requested", "running"}
      /\ g.it = Deferred(Len(h.deferred) + 1)
  BY DEF Tidy, Defer, MemoryFields
<1> HIDE DEF g
<1>2. IsUncounted(NewDeferred)
  <2>1. NewDeferred.pendingCount = 0
    BY DEF NewDeferred
  <2> QED
    BY <2>1, NewDeferredIs, NoneCountsNot DEF IsUncounted, CountsNot
<1>3. Steady(h, g)
  BY <1>1, <1>2, SteadyNew
<1> QED
  BY <1>1, <1>3 DEF g

LEMMA BecomeSteady ==
  ASSUME NEW h, Tidy(h), NEW d, NEW x, x # None
  PROVE  LET g == Become(h, d, x)
         IN Steady(h, g) /\ (d \in DOMAIN h.deferred => IsResolved(g, d))
<1> DEFINE msgs == h.deferred[d].messages
           k == NextTicks(h, [i \in 1..Len(msgs) |-> Dispatching(x, msgs[i])])
           r == [h.deferred[d] EXCEPT !.target = x, !.messages = <<>>, !.listeners = <<>>]
           g == Become(h, d, x)
<1>1. DOMAIN k = MemoryFields /\ k.deferred = h.deferred /\ Steady(h, k)
  <2>1. Steady(h, k)
    BY AsideSteady
  <2>2. k.deferred = h.deferred
    BY DEF Tidy, NextTicks, MemoryFields
  <2> QED
    BY <2>1, <2>2 DEF Steady, Tidy
<1>2. g = [k EXCEPT !.deferred = [k.deferred EXCEPT ![d] = [k.deferred[d] EXCEPT !.target = x, !.messages = <<>>, !.listeners = <<>>]]]
  BY DEF Become
<1> HIDE DEF k, g
<1>3. g = [k EXCEPT !.deferred = [h.deferred EXCEPT ![d] = r]]
  BY <1>1, <1>2
<1>4. DOMAIN g = MemoryFields /\ g.deferred = [h.deferred EXCEPT ![d] = r] /\ g.flush = k.flush
  BY <1>1, <1>3 DEF MemoryFields
<1>5. d \in DOMAIN h.deferred => Recounts(h.deferred[d], r) /\ r.target = x
  <2>1. d \in DOMAIN h.deferred => DOMAIN h.deferred[d] = DeferredFields
    BY DEF Tidy
  <2> QED
    BY <2>1 DEF Recounts, DeferredFields
<1> HIDE DEF r
<1>6. g.flush \in {"idle", "requested", "running"}
  BY <1>1, <1>4 DEF Steady, Tidy
<1>7. Steady(h, g)
  BY <1>4, <1>5, <1>6, SteadyAt
<1>8. d \in DOMAIN h.deferred => IsResolved(g, d)
  BY <1>4, <1>5 DEF IsResolved
<1> QED
  BY <1>7, <1>8 DEF g

LEMMA PromisesAre == \A x : IsPromise(x) => x # None
BY NoPromiseIsNone

LEMMA ToPromiseSteady ==
  ASSUME NEW h, Tidy(h), NEW x
  PROVE  LET g == ToPromise(h, x) IN Steady(h, g) /\ IsPromise(g.it) /\ Tidy(g)
<1> DEFINE g == ToPromise(h, x)
<1> SUFFICES Steady(h, g) /\ IsPromise(g.it)
  BY DEF Steady
<1>0. DOMAIN h = MemoryFields
  BY DEF Tidy
<1>1. CASE IsPromise(x)
  <2>1. g = Gives(h, x)
    BY <1>1 DEF ToPromise, IsPromise
  <2>2. Steady(h, g)
    BY <2>1, AsideSteady
  <2> QED
    BY <1>0, <1>1, <2>1, <2>2 DEF Gives, MemoryFields
<1>2. CASE ~IsPromise(x) /\ x[1] = "thenable"
  <2> DEFINE k == Defer(h)
             t == [do |-> "coerce", thenable |-> x, deferred |-> Len(k.deferred)]
  <2>1. g = NextTick(k, t)
    BY <1>2 DEF ToPromise
  <2>2. Steady(h, k) /\ Tidy(k) /\ k.it = Deferred(Len(h.deferred) + 1)
    BY DeferSteady DEF Steady
  <2> HIDE DEF k, t
  <2>3. Steady(h, g)
    BY <2>1, <2>2, AsideSteady, SteadyTrans
  <2>4. g.it = k.it
    BY <2>1, <2>2 DEF NextTick, Tidy, MemoryFields
  <2> HIDE DEF g
  <2> QED
    BY <2>2, <2>3, <2>4, DeferredIs DEF IsPromise
<1>3. CASE ~IsPromise(x) /\ x[1] # "thenable"
  <2>1. g = Gives(h, Fulfilled(x))
    BY <1>3 DEF ToPromise
  <2>2. Steady(h, g)
    BY <2>1, AsideSteady
  <2> QED
    BY <1>0, <2>1, <2>2 DEF Gives, MemoryFields, Fulfilled, IsPromise
<1> QED
  BY <1>1, <1>2, <1>3

LEMMA ResolveSteady ==
  ASSUME NEW h, Tidy(h), NEW d, NEW x
  PROVE  LET g == Resolve(h, d, x)
         IN Steady(h, g) /\ (d \in DOMAIN h.deferred => IsResolved(g, d))
<1> DEFINE g == Resolve(h, d, x)
           k == ToPromise(h, x)
<1> SUFFICES Steady(h, g) /\ (d \in DOMAIN h.deferred => IsResolved(g, d))
  OBVIOUS
<1>1. Steady(h, k) /\ Tidy(k) /\ k.it # None
  BY ToPromiseSteady, PromisesAre
<1>2. CASE IsResolved(h, d)
  <2>1. g = h
    BY <1>2 DEF Resolve
  <2> QED
    BY <1>2, <2>1, AsideSteady
<1>3. CASE ~IsResolved(h, d)
  <2>1. g = Become(k, d, k.it)
    BY <1>3 DEF Resolve
  <2> HIDE DEF k
  <2>2. Steady(k, g) /\ (d \in DOMAIN k.deferred => IsResolved(g, d))
    BY <1>1, <2>1, BecomeSteady
  <2> HIDE DEF g
  <2> QED
    BY <1>1, <2>2, SteadyTrans DEF Steady
<1> QED
  BY <1>2, <1>3

LEMMA RejectSteady ==
  ASSUME NEW h, Tidy(h), NEW d, NEW e
  PROVE  LET g == Reject(h, d, e)
         IN Steady(h, g) /\ (d \in DOMAIN h.deferred => IsResolved(g, d))
<1> DEFINE g == Reject(h, d, e)
           k == Rejection(h, e)
<1> SUFFICES Steady(h, g) /\ (d \in DOMAIN h.deferred => IsResolved(g, d))
  OBVIOUS
<1>1. Steady(h, k) /\ Tidy(k) /\ k.it # None
  <2>1. Steady(h, k)
    BY AsideSteady
  <2>2. k.it = <<"rejected", h.rejections + 1, e>>
    BY DEF Tidy, Rejection, MemoryFields
  <2> HIDE DEF k
  <2>3. IsPromise(k.it)
    BY <2>2 DEF IsPromise
  <2> QED
    BY <2>1, <2>3, PromisesAre DEF Steady
<1>2. CASE IsResolved(h, d)
  <2>1. g = h
    BY <1>2 DEF Reject
  <2> QED
    BY <1>2, <2>1, AsideSteady
<1>3. CASE ~IsResolved(h, d)
  <2>1. g = Become(k, d, k.it)
    BY <1>3 DEF Reject
  <2> HIDE DEF k
  <2>2. Steady(k, g) /\ (d \in DOMAIN k.deferred => IsResolved(g, d))
    BY <1>1, <2>1, BecomeSteady
  <2> HIDE DEF g
  <2> QED
    BY <1>1, <2>2, SteadyTrans DEF Steady
<1> QED
  BY <1>2, <1>3

LEMMA NotifySteady ==
  ASSUME NEW h, Tidy(h), NEW d, NEW x
  PROVE  Steady(h, Notify(h, d, x))
<1>1. CASE IsResolved(h, d)
  BY <1>1, AsideSteady DEF Notify
<1>2. CASE ~IsResolved(h, d)
  BY <1>2, AsideSteady DEF Notify
<1> QED
  BY <1>1, <1>2

LEMMA SendSteady ==
  ASSUME NEW h, Tidy(h), NEW d, NEW msg
  PROVE  Steady(h, Send(h, d, msg))
<1> DEFINE g == Send(h, d, msg)
<1>1. CASE IsResolved(h, d)
  BY <1>1, AsideSteady DEF Send
<1>2. CASE ~IsResolved(h, d)
  <2> DEFINE v == h.deferred[d]
             calls == IF msg.progress = None THEN v.listeners ELSE Append(v.listeners, msg.progress[2])
             r == [v EXCEPT !.messages = Append(v.messages, msg), !.listeners = calls]
  <2>1. g = [h EXCEPT !.deferred = [h.deferred EXCEPT ![d] = r]]
    BY <1>2 DEF Send
  <2>2. d \in DOMAIN h.deferred => Recounts(v, r)
    <3>1. d \in DOMAIN h.deferred => DOMAIN v = DeferredFields
      BY DEF Tidy
    <3> HIDE DEF v, calls
    <3> QED
      BY <3>1 DEF Recounts, DeferredFields
  <2> HIDE DEF g, r
  <2>3. /\ DOMAIN g = MemoryFields /\ g.deferred = [h.deferred EXCEPT ![d] = r]
        /\ g.flush \in {"idle", "requested", "running"}
    BY <2>1 DEF Tidy, MemoryFields
  <2>4. Steady(h, g)
    BY <2>2, <2>3, SteadyAt
  <2> QED
    BY <2>4 DEF g
<1> QED
  BY <1>1, <1>2


\* The deferred of a call of then, before anything is done with it.
CallMade(x, fulfilled, rejected, progressed) ==
  [NewDeferred EXCEPT !.self = x, !.fulfilled = fulfilled, !.rejected = rejected,
                      !.progressed = progressed]

\* It has been added, and nothing else has changed for what is counted.
HasOpened(h, g, r) ==
  /\ Tidy(g)
  /\ \A d \in DOMAIN h.deferred :
       d \in DOMAIN g.deferred /\ Recounts(h.deferred[d], g.deferred[d])
  /\ \E n \in DOMAIN g.deferred :
       /\ n \notin DOMAIN h.deferred /\ g.deferred[n] = r
       /\ \A d \in DOMAIN g.deferred : d \in DOMAIN h.deferred \/ d = n

LEMMA CallMadeIs ==
  \A x, fulfilled, rejected, progressed :
    LET r == CallMade(x, fulfilled, rejected, progressed)
    IN /\ DOMAIN r = DeferredFields /\ r.self = x /\ r.fulfilled = fulfilled
       /\ r.rejected = rejected /\ r.done = FALSE /\ r.array = None /\ r.pendingCount = 0
BY DEF CallMade, NewDeferred, DeferredFields

LEMMA WaitsSteady ==
  ASSUME NEW h, Tidy(h), NEW x, NEW n
  PROVE  LET g == [h EXCEPT !.deferred = Waits(h.deferred, x, n)]
         IN Steady(h, g) /\ DOMAIN g.deferred = DOMAIN h.deferred
<1> DEFINE g == [h EXCEPT !.deferred = Waits(h.deferred, x, n)]
           v == h.deferred[x[2]]
           r == [v EXCEPT !.waiting = Append(@, n)]
<1>1. DOMAIN h = MemoryFields /\ h.flush \in {"idle", "requested", "running"}
  BY DEF Tidy
<1>2. DOMAIN g = MemoryFields /\ g.deferred = Waits(h.deferred, x, n) /\ g.flush = h.flush
  BY <1>1 DEF MemoryFields
<1> HIDE DEF g
<1>3. CASE x[1] = "deferred"
  <2>1. g.deferred = [h.deferred EXCEPT ![x[2]] = r]
    BY <1>2, <1>3 DEF Waits
  <2>2. x[2] \in DOMAIN h.deferred => Recounts(v, r)
    <3>1. x[2] \in DOMAIN h.deferred => DOMAIN v = DeferredFields
      BY DEF Tidy
    <3> HIDE DEF v
    <3> QED
      BY <3>1 DEF Recounts, DeferredFields
  <2> HIDE DEF r
  <2>3. Steady(h, g)
    BY <1>1, <1>2, <2>1, <2>2, SteadyAt
  <2> QED
    BY <2>1, <2>3 DEF g
<1>4. CASE x[1] # "deferred"
  <2>1. g.deferred = h.deferred
    BY <1>2, <1>4 DEF Waits
  <2>2. Steady(h, g)
    BY <1>1, <1>2, <2>1, SteadyAside
  <2> QED
    BY <2>1, <2>2 DEF g
<1> QED
  BY <1>3, <1>4

LEMMA ThenMakes ==
  ASSUME NEW h, Tidy(h), NEW x, NEW fulfilled, NEW rejected, NEW progressed
  PROVE  \E k : /\ HasOpened(h, k, CallMade(x, fulfilled, rejected, progressed))
                /\ Steady(k, Then(h, x, fulfilled, rejected, progressed))
<1> DEFINE n == Len(h.deferred) + 1
           r == CallMade(x, fulfilled, rejected, progressed)
           w == [h EXCEPT !.deferred = Waits(h.deferred, x, n)]
           k == [h EXCEPT !.deferred = Append(Waits(@, x, n), r)]
           a == NextTick(k, Dispatching(x, ToAnswer(n)))
           b == IF x[1] = "deferred" THEN Send(a, x[2], ToListen(n)) ELSE a
           g == Then(h, x, fulfilled, rejected, progressed)
<1>1. g = Gives(b, Deferred(n))
  BY DEF Then, CallMade
<1>2. Steady(h, w) /\ Tidy(w) /\ DOMAIN w.deferred = DOMAIN h.deferred
  BY WaitsSteady DEF Steady
<1>3. /\ DOMAIN k = MemoryFields /\ k.deferred = Append(w.deferred, r)
      /\ k.flush \in {"idle", "requested", "running"}
  BY DEF Tidy, MemoryFields
<1> HIDE DEF w, k
<1>4. DOMAIN r = DeferredFields
  BY CallMadeIs
<1> HIDE DEF r
<1>5. Tidy(k) /\ IsAppended(w, k, r)
  BY <1>2, <1>3, <1>4, TidyNew
<1>6. HasOpened(h, k, r)
  BY <1>2, <1>5 DEF HasOpened, IsAppended, Steady
<1>7. Steady(k, a) /\ Tidy(a)
  BY <1>5, AsideSteady DEF Steady
<1> HIDE DEF a
<1>8. Steady(k, b) /\ Tidy(b)
  <2>1. Steady(a, b)
    BY <1>7, SendSteady, AsideSteady
  <2> HIDE DEF b
  <2> QED
    BY <1>7, <2>1, SteadyTrans DEF Steady
<1> HIDE DEF b
<1>9. Steady(k, g)
  BY <1>1, <1>8, AsideSteady, SteadyTrans
<1> QED
  BY <1>6, <1>9 DEF r

LEMMA OpenedSteady ==
  ASSUME NEW h, NEW k, NEW r, HasOpened(h, k, r), IsUncounted(r)
  PROVE  Steady(h, k)
BY DEF HasOpened, Steady

LEMMA ThenSteady ==
  ASSUME NEW h, Tidy(h), NEW x, NEW fulfilled, CountsNot(fulfilled),
         NEW rejected, CountsNot(rejected), NEW progressed
  PROVE  Steady(h, Then(h, x, fulfilled, rejected, progressed))
<1> DEFINE r == CallMade(x, fulfilled, rejected, progressed)
<1>1. IsUncounted(r)
  BY CallMadeIs DEF IsUncounted, CountsNot
<1> HIDE DEF r
<1>2. PICK k : HasOpened(h, k, r) /\ Steady(k, Then(h, x, fulfilled, rejected, progressed))
  BY ThenMakes DEF r
<1> QED
  BY <1>1, <1>2, OpenedSteady, SteadyTrans

LEMMA WhenSteady ==
  ASSUME NEW h, Tidy(h), NEW x, NEW fulfilled, CountsNot(fulfilled),
         NEW rejected, CountsNot(rejected), NEW progressed
  PROVE  LET g == When(h, x, fulfilled, rejected, progressed) IN Steady(h, g) /\ Tidy(g)
<1> DEFINE k == ToPromise(h, x)
           g == When(h, x, fulfilled, rejected, progressed)
<1>1. g = Then(k, k.it, fulfilled, rejected, progressed)
  BY DEF When
<1>2. Steady(h, k) /\ Tidy(k)
  BY ToPromiseSteady
<1> HIDE DEF k
<1>3. Steady(h, g)
  BY <1>1, <1>2, ThenSteady, SteadyTrans
<1> QED
  BY <1>3 DEF Steady

LEMMA AskSteady ==
  ASSUME NEW h, Tidy(h), NEW x, NEW op, NEW arg
  PROVE  LET g == Ask(h, x, op, arg) IN Steady(h, g) /\ Tidy(g)
<1> DEFINE k == ToPromise(h, x)
           a == Defer(k)
           t == Dispatching(k.it, Message(op, arg, <<"deferred", Len(a.deferred)>>, None, None))
           g == Ask(h, x, op, arg)
<1>1. g = NextTick(a, t)
  BY DEF Ask, Dispatch
<1>2. Steady(h, k) /\ Tidy(k)
  BY ToPromiseSteady
<1> HIDE DEF k, t
<1>3. Steady(h, a) /\ Tidy(a)
  BY <1>2, DeferSteady, SteadyTrans DEF Steady
<1> HIDE DEF a
<1>4. Steady(h, g)
  BY <1>1, <1>3, AsideSteady, SteadyTrans
<1> QED
  BY <1>4 DEF Steady

LEMMA FcallSteady ==
  ASSUME NEW h, Tidy(h), NEW f, NEW arg
  PROVE  LET g == Fcall(h, f, arg) IN Steady(h, g) /\ Tidy(g)
BY AskSteady DEF Fcall


\* The callbacks that the library gives to then, but for those of all and any.
LEMMA LibraryCountsNot ==
  /\ CountsNot(<<"all">>) /\ CountsNot(<<"allResolved">>) /\ CountsNot(<<"allSettled">>)
  /\ CountsNot(<<"race">>) /\ CountsNot(<<"unhandled">>) /\ CountsNot(<<"delay">>)
  /\ \A x : /\ CountsNot(<<"resolve", x>>) /\ CountsNot(<<"reject", x>>)
            /\ CountsNot(<<"notify", x>>) /\ CountsNot(<<"returns", x>>)
            /\ CountsNot(<<"throws", x>>) /\ CountsNot(<<"inspect", x>>)
            /\ CountsNot(<<"spread", x>>) /\ CountsNot(<<"tap", x>>) /\ CountsNot(<<"tells", x>>)
  /\ \A x, y : /\ CountsNot(<<"finally", x, y>>) /\ CountsNot(<<"clears", x, y>>)
               /\ CountsNot(<<"continue", x, y>>)
BY DEF CountsNot

LEMMA ForItemSteady ==
  ASSUME NEW h, Tidy(h), NEW of \in {"race", "Q", "noop", "regardless"}, NEW d, NEW i, NEW x
  PROVE  Steady(h, ForItem(h, of, d, i, x))
<1> DEFINE g == ForItem(h, of, d, i, x)
<1>1. CASE of = "race"
  <2>1. g = When(h, x, <<"resolve", d>>, <<"reject", d>>, None)
    BY <1>1 DEF ForItem
  <2> QED
    BY <2>1, WhenSteady, LibraryCountsNot
<1>2. CASE of = "Q"
  <2>1. g = ToPromise(h, x)
    BY <1>2 DEF ForItem
  <2> QED
    BY <2>1, ToPromiseSteady
<1>3. CASE of = "noop"
  <2>1. g = When(h, x, <<"returns", Undefined>>, <<"returns", Undefined>>, None)
    BY <1>3 DEF ForItem
  <2> QED
    BY <2>1, WhenSteady, LibraryCountsNot
<1>4. CASE of = "regardless"
  <2> DEFINE k == ToPromise(h, x)
  <2>1. g = Then(k, k.it, <<"inspect", k.it>>, <<"inspect", k.it>>, None)
    BY <1>4 DEF ForItem
  <2>2. Steady(h, k) /\ Tidy(k)
    BY ToPromiseSteady
  <2> HIDE DEF k
  <2> QED
    BY <2>1, <2>2, ThenSteady, SteadyTrans, LibraryCountsNot
<1> QED
  BY <1>1, <1>2, <1>3, <1>4

LEMMA LoopSteady ==
  ASSUME NEW h, Tidy(h), NEW of \in {"race", "Q", "noop", "regardless"}, NEW d,
         NEW items, IsSeq(items)
  PROVE  LET g == OverItems(h, of, d, items) IN Steady(h, g) /\ Tidy(g)
<1> DEFINE L == Loop(h, of, d, items)
           N == Len(items)
           S == {n \in Nat : n \in 0..N => Steady(h, L[n])}
<1>1. N \in Nat
  BY SeqIs
<1>2. L[0] = h /\ \A n \in 1..N : L[n] = ForItem(L[n - 1], of, d, n, items[n])
  BY LoopIs
<1> HIDE DEF L, N
<1>3. 0 \in S
  BY <1>2, AsideSteady
<1>4. ASSUME NEW n \in Nat, n \in S, n + 1 \in 0..N PROVE Steady(h, L[n + 1])
  <2>1. n \in 0..N /\ n + 1 \in 1..N /\ (n + 1) - 1 = n
    BY <1>1, <1>4
  <2>2. Steady(h, L[n]) /\ Tidy(L[n])
    BY <1>4, <2>1 DEF Steady
  <2>3. L[n + 1] = ForItem(L[n], of, d, n + 1, items[n + 1])
    BY <1>2, <2>1
  <2>4. Steady(L[n], L[n + 1])
    BY <2>2, <2>3, ForItemSteady
  <2> QED
    BY <2>2, <2>4, SteadyTrans
<1>5. \A n \in Nat : n \in S => n + 1 \in S
  BY <1>4
<1>6. \A n \in Nat : n \in S
  <2> HIDE DEF S
  <2> QED
    BY <1>3, <1>5, NatSet
<1>7. N \in Nat /\ N \in S /\ N \in 0..N
  BY <1>1, <1>6
<1>8. Steady(h, L[N])
  BY <1>7
<1> QED
  BY <1>8 DEF OverItems, Steady, L, N

LEMMA MapItemsSteady ==
  ASSUME NEW h, Tidy(h), NEW of \in {"Q", "noop", "regardless"}, NEW items, IsSeq(items)
  PROVE  LET g == MapItems(h, of, items) IN Steady(h, g) /\ Tidy(g)
<1> DEFINE k == OverItems(h, of, None, items)
           g == MapItems(h, of, items)
<1>1. Steady(h, k) /\ Tidy(k)
  BY LoopSteady
<1>2. \E x : g = Gives(k, x)
  BY DEF MapItems, Mapped, OverItems
<1> HIDE DEF k, g
<1>3. Steady(h, g)
  BY <1>1, <1>2, AsideSteady, SteadyTrans
<1> QED
  BY <1>3 DEF g, Steady

LEMMA WhensSteady ==
  ASSUME NEW h, Tidy(h), NEW x
  PROVE  /\ Steady(h, All(h, x)) /\ Steady(h, AllOfIt(h))
         /\ Steady(h, AllResolved(h, x)) /\ Steady(h, AllSettled(h, x))
         /\ Steady(h, Nodeify(h, x)) /\ Steady(h, Delay(h, x))
         /\ \A y : /\ Steady(h, ThenResolve(h, x, y)) /\ Steady(h, ThenReject(h, x, y))
                   /\ Steady(h, Tap(h, x, y)) /\ Steady(h, Finally(h, x, y))
                   /\ Steady(h, ProgressOf(h, x, y))
                   /\ CountsNot(y) => Steady(h, Fail(h, x, y))
<1> DEFINE S(g) == Steady(h, g)
<1>1. \A z : S(All(h, z))
  BY WhenSteady, LibraryCountsNot, NoneCountsNot DEF All
<1>2. S(AllOfIt(h))
  BY <1>1 DEF AllOfIt
<1>3. S(AllResolved(h, x)) /\ S(AllSettled(h, x)) /\ S(Delay(h, x))
  BY WhenSteady, LibraryCountsNot, NoneCountsNot DEF AllResolved, AllSettled, Delay
<1>4. S(Nodeify(h, x))
  <2> DEFINE k == When(h, x, <<"tells", "value">>, <<"tells", "error">>, None)
  <2>1. Steady(h, k) /\ Tidy(k)
    BY WhenSteady, LibraryCountsNot
  <2>2. Nodeify(h, x) = Gives(k, Undefined)
    BY DEF Nodeify
  <2> HIDE DEF k
  <2> QED
    BY <2>1, <2>2, AsideSteady, SteadyTrans
<1>5. \A y : S(ThenResolve(h, x, y)) /\ S(ThenReject(h, x, y))
  BY WhenSteady, LibraryCountsNot, NoneCountsNot DEF ThenResolve, ThenReject
<1>6. \A y : S(Tap(h, x, y))
  BY WhenSteady, LibraryCountsNot, NoneCountsNot DEF Tap
<1>7. \A y : S(Finally(h, x, y))
  BY WhenSteady, LibraryCountsNot, NoneCountsNot DEF Finally
<1>8. \A y : S(ProgressOf(h, x, y))
  BY WhenSteady, NoneCountsNot DEF ProgressOf
<1>9. \A y : CountsNot(y) => S(Fail(h, x, y))
  BY WhenSteady, NoneCountsNot DEF Fail
<1> QED
  BY <1>1, <1>2, <1>3, <1>4, <1>5, <1>6, <1>7, <1>8, <1>9


LEMMA MapItemsSeq ==
  ASSUME NEW h, Tidy(h), NEW of \in {"Q", "noop", "regardless"}, NEW items, IsSeq(items)
  PROVE  IsSeq(Items(MapItems(h, of, items).it))
<1> DEFINE L == Loop(h, of, None, items)
           N == Len(items)
           a == [i \in 1..N |-> L[i].it]
           k == OverItems(h, of, None, items)
           g == MapItems(h, of, items)
<1>1. N \in Nat
  BY SeqIs
<1>2. DOMAIN k = MemoryFields
  BY LoopSteady DEF Tidy
<1>3. g = Gives(k, Array(a))
  BY DEF MapItems, Mapped, OverItems
<1> HIDE DEF L, N, k, g
<1>4. IsSeq(a)
  <2>1. DOMAIN a = 1..N /\ a = [i \in DOMAIN a |-> a[i]]
    OBVIOUS
  <2> HIDE DEF a
  <2> QED
    BY <1>1, <2>1, IsSeqIs
<1> HIDE DEF a
<1>5. Items(g.it) = a
  BY <1>2, <1>3 DEF Gives, MemoryFields, Array, Items
<1> QED
  BY <1>4, <1>5 DEF g

LEMMA DoneSteady ==
  ASSUME NEW h, Tidy(h), NEW x, NEW fulfilled, CountsNot(fulfilled),
         NEW rejected, CountsNot(rejected), NEW progressed
  PROVE  Steady(h, Done(h, x, fulfilled, rejected, progressed))
<1> DEFINE g == IF {fulfilled, rejected, progressed} = {None} THEN ToPromise(h, x)
                ELSE When(h, x, fulfilled, rejected, progressed)
           k == Then(g, g.it, None, <<"unhandled">>, None)
<1>1. Steady(h, g) /\ Tidy(g)
  BY ToPromiseSteady, WhenSteady
<1>2. Done(h, x, fulfilled, rejected, progressed) = Gives(k, Undefined)
  BY DEF Done
<1> HIDE DEF g
<1>3. Steady(h, k)
  BY <1>1, ThenSteady, SteadyTrans, LibraryCountsNot, NoneCountsNot
<1> HIDE DEF k
<1>4. Tidy(k)
  BY <1>3 DEF Steady
<1> QED
  BY <1>2, <1>3, <1>4, AsideSteady, SteadyTrans

LEMMA OnceSettledSteady ==
  ASSUME NEW h, Tidy(h), IsSeq(Items(h.it))
  PROVE  Steady(h, OnceSettled(h))
<1> DEFINE a == MapItems(h, "noop", Items(h.it))
           g == AllOfIt(a)
<1>1. OnceSettled(h) = ThenResolve(g, g.it, h.it)
  BY DEF OnceSettled
<1>2. Steady(h, a) /\ Tidy(a)
  BY MapItemsSteady
<1> HIDE DEF a
<1>3. Steady(h, g) /\ Tidy(g)
  BY <1>2, WhensSteady, SteadyTrans DEF Steady
<1> HIDE DEF g
<1> QED
  BY <1>1, <1>3, WhensSteady, SteadyTrans

LEMMA OfArraySteady ==
  ASSUME NEW h, Tidy(h), NEW x, IsSeq(Items(x))
  PROVE  Steady(h, AllResolvedOf(h, x)) /\ Steady(h, AllSettledOf(h, x)) /\ Steady(h, Race(h, x))
<1>1. Steady(h, Throws(h, TypeError))
  BY AsideSteady
<1>2. Steady(h, AllResolvedOf(h, x))
  <2> DEFINE a == MapItems(h, "Q", Items(x))
  <2>1. Steady(h, a) /\ Tidy(a) /\ IsSeq(Items(a.it))
    BY MapItemsSteady, MapItemsSeq
  <2> HIDE DEF a
  <2>2. Steady(h, OnceSettled(a))
    BY <2>1, OnceSettledSteady, SteadyTrans
  <2> QED
    BY <1>1, <2>2 DEF AllResolvedOf, a
<1>3. Steady(h, AllSettledOf(h, x))
  <2> DEFINE a == MapItems(h, "regardless", Items(x))
  <2>1. Steady(h, a) /\ Tidy(a)
    BY MapItemsSteady
  <2> HIDE DEF a
  <2>2. Steady(h, AllOfIt(a))
    BY <2>1, WhensSteady, SteadyTrans
  <2> QED
    BY <1>1, <2>2 DEF AllSettledOf, a
<1>4. Steady(h, Race(h, x))
  <2> DEFINE a == Defer(h)
             d == Len(a.deferred)
             b == IF x = Undefined THEN Reject(a, d, TypeError) ELSE OverItems(a, "race", d, Items(x))
  <2>1. Race(h, x) = Gives(b, Deferred(d))
    BY DEF Race
  <2>2. Steady(h, a) /\ Tidy(a)
    BY DeferSteady DEF Steady
  <2> HIDE DEF a, d
  <2>3. Steady(a, b)
    BY <2>2, RejectSteady, LoopSteady
  <2> HIDE DEF b
  <2>4. Steady(h, b) /\ Tidy(b)
    BY <2>2, <2>3, SteadyTrans DEF Steady
  <2> QED
    BY <2>1, <2>4, AsideSteady, SteadyTrans
<1> QED
  BY <1>2, <1>3, <1>4

LEMMA NewPromiseSteady ==
  ASSUME NEW h, Tidy(h), NEW resolver \in Resolver
  PROVE  Steady(h, NewPromise(h, resolver))
<1> DEFINE a == Defer(h)
           d == Len(a.deferred)
           b == Reject(a, d, resolver[2])
<1>1. Steady(h, a) /\ Tidy(a)
  BY DeferSteady DEF Steady
<1>2. CASE resolver[1] = "throws"
  <2>1. NewPromise(h, resolver) = Gives(b, Deferred(d))
    BY <1>2 DEF NewPromise
  <2> HIDE DEF a, d
  <2>2. Steady(h, b) /\ Tidy(b)
    BY <1>1, RejectSteady, SteadyTrans DEF Steady
  <2> HIDE DEF b
  <2> QED
    BY <2>1, <2>2, AsideSteady, SteadyTrans
<1>3. CASE resolver[1] = "keeps"
  <2>1. NewPromise(h, resolver) = [a EXCEPT !["outside"] = a.outside \cup {d}]
    BY <1>3 DEF NewPromise
  <2> HIDE DEF a, d
  <2> QED
    BY <1>1, <2>1, AsideSteady, SteadyTrans
<1>4. resolver[1] \in {"throws", "keeps"}
  BY DEF Resolver
<1> QED
  BY <1>2, <1>3, <1>4

LEMMA SpreadSteady ==
  ASSUME NEW h, Tidy(h), NEW x, NEW fulfilled, NEW rejected, CountsNot(rejected)
  PROVE  Steady(h, Spread(h, x, fulfilled, rejected))
<1> DEFINE g == All(h, x)
<1>1. Steady(h, g) /\ Tidy(g)
  BY WhensSteady DEF Steady
<1>2. Spread(h, x, fulfilled, rejected) = When(g, g.it, <<"spread", fulfilled>>, rejected, None)
  BY DEF Spread
<1> HIDE DEF g
<1> QED
  BY <1>1, <1>2, WhenSteady, SteadyTrans, LibraryCountsNot

LEMMA PromisedSteady ==
  ASSUME NEW h, Tidy(h), NEW x, NEW args, NEW f
  PROVE  Steady(h, Join(h, x, args)) /\ Steady(h, Promised(h, x, args, f))
<1> DEFINE g == All(h, Array(args))
<1>1. Steady(h, g) /\ Tidy(g)
  BY WhensSteady DEF Steady
<1>2. Promised(h, x, args, f) = Spread(g, Array(<<x, g.it>>), f, None)
  BY DEF Promised
<1> HIDE DEF g
<1>3. Steady(h, Promised(h, x, args, f))
  BY <1>1, <1>2, SpreadSteady, SteadyTrans, NoneCountsNot
<1>4. Steady(h, Join(h, x, args))
  BY SpreadSteady, NoneCountsNot DEF Join
<1> QED
  BY <1>3, <1>4

LEMMA TimeoutSteady ==
  ASSUME NEW h, Tidy(h), NEW x
  PROVE  Steady(h, Timeout(h, x)) /\ Steady(h, Nfapply(h, x))
<1> DEFINE d == Len(h.deferred) + 1
           a == Defer(h)
<1>1. Steady(h, a) /\ Tidy(a)
  BY DeferSteady DEF Steady
<1>2. Steady(h, Timeout(h, x))
  <2> DEFINE g == [a EXCEPT !["timers"] = a.timers \cup {<<"timeout", d>>}]
             k == When(g, x, <<"clears", d, "resolve">>, <<"clears", d, "reject">>, <<"notify", d>>)
  <2>1. Timeout(h, x) = Gives(k, Deferred(d))
    BY DEF Timeout
  <2> HIDE DEF a, d
  <2>2. Steady(h, g) /\ Tidy(g)
    BY <1>1, AsideSteady, SteadyTrans DEF Steady
  <2> HIDE DEF g
  <2>3. Steady(h, k) /\ Tidy(k)
    BY <2>2, WhenSteady, SteadyTrans, LibraryCountsNot
  <2> HIDE DEF k
  <2> QED
    BY <2>1, <2>3, AsideSteady, SteadyTrans
<1>3. Steady(h, Nfapply(h, x))
  <2> DEFINE g == Fcall(a, <<"function", x>>, <<"nodeback", d>>)
             k == Fail(g, g.it, <<"reject", d>>)
  <2>1. Nfapply(h, x) = Gives(k, Deferred(d))
    BY DEF Nfapply
  <2> HIDE DEF a, d
  <2>2. Steady(h, g) /\ Tidy(g)
    BY <1>1, FcallSteady, SteadyTrans
  <2> HIDE DEF g
  <2>3. Steady(h, k)
    BY <2>2, WhensSteady, SteadyTrans, LibraryCountsNot
  <2> HIDE DEF k
  <2>4. Tidy(k)
    BY <2>3 DEF Steady
  <2> QED
    BY <2>1, <2>3, <2>4, AsideSteady, SteadyTrans
<1> QED
  BY <1>2, <1>3

LEMMA ContinuerSteady ==
  ASSUME NEW h, Tidy(h), NEW verb \in {"next", "throw"}, NEW generator \in Generator, NEW x
  PROVE  Steady(h, Continuer(h, verb, generator, x))
<1> DEFINE yields == generator[2]
           end == generator[3]
           rest == <<"generator", Tail(yields), end>>
           g == Continuer(h, verb, generator, x)
<1>0. end[1] \in {"returns", "throws"}
  BY DEF Generator, End
<1>1. CASE verb = "throw"
  BY <1>1, AsideSteady DEF Continuer
<1>2. CASE verb = "next" /\ yields # <<>>
  <2>1. g = When(h, Head(yields), <<"continue", "next", rest>>, <<"continue", "throw", rest>>, None)
    BY <1>2 DEF Continuer
  <2> QED
    BY <2>1, WhenSteady, LibraryCountsNot
<1>3. CASE verb = "next" /\ yields = <<>> /\ end[1] = "returns"
  <2>1. g = ToPromise(h, end[2])
    BY <1>3 DEF Continuer
  <2> QED
    BY <2>1, ToPromiseSteady
<1>4. CASE verb = "next" /\ yields = <<>> /\ end[1] = "throws"
  <2>1. g = Rejection(h, end[2])
    BY <1>4 DEF Continuer
  <2> QED
    BY <2>1, AsideSteady
<1> QED
  BY <1>0, <1>1, <1>2, <1>3, <1>4

LEMMA SpawnSteady ==
  ASSUME NEW h, Tidy(h), NEW generator \in Generator
  PROVE  Steady(h, Async(h, generator)) /\ Steady(h, Spawn(h, generator))
<1> DEFINE g == Async(h, generator)
<1>1. Steady(h, g) /\ Tidy(g)
  BY ContinuerSteady DEF Async, Steady
<1>2. Spawn(h, generator) = Done(g, g.it, None, None, None)
  BY DEF Spawn
<1> HIDE DEF g
<1>3. Steady(h, Spawn(h, generator))
  BY <1>1, <1>2, DoneSteady, SteadyTrans, NoneCountsNot
<1> QED
  BY <1>1, <1>3 DEF g


LEMMA CallScriptSteady ==
  ASSUME NEW h, Tidy(h), NEW f, IsScript(f), NEW x
  PROVE  Steady(h, CallScript(h, f, x))
<1> DEFINE g == CallScript(h, f, x)
<1> SUFFICES Steady(h, g)
  OBVIOUS
<1>1. CASE f[1] = "returns"
  <2>1. g = Gives(h, f[2])
    BY <1>1 DEF CallScript
  <2> QED
    BY <2>1, AsideSteady
<1>2. CASE f[1] = "throws"
  <2>1. g = Throws(h, f[2])
    BY <1>2 DEF CallScript
  <2> QED
    BY <2>1, AsideSteady
<1>3. CASE f[1] = "same"
  <2>1. g = IF ItemOf(x, 1) = ItemOf(x, 2) THEN Gives(h, ItemOf(x, 1)) ELSE Throws(h, NotTheSame)
    BY <1>3 DEF CallScript
  <2> QED
    BY <2>1, AsideSteady
<1>4. CASE f[1] = "callsBack" /\ x[1] = "nodeback"
  <2> DEFINE k == CallNodeResolver(h, x[2], f[2], f[3])
  <2>1. g = Gives(k, Undefined)
    BY <1>4 DEF CallScript
  <2>2. Steady(h, k)
    BY ResolveSteady, RejectSteady DEF CallNodeResolver
  <2> HIDE DEF k, g
  <2>3. Tidy(k)
    BY <2>2 DEF Steady
  <2>4. Steady(k, g)
    BY <2>1, <2>3, AsideSteady
  <2>5. Steady(h, g)
    BY <2>2, <2>4, SteadyTrans
  <2> QED
    BY <2>5 DEF g
<1>5. CASE f[1] = "keepsBack" /\ x[1] = "nodeback"
  <2> DEFINE k == [h EXCEPT !["outside"] = h.outside \cup {x[2]}]
  <2>1. g = Gives(k, Undefined)
    BY <1>5 DEF CallScript
  <2>2. Steady(h, k)
    BY AsideSteady
  <2> HIDE DEF k, g
  <2>3. Tidy(k)
    BY <2>2 DEF Steady
  <2>4. Steady(k, g)
    BY <2>1, <2>3, AsideSteady
  <2>5. Steady(h, g)
    BY <2>2, <2>4, SteadyTrans
  <2> QED
    BY <2>5 DEF g
<1>6. CASE f[1] \in {"callsBack", "keepsBack"} /\ x[1] # "nodeback"
  <2>1. g = Throws(h, TypeError)
    BY <1>6 DEF CallScript
  <2> QED
    BY <2>1, AsideSteady
<1> HIDE DEF g
<1> QED
  BY <1>1, <1>2, <1>3, <1>4, <1>5, <1>6 DEF IsScript

LEMMA CallLibrarySteady ==
  ASSUME NEW h, Tidy(h), NEW cb, NEW x,
         cb[1] \in {"resolve", "reject", "notify", "clears", "unhandled", "tells"}
  PROVE  LET g == CallLibrary(h, cb, x)
         IN /\ Steady(h, g)
            /\ cb[1] \in {"resolve", "reject"} /\ cb[2] \in DOMAIN h.deferred => IsResolved(g, cb[2])
<1> DEFINE g == CallLibrary(h, cb, x)
           d == cb[2]
<1> SUFFICES /\ Steady(h, g)
             /\ cb[1] \in {"resolve", "reject"} /\ d \in DOMAIN h.deferred => IsResolved(g, d)
  OBVIOUS
<1>1. CASE cb[1] = "resolve"
  <2>1. g = Resolve(h, d, x)
    BY <1>1 DEF CallLibrary
  <2> QED
    BY <2>1, ResolveSteady
<1>2. CASE cb[1] = "reject"
  <2>1. g = Reject(h, d, x)
    BY <1>2 DEF CallLibrary
  <2> QED
    BY <2>1, RejectSteady
<1>3. CASE cb[1] = "notify"
  <2>1. g = Notify(h, d, x)
    BY <1>3 DEF CallLibrary
  <2> HIDE DEF g
  <2> QED
    BY <1>3, <2>1, NotifySteady
<1>4. CASE cb[1] = "clears"
  <2> DEFINE k == [h EXCEPT !["timers"] = h.timers \ {<<"timeout", d>>}]
  <2>1. g = IF cb[3] = "resolve" THEN Resolve(k, d, x) ELSE Reject(k, d, x)
    BY <1>4 DEF CallLibrary
  <2>2. Steady(h, k)
    BY AsideSteady
  <2> HIDE DEF k, g
  <2>3. Tidy(k)
    BY <2>2 DEF Steady
  <2>4. Steady(k, g)
    BY <2>1, <2>3, ResolveSteady, RejectSteady
  <2> QED
    BY <1>4, <2>2, <2>4, SteadyTrans
<1>5. CASE cb[1] \in {"unhandled", "tells"}
  <2>1. \E t : g = NextTick(h, t)
    BY <1>5 DEF CallLibrary
  <2> HIDE DEF g
  <2> QED
    BY <1>5, <2>1, AsideSteady
<1> HIDE DEF g
<1> QED
  BY <1>1, <1>2, <1>3, <1>4, <1>5

LEMMA CallForValueSteady ==
  ASSUME NEW h, Tidy(h), NEW a, NEW cb, IsCallback(a, cb),
         cb[1] \in {"allResolved", "allSettled", "race", "inspect", "spread", "tap",
                    "finally", "continue", "delay"},
         NEW x, IsSeq(Items(x))
  PROVE  Steady(h, CallForValue(h, cb, x))
<1> DEFINE g == CallForValue(h, cb, x)
<1> SUFFICES Steady(h, g)
  OBVIOUS
<1>0. cb \notin Function
  BY FunctionIs
<1>1. CASE cb[1] = "allResolved"
  <2>1. g = AllResolvedOf(h, x)
    BY <1>1 DEF CallForValue
  <2> QED
    BY <2>1, OfArraySteady
<1>2. CASE cb[1] = "allSettled"
  <2>1. g = AllSettledOf(h, x)
    BY <1>2 DEF CallForValue
  <2> QED
    BY <2>1, OfArraySteady
<1>3. CASE cb[1] = "race"
  <2>1. g = Race(h, x)
    BY <1>3 DEF CallForValue
  <2> QED
    BY <2>1, OfArraySteady
<1>4. CASE cb[1] = "inspect"
  <2>1. g = Gives(h, <<"snapshot", Inspect(h, cb[2])>>)
    BY <1>4 DEF CallForValue
  <2> QED
    BY <2>1, AsideSteady
<1>5. CASE cb[1] = "spread"
  <2>1. g = CallScript(h, cb[2], x)
    BY <1>5 DEF CallForValue
  <2>2. cb[2] \in Function \cup {<<"same">>}
    BY <1>0, <1>5 DEF IsCallback
  <2>3. IsScript(cb[2])
    BY <2>2, FunctionIs DEF IsScript
  <2> QED
    BY <2>1, <2>3, CallScriptSteady
<1>6. CASE cb[1] = "tap"
  <2> DEFINE k == Fcall(h, cb[2], x)
  <2>1. g = ThenResolve(k, k.it, x)
    BY <1>6 DEF CallForValue
  <2>2. Steady(h, k) /\ Tidy(k)
    BY FcallSteady
  <2> HIDE DEF k, g
  <2> QED
    BY <2>1, <2>2, WhensSteady, SteadyTrans
<1>7. CASE cb[1] = "finally"
  <2> DEFINE k == Fcall(h, cb[2], Undefined)
  <2>1. g = Then(k, k.it, <<cb[3], x>>, None, None)
    BY <1>7 DEF CallForValue
  <2>2. cb[3] \in {"returns", "throws"}
    BY <1>0, <1>7 DEF IsCallback
  <2>3. CountsNot(<<cb[3], x>>)
    BY <2>2, LibraryCountsNot
  <2>4. Steady(h, k) /\ Tidy(k)
    BY FcallSteady
  <2> HIDE DEF k, g
  <2> QED
    BY <2>1, <2>3, <2>4, ThenSteady, NoneCountsNot, SteadyTrans
<1>8. CASE cb[1] = "continue"
  <2>1. g = Continuer(h, cb[2], cb[3], x)
    BY <1>8 DEF CallForValue
  <2>2. cb[2] \in {"next", "throw"} /\ cb[3] \in Generator
    BY <1>0, <1>8 DEF IsCallback
  <2> QED
    BY <2>1, <2>2, ContinuerSteady
<1>9. CASE cb[1] = "delay"
  <2> DEFINE k == Defer(h)
             timers == k.timers \cup {<<"delay", Len(k.deferred), x>>}
  <2>1. g = [k EXCEPT !["timers"] = timers]
    BY <1>9 DEF CallForValue
  <2>2. Steady(h, k) /\ Tidy(k)
    BY DeferSteady DEF Steady
  <2> HIDE DEF k, g, timers
  <2> QED
    BY <2>1, <2>2, AsideSteady, SteadyTrans
<1> HIDE DEF g
<1> QED
  BY <1>1, <1>2, <1>3, <1>4, <1>5, <1>6, <1>7, <1>8, <1>9

\* Every callback but those of all and any, and what gathers for them.
LEMMA CallSteady ==
  ASSUME NEW h, Tidy(h), NEW a, NEW cb, IsCallback(a, cb) \/ IsListener(a, cb),
         cb[1] \notin {"gather", "miss", "all"}, NEW x, IsSeq(Items(x))
  PROVE  LET g == Call(h, cb, x)
         IN /\ Steady(h, g)
            /\ cb[1] \in {"resolve", "reject"} /\ cb[2] \in DOMAIN h.deferred => IsResolved(g, cb[2])
<1> DEFINE g == Call(h, cb, x)
<1> SUFFICES /\ Steady(h, g)
             /\ cb[1] \in {"resolve", "reject"} /\ cb[2] \in DOMAIN h.deferred => IsResolved(g, cb[2])
  OBVIOUS
<1>0. cb \in Function => cb[1] \in {"returns", "throws", "callsBack", "keepsBack"}
  BY FunctionIs
<1>1. CASE IsScript(cb)
  <2>1. g = CallScript(h, cb, x)
    BY <1>1 DEF Call, IsScript
  <2>2. cb[1] \notin {"resolve", "reject"}
    BY <1>1 DEF IsScript
  <2> QED
    BY <1>1, <2>1, <2>2, CallScriptSteady
<1>2. CASE cb[1] \in {"resolve", "reject", "notify", "clears", "unhandled", "tells"}
  <2> DEFINE k == CallLibrary(h, cb, x)
  <2>1. g = Gives(k, Undefined)
    BY <1>2 DEF Call, IsScript
  <2>2. /\ Steady(h, k)
        /\ cb[1] \in {"resolve", "reject"} /\ cb[2] \in DOMAIN h.deferred => IsResolved(k, cb[2])
    BY <1>2, CallLibrarySteady
  <2> HIDE DEF k, g
  <2>3. Tidy(k)
    BY <2>2 DEF Steady
  <2>4. Steady(k, g)
    BY <2>1, <2>3, AsideSteady
  <2>5. Steady(h, g)
    BY <2>2, <2>4, SteadyTrans
  <2>6. g.deferred = k.deferred
    BY <2>1, <2>3 DEF Tidy, Gives, MemoryFields
  <2> QED
    BY <2>2, <2>5, <2>6 DEF IsResolved
<1>3. CASE cb[1] \in {"allResolved", "allSettled", "race", "inspect", "spread", "tap",
                      "finally", "continue", "delay"}
  <2>1. g = CallForValue(h, cb, x)
    BY <1>3 DEF Call, IsScript
  <2>2. IsCallback(a, cb)
    BY <1>0, <1>3 DEF IsListener
  <2>3. Steady(h, g)
    BY <1>3, <2>1, <2>2, CallForValueSteady
  <2> QED
    BY <1>3, <2>3
<1> HIDE DEF g
<1>4. \/ IsScript(cb)
      \/ cb[1] \in {"resolve", "reject", "notify", "clears", "unhandled", "tells"}
      \/ cb[1] \in {"allResolved", "allSettled", "race", "inspect", "spread", "tap",
                    "finally", "continue", "delay"}
  BY <1>0 DEF IsScript, IsCallback, IsListener
<1> QED
  BY <1>1, <1>2, <1>3, <1>4

LEMMA CaughtSteady ==
  ASSUME NEW h, Tidy(h)
  PROVE  Steady(h, Caught(h))
BY AsideSteady DEF Caught


\* The promise of all or any that the call of then with the deferred r counts for, or 0.
CounterOf(r) ==
  CASE r.fulfilled[1] = "gather" -> r.fulfilled[2]
    [] r.rejected[1] = "miss" -> r.rejected[2]
    [] OTHER -> 0

DoesCount(r) == r.fulfilled[1] = "gather" \/ r.rejected[1] = "miss"

\* The calls that count for d, and are still to be answered.
Counting(h, d) == {c \in DOMAIN h.deferred : ~IsDone(h, c) /\ CounterOf(h.deferred[c]) = d}

\* d is the promise of a call of all, or of any.
IsCounter(h, d) ==
  Gathered(h, d) # None \/ \E c \in DOMAIN h.deferred : CounterOf(h.deferred[c]) = d

\* The callbacks of all, and those of any, go together.
IsPair(h, r) ==
  /\ r.fulfilled[1] # "miss" /\ r.rejected[1] # "gather"
  /\ r.fulfilled[1] = "gather" => r.rejected = <<"reject", r.fulfilled[2]>>
  /\ r.rejected[1] = "miss" => r.fulfilled = <<"resolve", r.rejected[2]>>
  /\ DoesCount(r) => CounterOf(r) \in DOMAIN h.deferred /\ r.self # None

\* The count of d is that of the calls that count for it, and k more.
CountFits(h, d, k) ==
  LET n == Cardinality(Counting(h, d)) + k
  IN /\ CountOf(h, d) \in Nat /\ n <= CountOf(h, d)
     /\ Gathered(h, d) # None =>
          IsSeq(Items(Gathered(h, d))) /\ CountOf(h, d) <= Len(Items(Gathered(h, d)))
     /\ ~IsResolved(h, d) => CountOf(h, d) = n

\* What counts to nothing has been resolved.
IsCountedOut(h, d) == ~IsResolved(h, d) /\ IsCounter(h, d) => CountOf(h, d) # 0

\* It is so for all but e, whose count is k too much and not looked at yet.
CountsBut(h, e, k) ==
  /\ Tidy(h)
  /\ \A c \in DOMAIN h.deferred : IsPair(h, h.deferred[c])
  /\ \A d \in DOMAIN h.deferred :
       CountFits(h, d, IF d = e THEN k ELSE 0) /\ (d # e => IsCountedOut(h, d))

CountInv(h) == CountsBut(h, 0, 0)

LEMMA CountingIsFinite ==
  ASSUME NEW h, Tidy(h), NEW d
  PROVE  IsFiniteSet(Counting(h, d)) /\ Cardinality(Counting(h, d)) \in Nat
<1> DEFINE S == Counting(h, d)
           D == DOMAIN h.deferred
<1>1. IsFiniteSet(D)
  <2>1. D = 1..Len(h.deferred) /\ Len(h.deferred) \in Nat
    BY SeqIs DEF Tidy
  <2> QED
    BY <2>1, FS_Interval
<1>2. S \in SUBSET D
  BY DEF Counting
<1> HIDE DEF S, D
<1>3. IsFiniteSet(S)
  BY <1>1, <1>2, FS_Subset
<1>4. Cardinality(S) \in Nat
  BY <1>3, FS_CardinalityType
<1> QED
  BY <1>3, <1>4 DEF S

LEMMA NumbersOf ==
  ASSUME NEW h, Tidy(h)
  PROVE  /\ 0 \notin DOMAIN h.deferred
         /\ DOMAIN h.deferred = 1..Len(h.deferred) /\ Len(h.deferred) \in Nat
<1>1. DOMAIN h.deferred = 1..Len(h.deferred) /\ Len(h.deferred) \in Nat
  BY SeqIs DEF Tidy
<1> QED
  BY <1>1

LEMMA UncountedIs ==
  ASSUME NEW r, r.fulfilled[1] \notin {"gather", "miss"}, r.rejected[1] \notin {"gather", "miss"}
  PROVE  CounterOf(r) = 0 /\ ~DoesCount(r) /\ \A h : IsPair(h, r)
BY DEF CounterOf, DoesCount, IsPair

LEMMA NotCountingIs ==
  ASSUME NEW r, ~DoesCount(r)
  PROVE  CounterOf(r) = 0
BY DEF CounterOf, DoesCount

LEMMA CountsSteady ==
  ASSUME NEW h, NEW e, NEW k, e = 0 \/ e \in DOMAIN h.deferred, CountsBut(h, e, k),
         NEW g, Steady(h, g)
  PROVE  CountsBut(g, e, k)
<1>1. Tidy(h) /\ Tidy(g)
  BY DEF CountsBut, Steady
<1>2. 0 \notin DOMAIN h.deferred /\ 0 \notin DOMAIN g.deferred
  BY <1>1, NumbersOf
<1>3. ASSUME NEW c \in DOMAIN h.deferred
      PROVE  /\ c \in DOMAIN g.deferred /\ IsDone(g, c) = IsDone(h, c)
             /\ CounterOf(g.deferred[c]) = CounterOf(h.deferred[c])
             /\ Gathered(g, c) = Gathered(h, c) /\ CountOf(g, c) = CountOf(h, c)
             /\ IsResolved(h, c) => IsResolved(g, c)
             /\ IsPair(g, g.deferred[c])
  <2>1. Recounts(h.deferred[c], g.deferred[c]) /\ DOMAIN h.deferred \subseteq DOMAIN g.deferred
    BY DEF Steady
  <2>2. IsPair(h, h.deferred[c])
    BY DEF CountsBut
  <2> QED
    BY <2>1, <2>2 DEF Recounts, IsDone, CounterOf, Gathered, CountOf, IsResolved, IsPair, DoesCount
<1>4. ASSUME NEW c \in DOMAIN g.deferred, c \notin DOMAIN h.deferred
      PROVE  /\ CounterOf(g.deferred[c]) = 0 /\ IsPair(g, g.deferred[c])
             /\ Gathered(g, c) = None /\ CountOf(g, c) = 0
  <2>1. IsUncounted(g.deferred[c])
    BY <1>4 DEF Steady
  <2>2. CounterOf(g.deferred[c]) = 0 /\ IsPair(g, g.deferred[c])
    BY <2>1, UncountedIs DEF IsUncounted
  <2> QED
    BY <2>1, <2>2 DEF IsUncounted, Gathered, CountOf
<1>5. ASSUME NEW d \in DOMAIN g.deferred PROVE Counting(g, d) = Counting(h, d)
  BY <1>2, <1>3, <1>4 DEF Counting
<1>6. ASSUME NEW d \in DOMAIN g.deferred
      PROVE  CountFits(g, d, IF d = e THEN k ELSE 0) /\ (d # e => IsCountedOut(g, d))
  <2>1. CASE d \in DOMAIN h.deferred
    <3>1. CountFits(h, d, IF d = e THEN k ELSE 0) /\ (d # e => IsCountedOut(h, d))
      BY <2>1 DEF CountsBut
    <3>2. CountFits(g, d, IF d = e THEN k ELSE 0)
      BY <1>3, <1>5, <2>1, <3>1 DEF CountFits
    <3>3. IsCounter(g, d) => IsCounter(h, d)
      BY <1>2, <1>3, <1>4, <2>1 DEF IsCounter
    <3> QED
      BY <1>3, <2>1, <3>1, <3>2, <3>3 DEF IsCountedOut
  <2>2. CASE d \notin DOMAIN h.deferred
    <3>1. d # e
      BY <1>2, <2>2
    <3>2. \A c \in DOMAIN g.deferred : CounterOf(g.deferred[c]) # d
      <4> SUFFICES ASSUME NEW c \in DOMAIN h.deferred PROVE CounterOf(h.deferred[c]) # d
        BY <1>2, <1>3, <1>4
      <4>1. IsPair(h, h.deferred[c])
        BY DEF CountsBut
      <4> QED
        BY <1>2, <2>2, <4>1, NotCountingIs DEF IsPair
    <3>3. Counting(g, d) = {}
      BY <3>2 DEF Counting
    <3>4. Cardinality(Counting(g, d)) = 0
      BY <3>3, FS_EmptySet
    <3>5. Gathered(g, d) = None /\ CountOf(g, d) = 0
      BY <1>4, <2>2
    <3> QED
      BY <3>1, <3>2, <3>4, <3>5 DEF CountFits, IsCountedOut, IsCounter
  <2> QED
    BY <2>1, <2>2
<1> QED
  BY <1>1, <1>3, <1>4, <1>6 DEF CountsBut

\* What was not looked at has been, or is none.
LEMMA CountsAgain ==
  ASSUME NEW h, NEW e, NEW k \in Nat, CountsBut(h, e, k),
         \/ e \notin DOMAIN h.deferred
         \/ IsResolved(h, e)
         \/ k = 0 /\ CountOf(h, e) # 0
  PROVE  CountInv(h)
<1>1. Tidy(h)
  BY DEF CountsBut
<1>2. ASSUME NEW d \in DOMAIN h.deferred PROVE CountFits(h, d, 0) /\ IsCountedOut(h, d)
  <2>1. Cardinality(Counting(h, d)) \in Nat
    BY <1>1, CountingIsFinite
  <2>2. CountFits(h, d, IF d = e THEN k ELSE 0) /\ (d # e => IsCountedOut(h, d))
    BY DEF CountsBut
  <2>3. CASE d # e
    BY <2>2, <2>3
  <2>4. CASE d = e /\ IsResolved(h, d)
    BY <2>1, <2>2, <2>4 DEF CountFits, IsCountedOut
  <2>5. CASE d = e /\ ~IsResolved(h, d)
    BY <2>2, <2>5 DEF IsCountedOut
  <2> QED
    BY <2>3, <2>4, <2>5
<1> QED
  BY <1>1, <1>2 DEF CountInv, CountsBut


LEMMA AnsweredSteady ==
  ASSUME NEW h, Tidy(h), NEW d, NEW o
  PROVE  Steady(h, Answered(h, d, o)) /\ Tidy(Answered(h, d, o))
<1> DEFINE g == Answered(h, d, o)
           e == h.deferred[d].self[2]
           t == h.deferred[d]
           r == [t EXCEPT !.answer = o]
           v == [h.deferred EXCEPT ![d] = r]
           a == [h EXCEPT !.deferred = v]
           z == v[e]
           w == Without(z.waiting, d)
           q == [z EXCEPT !.waiting = w]
<1> SUFFICES Steady(h, g)
  BY DEF Steady
<1>1. CASE h.deferred[d].self[1] # "deferred"
  <2>1. g = h
    BY <1>1 DEF Answered
  <2> QED
    BY <2>1, AsideSteady
<1>2. CASE h.deferred[d].self[1] = "deferred"
  <2>0. DOMAIN h = MemoryFields /\ h.flush \in {"idle", "requested", "running"}
    BY DEF Tidy
  <2>1. g = [h EXCEPT !.deferred = [v EXCEPT ![e] = q]]
    BY <1>2, <2>0 DEF Answered, MemoryFields
  <2>2. d \in DOMAIN h.deferred => Recounts(t, r)
    <3>1. d \in DOMAIN h.deferred => DOMAIN t = DeferredFields
      BY DEF Tidy
    <3> HIDE DEF t
    <3> QED
      BY <3>1 DEF Recounts, DeferredFields
  <2> HIDE DEF r
  <2>3. DOMAIN a = MemoryFields /\ a.deferred = v /\ a.flush = h.flush
    BY <2>0 DEF MemoryFields
  <2>4. g = [a EXCEPT !.deferred = [a.deferred EXCEPT ![e] = q]]
    BY <2>1, <2>3
  <2> HIDE DEF a
  <2>5. Steady(h, a) /\ Tidy(a)
    <3>1. Steady(h, a)
      BY <2>0, <2>2, <2>3, SteadyAt
    <3> QED
      BY <3>1 DEF Steady
  <2>6. e \in DOMAIN a.deferred => Recounts(a.deferred[e], q)
    <3>1. e \in DOMAIN a.deferred => DOMAIN z = DeferredFields
      BY <2>3, <2>5 DEF Tidy
    <3>2. a.deferred[e] = z
      BY <2>3
    <3> HIDE DEF z, w
    <3> QED
      BY <3>1, <3>2 DEF Recounts, DeferredFields
  <2> HIDE DEF q, v
  <2>7. /\ DOMAIN g = MemoryFields /\ g.deferred = [a.deferred EXCEPT ![e] = q]
        /\ g.flush = a.flush
    BY <2>3, <2>4 DEF MemoryFields
  <2> HIDE DEF g
  <2>8. Steady(a, g)
    BY <2>0, <2>3, <2>5, <2>6, <2>7, SteadyAt
  <2> QED
    BY <2>5, <2>8, SteadyTrans
<1> QED
  BY <1>1, <1>2

\* A deferred changes, but not what ties calls to promises.
LEMMA TidyAt ==
  ASSUME NEW h, Tidy(h), NEW d \in DOMAIN h.deferred, NEW r, DOMAIN r = DeferredFields,
         NEW g, DOMAIN g = MemoryFields, g.deferred = [h.deferred EXCEPT ![d] = r],
         g.flush = h.flush
  PROVE  /\ Tidy(g) /\ DOMAIN g.deferred = DOMAIN h.deferred /\ g.deferred[d] = r
         /\ \A e \in DOMAIN h.deferred : e # d => g.deferred[e] = h.deferred[e]
<1>1. /\ DOMAIN g.deferred = DOMAIN h.deferred /\ g.deferred[d] = r
      /\ g.deferred = [e \in DOMAIN g.deferred |-> g.deferred[e]]
      /\ \A e \in DOMAIN h.deferred : e # d => g.deferred[e] = h.deferred[e]
  OBVIOUS
<1>2. IsSeq(g.deferred)
  <2>1. DOMAIN h.deferred = 1..Len(h.deferred) /\ Len(h.deferred) \in Nat
    BY SeqIs DEF Tidy
  <2> QED
    BY <1>1, <2>1, IsSeqIs
<1> QED
  BY <1>1, <1>2 DEF Tidy

\* The call d has been answered, and its counter does not know.
LEMMA DoneCounts ==
  ASSUME NEW h, CountInv(h), NEW d \in DOMAIN h.deferred, ~IsDone(h, d), NEW o
  PROVE  LET g == AnsweredDone(h, d, o)
         IN /\ CountsBut(g, CounterOf(h.deferred[d]), 1)
            /\ DOMAIN g.deferred = DOMAIN h.deferred
            /\ \A c \in DOMAIN h.deferred : Gathered(g, c) = Gathered(h, c)
<1> DEFINE a == Answered(h, d, o)
           g == AnsweredDone(h, d, o)
           e == CounterOf(h.deferred[d])
           q == a.deferred[d]
           r == [q EXCEPT !.done = TRUE]
<1>1. Tidy(h)
  BY DEF CountInv, CountsBut
<1>2. Steady(h, a) /\ Tidy(a)
  BY <1>1, AnsweredSteady
<1>3. DOMAIN a.deferred = DOMAIN h.deferred
  BY <1>1 DEF Answered, Tidy, MemoryFields
<1>4. g = [a EXCEPT !.deferred = [a.deferred EXCEPT ![d] = r]]
  BY DEF AnsweredDone
<1> HIDE DEF a
<1>5. CountInv(a)
  BY <1>2, CountsSteady DEF CountInv
<1>6. ~IsDone(a, d) /\ CounterOf(a.deferred[d]) = e
  BY <1>2 DEF Steady, Recounts, IsDone, CounterOf
<1>7. DOMAIN q = DeferredFields
  BY <1>2, <1>3 DEF Tidy
<1> HIDE DEF e, q
<1>8. /\ DOMAIN r = DeferredFields /\ r.done = TRUE
      /\ r.target = q.target /\ r.self = q.self /\ r.fulfilled = q.fulfilled
      /\ r.rejected = q.rejected /\ r.array = q.array /\ r.pendingCount = q.pendingCount
  BY <1>7 DEF DeferredFields
<1> HIDE DEF r, g
<1>9. /\ DOMAIN g = MemoryFields /\ g.deferred = [a.deferred EXCEPT ![d] = r] /\ g.flush = a.flush
  BY <1>2, <1>4 DEF Tidy, MemoryFields
<1>10. /\ Tidy(g) /\ DOMAIN g.deferred = DOMAIN a.deferred /\ g.deferred[d] = r
       /\ \A f \in DOMAIN a.deferred : f # d => g.deferred[f] = a.deferred[f]
  BY <1>2, <1>3, <1>8, <1>9, TidyAt
<1>11. ASSUME NEW c \in DOMAIN a.deferred
       PROVE  /\ IsResolved(g, c) = IsResolved(a, c) /\ Gathered(g, c) = Gathered(a, c)
              /\ CountOf(g, c) = CountOf(a, c)
              /\ CounterOf(g.deferred[c]) = CounterOf(a.deferred[c])
              /\ IsPair(a, a.deferred[c]) => IsPair(g, g.deferred[c])
              /\ IsDone(g, c) = IF c = d THEN TRUE ELSE IsDone(a, c)
  <2>1. CASE c = d
    BY <1>8, <1>10, <2>1 DEF q, IsResolved, Gathered, CountOf, CounterOf, IsPair, DoesCount, IsDone
  <2>2. CASE c # d
    BY <1>10, <2>2 DEF IsResolved, Gathered, CountOf, CounterOf, IsPair, DoesCount, IsDone
  <2> QED
    BY <2>1, <2>2
<1>12. ASSUME NEW f \in DOMAIN a.deferred
       PROVE  Counting(g, f) = IF f = e THEN Counting(a, f) \ {d} ELSE Counting(a, f)
  BY <1>6, <1>10, <1>11 DEF Counting
<1>13. ASSUME NEW f \in DOMAIN a.deferred
       PROVE  CountFits(g, f, IF f = e THEN 1 ELSE 0) /\ (f # e => IsCountedOut(g, f))
  <2>1. CountFits(a, f, 0) /\ IsCountedOut(a, f)
    BY <1>2, <1>5, NumbersOf DEF CountInv, CountsBut
  <2>2. IsCounter(g, f) = IsCounter(a, f)
    BY <1>10, <1>11 DEF IsCounter
  <2>3. CASE f # e
    BY <1>11, <1>12, <2>1, <2>2, <2>3 DEF CountFits, IsCountedOut
  <2>4. CASE f = e
    <3> DEFINE C == Counting(a, f)
    <3>1. d \in C
      BY <1>3, <1>6, <2>4 DEF Counting
    <3>2. IsFiniteSet(C) /\ Cardinality(C) \in Nat
      BY <1>2, CountingIsFinite
    <3> HIDE DEF C
    <3>3. Cardinality(C \ {d}) = Cardinality(C) - 1
      BY <3>1, <3>2, FS_RemoveElement
    <3>4. Counting(g, f) = C \ {d}
      BY <1>12, <2>4 DEF C
    <3>5. Cardinality(Counting(g, f)) + 1 = Cardinality(C) + 0
      BY <3>2, <3>3, <3>4
    <3> QED
      BY <1>11, <2>1, <2>4, <3>5 DEF CountFits, C
  <2> QED
    BY <2>3, <2>4
<1>14. CountsBut(g, e, 1)
  BY <1>5, <1>10, <1>11, <1>13 DEF CountInv, CountsBut
<1>15. \A c \in DOMAIN h.deferred : Gathered(a, c) = Gathered(h, c)
  BY <1>2 DEF Steady, Recounts, Gathered
<1> QED
  BY <1>3, <1>10, <1>11, <1>14, <1>15 DEF e, g


\* The count and the array of d change together.
LEMMA CountAt ==
  ASSUME NEW h, NEW d \in DOMAIN h.deferred, NEW k \in Nat, NEW j \in Nat, CountsBut(h, d, k),
         NEW r, DOMAIN r = DeferredFields, r.pendingCount = CountOf(h, d) + j - k,
         r.array # None => IsSeq(Items(r.array)) /\ r.pendingCount <= Len(Items(r.array)),
         r.target = Target(h, d), r.self = Self(h, d), r.fulfilled = OnFulfilled(h, d),
         r.rejected = OnRejected(h, d), r.done = IsDone(h, d),
         NEW g, DOMAIN g = MemoryFields, g.deferred = [h.deferred EXCEPT ![d] = r],
         g.flush = h.flush
  PROVE  /\ CountsBut(g, d, j) /\ DOMAIN g.deferred = DOMAIN h.deferred
         /\ CountOf(g, d) = r.pendingCount /\ Gathered(g, d) = r.array
<1>1. Tidy(h)
  BY DEF CountsBut
<1>2. /\ Tidy(g) /\ DOMAIN g.deferred = DOMAIN h.deferred /\ g.deferred[d] = r
      /\ \A f \in DOMAIN h.deferred : f # d => g.deferred[f] = h.deferred[f]
  BY <1>1, TidyAt
<1>3. ASSUME NEW c \in DOMAIN h.deferred
      PROVE  /\ IsResolved(g, c) = IsResolved(h, c) /\ IsDone(g, c) = IsDone(h, c)
             /\ CounterOf(g.deferred[c]) = CounterOf(h.deferred[c])
             /\ IsPair(h, h.deferred[c]) => IsPair(g, g.deferred[c])
  <2>1. CASE c = d
    BY <1>2, <2>1 DEF Target, Self, OnFulfilled, OnRejected, IsResolved, CounterOf, IsPair,
       DoesCount, IsDone
  <2>2. CASE c # d
    BY <1>2, <2>2 DEF IsResolved, CounterOf, IsPair, DoesCount, IsDone
  <2> QED
    BY <2>1, <2>2
<1>4. \A f : Counting(g, f) = Counting(h, f)
  BY <1>2, <1>3 DEF Counting
<1>5. ASSUME NEW f \in DOMAIN h.deferred, f # d PROVE CountFits(g, f, 0) /\ IsCountedOut(g, f)
  <2>1. CountFits(h, f, 0) /\ IsCountedOut(h, f)
    BY <1>5 DEF CountsBut
  <2>2. Gathered(g, f) = Gathered(h, f) /\ CountOf(g, f) = CountOf(h, f)
    BY <1>2, <1>5 DEF Gathered, CountOf
  <2>3. IsCounter(g, f) = IsCounter(h, f)
    BY <1>2, <1>3, <2>2 DEF IsCounter
  <2> QED
    BY <1>3, <1>4, <2>1, <2>2, <2>3 DEF CountFits, IsCountedOut
<1>6. CountFits(g, d, j)
  <2> DEFINE n == Cardinality(Counting(h, d))
  <2>1. n \in Nat
    BY <1>1, CountingIsFinite
  <2>2. CountFits(h, d, k)
    BY DEF CountsBut
  <2>3. /\ CountOf(h, d) \in Nat /\ n + k <= CountOf(h, d)
        /\ ~IsResolved(h, d) => CountOf(h, d) = n + k
    BY <2>2 DEF CountFits
  <2>4. CountOf(g, d) = CountOf(h, d) + j - k /\ Gathered(g, d) = r.array
    BY <1>2 DEF CountOf, Gathered
  <2>5. Cardinality(Counting(g, d)) = n
    BY <1>4
  <2> HIDE DEF n
  <2>6. /\ CountOf(g, d) \in Nat /\ n + j <= CountOf(g, d)
        /\ ~IsResolved(g, d) => CountOf(g, d) = n + j
    BY <1>3, <2>1, <2>3, <2>4
  <2>7. CountOf(g, d) = r.pendingCount
    BY <1>2 DEF CountOf
  <2> QED
    BY <2>4, <2>5, <2>6, <2>7 DEF CountFits
<1>7. CountsBut(g, d, j)
  BY <1>2, <1>3, <1>5, <1>6 DEF CountsBut
<1> QED
  BY <1>2, <1>7 DEF CountOf, Gathered

LEMMA WithCounts ==
  ASSUME NEW x, IsSeq(Items(x)), NEW i, NEW y
  PROVE  LET z == With(x, i, y)
         IN z # None /\ IsSeq(Items(z)) /\ Len(Items(z)) = Len(Items(x))
<1> DEFINE z == With(x, i, y)
           t == Items(x)
           v == [t EXCEPT ![i] = y]
<1>1. z[1] = "array" /\ z[2] = v
  BY DEF With, Array
<1>2. z # None /\ Items(z) = v
  BY <1>1 DEF None, Items
<1>3. Len(t) \in Nat /\ DOMAIN t = 1..Len(t)
  BY SeqIs
<1> HIDE DEF t
<1>4. DOMAIN v = 1..Len(t) /\ v = [f \in DOMAIN v |-> v[f]]
  BY <1>3
<1> HIDE DEF v, z
<1>5. IsSeq(v) /\ Len(v) = Len(t)
  BY <1>3, <1>4, IsSeqIs
<1> QED
  BY <1>2, <1>5 DEF t, z

\* The count of d has been brought up to date, and says whether to resolve it.
LEMMA CountedCounts ==
  ASSUME NEW h, NEW d \in DOMAIN h.deferred, CountsBut(h, d, 0)
  PROVE  CountInv(Counted(h, d))
<1> DEFINE g == Resolve(h, d, h.deferred[d].array)
<1>1. CASE CountOf(h, d) = 0
  <2>1. Counted(h, d) = g
    BY <1>1 DEF Counted, CountOf
  <2>2. Steady(h, g) /\ IsResolved(g, d)
    BY ResolveSteady DEF CountsBut
  <2> HIDE DEF g
  <2>3. CountsBut(g, d, 0)
    BY <2>2, CountsSteady
  <2> QED
    BY <2>1, <2>2, <2>3, CountsAgain
<1>2. CASE CountOf(h, d) # 0
  <2>1. Counted(h, d) = h
    BY <1>2 DEF Counted, CountOf
  <2> QED
    BY <1>2, <2>1, CountsAgain
<1> QED
  BY <1>1, <1>2

LEMMA GatherCounts ==
  ASSUME NEW h, NEW d \in DOMAIN h.deferred, CountsBut(h, d, 1), Gathered(h, d) # None,
         NEW i, NEW x
  PROVE  CountInv(Gather(h, d, i, x))
<1> DEFINE g == Came(h, d, i, x)
           q == h.deferred[d]
           a == With(q.array, i, x)
           r == [q EXCEPT !.array = a, !.pendingCount = q.pendingCount - 1]
<1>1. Gather(h, d, i, x) = Counted(g, d)
  BY DEF Gather, Came
<1>2. g = [h EXCEPT !.deferred = [h.deferred EXCEPT ![d] = r]]
  BY DEF Came
<1>3. DOMAIN h = MemoryFields /\ DOMAIN q = DeferredFields
  BY DEF CountsBut, Tidy
<1>4. /\ CountOf(h, d) \in Nat /\ IsSeq(Items(q.array)) /\ CountOf(h, d) <= Len(Items(q.array))
  BY DEF CountsBut, CountFits, Gathered
<1>5. IsSeq(Items(a)) /\ Len(Items(a)) = Len(Items(q.array)) /\ Len(Items(a)) \in Nat
  BY <1>4, WithCounts, SeqIs
<1>6. /\ q.pendingCount = CountOf(h, d) /\ q.target = Target(h, d) /\ q.self = Self(h, d)
      /\ q.fulfilled = OnFulfilled(h, d) /\ q.rejected = OnRejected(h, d) /\ q.done = IsDone(h, d)
  BY DEF CountOf, Target, Self, OnFulfilled, OnRejected, IsDone
<1> HIDE DEF g, q, a
<1>7. /\ DOMAIN g = MemoryFields /\ g.deferred = [h.deferred EXCEPT ![d] = r] /\ g.flush = h.flush
  BY <1>2, <1>3 DEF MemoryFields
<1>8. /\ DOMAIN r = DeferredFields /\ r.pendingCount = q.pendingCount - 1 /\ r.array = a
      /\ r.target = q.target /\ r.self = q.self /\ r.fulfilled = q.fulfilled
      /\ r.rejected = q.rejected /\ r.done = q.done
  BY <1>3 DEF DeferredFields
<1> HIDE DEF r
<1>9. /\ r.pendingCount = CountOf(h, d) + 0 - 1
      /\ r.array # None => IsSeq(Items(r.array)) /\ r.pendingCount <= Len(Items(r.array))
  BY <1>4, <1>5, <1>6, <1>8
<1>10. CountsBut(g, d, 0) /\ DOMAIN g.deferred = DOMAIN h.deferred
  BY <1>6, <1>7, <1>8, <1>9, CountAt
<1> QED
  BY <1>1, <1>10, CountedCounts

LEMMA CountsOneMore ==
  ASSUME NEW h, NEW d \in DOMAIN h.deferred, CountsBut(h, d, 0),
         Gathered(h, d) # None => CountOf(h, d) + 1 <= Len(Items(Gathered(h, d)))
  PROVE  LET g == [h EXCEPT !.deferred[d].pendingCount = @ + 1]
         IN /\ CountsBut(g, d, 1) /\ DOMAIN g.deferred = DOMAIN h.deferred
            /\ CountOf(g, d) = CountOf(h, d) + 1 /\ Gathered(g, d) = Gathered(h, d)
<1> DEFINE q == h.deferred[d]
           r == [q EXCEPT !.pendingCount = q.pendingCount + 1]
           g == [h EXCEPT !.deferred[d].pendingCount = @ + 1]
<1>1. g = [h EXCEPT !.deferred = [h.deferred EXCEPT ![d] = r]]
  OBVIOUS
<1>2. /\ DOMAIN q = DeferredFields /\ CountOf(h, d) \in Nat
      /\ Gathered(h, d) # None => IsSeq(Items(Gathered(h, d)))
  BY DEF CountsBut, Tidy, CountFits
<1>3. /\ q.pendingCount = CountOf(h, d) /\ q.target = Target(h, d) /\ q.self = Self(h, d)
      /\ q.fulfilled = OnFulfilled(h, d) /\ q.rejected = OnRejected(h, d) /\ q.done = IsDone(h, d)
      /\ q.array = Gathered(h, d)
  BY DEF CountOf, Target, Self, OnFulfilled, OnRejected, IsDone, Gathered
<1> HIDE DEF g, q
<1>4. /\ DOMAIN r = DeferredFields /\ r.pendingCount = q.pendingCount + 1 /\ r.array = q.array
      /\ r.target = q.target /\ r.self = q.self /\ r.fulfilled = q.fulfilled
      /\ r.rejected = q.rejected /\ r.done = q.done
  BY <1>2 DEF DeferredFields
<1> HIDE DEF r
<1>5. r.pendingCount = CountOf(h, d) + 1 - 0 /\ r.pendingCount = CountOf(h, d) + 1
  BY <1>2, <1>3, <1>4
<1>6. r.array # None => IsSeq(Items(r.array)) /\ r.pendingCount <= Len(Items(r.array))
  BY <1>2, <1>3, <1>4, <1>5
<1>7. DOMAIN g = MemoryFields /\ g.deferred = [h.deferred EXCEPT ![d] = r] /\ g.flush = h.flush
  BY <1>1 DEF CountsBut, Tidy, MemoryFields
<1>8. /\ CountsBut(g, d, 1) /\ DOMAIN g.deferred = DOMAIN h.deferred
      /\ CountOf(g, d) = r.pendingCount /\ Gathered(g, d) = r.array
  BY <1>3, <1>4, <1>5, <1>6, <1>7, CountAt
<1> QED
  BY <1>3, <1>4, <1>5, <1>8 DEF g

LEMMA MissCounts ==
  ASSUME NEW h, NEW d \in DOMAIN h.deferred, CountsBut(h, d, 1)
  PROVE  CountInv(Miss(h, d))
<1> DEFINE q == h.deferred[d]
           r == [q EXCEPT !.pendingCount = q.pendingCount - 1]
           g == [h EXCEPT !.deferred[d].pendingCount = @ - 1]
           k == Reject(g, d, NoneFulfilled)
<1>0. Miss(h, d) = IF CountOf(g, d) = 0 THEN k ELSE g
  BY DEF Miss, CountOf
<1>1. g = [h EXCEPT !.deferred = [h.deferred EXCEPT ![d] = r]]
  OBVIOUS
<1>2. /\ DOMAIN q = DeferredFields /\ CountOf(h, d) \in Nat
      /\ Gathered(h, d) # None => IsSeq(Items(Gathered(h, d))) /\ CountOf(h, d) <= Len(Items(Gathered(h, d)))
  BY DEF CountsBut, Tidy, CountFits
<1>3. /\ q.pendingCount = CountOf(h, d) /\ q.target = Target(h, d) /\ q.self = Self(h, d)
      /\ q.fulfilled = OnFulfilled(h, d) /\ q.rejected = OnRejected(h, d) /\ q.done = IsDone(h, d)
      /\ q.array = Gathered(h, d)
  BY DEF CountOf, Target, Self, OnFulfilled, OnRejected, IsDone, Gathered
<1> HIDE DEF g, q
<1>4. /\ DOMAIN r = DeferredFields /\ r.pendingCount = q.pendingCount - 1 /\ r.array = q.array
      /\ r.target = q.target /\ r.self = q.self /\ r.fulfilled = q.fulfilled
      /\ r.rejected = q.rejected /\ r.done = q.done
  BY <1>2 DEF DeferredFields
<1> HIDE DEF r
<1>5. r.pendingCount = CountOf(h, d) + 0 - 1
  BY <1>2, <1>3, <1>4
<1>6. r.array # None => IsSeq(Items(r.array)) /\ r.pendingCount <= Len(Items(r.array))
  BY <1>2, <1>3, <1>4, <1>5, SeqIs
<1>7. CountsBut(g, d, 0) /\ DOMAIN g.deferred = DOMAIN h.deferred
  <2>1. DOMAIN g = MemoryFields /\ g.deferred = [h.deferred EXCEPT ![d] = r] /\ g.flush = h.flush
    BY <1>1 DEF CountsBut, Tidy, MemoryFields
  <2> QED
    BY <1>3, <1>4, <1>5, <1>6, <2>1, CountAt
<1>8. CASE CountOf(g, d) = 0
  <2>1. Steady(g, k) /\ IsResolved(k, d)
    BY <1>7, RejectSteady DEF CountsBut
  <2> HIDE DEF k
  <2>2. CountsBut(k, d, 0)
    BY <1>7, <2>1, CountsSteady
  <2> QED
    BY <1>0, <1>8, <2>1, <2>2, CountsAgain
<1>9. CASE CountOf(g, d) # 0
  BY <1>0, <1>7, <1>9, CountsAgain
<1> QED
  BY <1>8, <1>9


\* The callbacks that all or any gives to then for an item of e.
CountFor(e, fulfilled, rejected) ==
  \/ rejected = <<"reject", e>> /\ \E i : fulfilled = <<"gather", e, i>>
  \/ rejected = <<"miss", e>> /\ fulfilled = <<"resolve", e>>

\* A call is added that the count was ahead of.
LEMMA OpenCounts ==
  ASSUME NEW h, NEW e \in DOMAIN h.deferred, CountsBut(h, e, 1),
         NEW x, x # None, NEW fulfilled, NEW rejected, NEW progressed,
         CountFor(e, fulfilled, rejected),
         NEW g, HasOpened(h, g, CallMade(x, fulfilled, rejected, progressed))
  PROVE  /\ CountsBut(g, e, 0) /\ e \in DOMAIN g.deferred
         /\ CountOf(g, e) = CountOf(h, e) /\ Gathered(g, e) = Gathered(h, e)
<1> DEFINE r == CallMade(x, fulfilled, rejected, progressed)
<1>1. Tidy(h) /\ Tidy(g) /\ DOMAIN h.deferred \subseteq DOMAIN g.deferred
  BY DEF CountsBut, HasOpened
<1>2. 0 \notin DOMAIN h.deferred /\ 0 \notin DOMAIN g.deferred
  BY <1>1, NumbersOf
<1>3. r.self = x /\ r.fulfilled = fulfilled /\ r.rejected = rejected /\ r.done = FALSE
      /\ r.array = None /\ r.pendingCount = 0
  BY CallMadeIs
<1>4. PICK n \in DOMAIN g.deferred :
        /\ n \notin DOMAIN h.deferred /\ g.deferred[n] = r
        /\ \A d \in DOMAIN g.deferred : d \in DOMAIN h.deferred \/ d = n
  BY DEF HasOpened
<1> HIDE DEF r
<1>5. CounterOf(r) = e /\ IsPair(g, r)
  BY <1>1, <1>3 DEF CountFor, CounterOf, IsPair, DoesCount
<1>6. ASSUME NEW c \in DOMAIN h.deferred
      PROVE  /\ c \in DOMAIN g.deferred /\ IsDone(g, c) = IsDone(h, c)
             /\ CounterOf(g.deferred[c]) = CounterOf(h.deferred[c])
             /\ Gathered(g, c) = Gathered(h, c) /\ CountOf(g, c) = CountOf(h, c)
             /\ IsResolved(h, c) => IsResolved(g, c)
             /\ IsPair(g, g.deferred[c])
  <2>1. Recounts(h.deferred[c], g.deferred[c])
    BY DEF HasOpened
  <2>2. IsPair(h, h.deferred[c])
    BY DEF CountsBut
  <2> QED
    BY <1>1, <2>1, <2>2 DEF Recounts, IsDone, CounterOf, Gathered, CountOf, IsResolved, IsPair, DoesCount
<1>7. ASSUME NEW d \in DOMAIN h.deferred
      PROVE  Counting(g, d) = IF d = e THEN Counting(h, d) \cup {n} ELSE Counting(h, d)
  BY <1>3, <1>4, <1>5, <1>6 DEF Counting, IsDone
<1>8. ASSUME NEW d \in DOMAIN h.deferred, d # e PROVE CountFits(g, d, 0) /\ IsCountedOut(g, d)
  <2>1. CountFits(h, d, 0) /\ IsCountedOut(h, d)
    BY <1>8 DEF CountsBut
  <2>2. CountFits(g, d, 0)
    BY <1>6, <1>7, <1>8, <2>1 DEF CountFits
  <2>3. IsCounter(g, d) => IsCounter(h, d)
    BY <1>4, <1>5, <1>6, <1>8 DEF IsCounter
  <2> QED
    BY <1>6, <2>1, <2>2, <2>3 DEF IsCountedOut
<1>9. CountFits(g, e, 0)
  <2> DEFINE C == Counting(h, e)
  <2>1. IsFiniteSet(C) /\ Cardinality(C) \in Nat
    BY <1>1, CountingIsFinite
  <2>2. n \notin C
    BY <1>4 DEF Counting
  <2> HIDE DEF C
  <2>3. Cardinality(C \cup {n}) = Cardinality(C) + 1
    BY <2>1, <2>2, FS_AddElement
  <2>4. Counting(g, e) = C \cup {n}
    BY <1>7 DEF C
  <2>5. Cardinality(Counting(g, e)) + 0 = Cardinality(C) + 1
    BY <2>1, <2>3, <2>4
  <2>6. CountFits(h, e, 1)
    BY DEF CountsBut
  <2> QED
    BY <1>6, <2>5, <2>6 DEF CountFits, C
<1>10. CountFits(g, n, 0) /\ IsCountedOut(g, n)
  <2>1. ASSUME NEW c \in DOMAIN g.deferred PROVE CounterOf(g.deferred[c]) # n
    <3>1. CASE c \in DOMAIN h.deferred
      <4>1. IsPair(h, h.deferred[c]) /\ CounterOf(g.deferred[c]) = CounterOf(h.deferred[c])
        BY <1>6, <3>1 DEF CountsBut
      <4> QED
        BY <1>2, <1>4, <4>1, NotCountingIs DEF IsPair
    <3>2. CASE c = n
      BY <1>4, <1>5, <3>2
    <3> QED
      BY <1>4, <3>1, <3>2
  <2>2. Counting(g, n) = {}
    BY <2>1 DEF Counting
  <2>3. Cardinality(Counting(g, n)) = 0
    BY <2>2, FS_EmptySet
  <2>4. Gathered(g, n) = None /\ CountOf(g, n) = 0
    BY <1>3, <1>4 DEF Gathered, CountOf
  <2> QED
    BY <2>1, <2>3, <2>4 DEF CountFits, IsCountedOut, IsCounter
<1>11. CountsBut(g, e, 0)
  BY <1>1, <1>4, <1>5, <1>6, <1>8, <1>9, <1>10 DEF CountsBut
<1> QED
  BY <1>6, <1>11

LEMMA WhenCounts ==
  ASSUME NEW h, NEW e \in DOMAIN h.deferred, CountsBut(h, e, 1),
         NEW x, NEW fulfilled, NEW rejected, NEW progressed, CountFor(e, fulfilled, rejected)
  PROVE  LET g == When(h, x, fulfilled, rejected, progressed)
         IN /\ CountsBut(g, e, 0) /\ e \in DOMAIN g.deferred
            /\ CountOf(g, e) = CountOf(h, e) /\ Gathered(g, e) = Gathered(h, e)
<1> DEFINE a == ToPromise(h, x)
           y == a.it
           g == When(h, x, fulfilled, rejected, progressed)
<1>1. g = Then(a, y, fulfilled, rejected, progressed)
  BY DEF When
<1>2. Steady(h, a) /\ Tidy(a) /\ y # None
  BY ToPromiseSteady, PromisesAre DEF CountsBut
<1> HIDE DEF a, y, g
<1>3. /\ CountsBut(a, e, 1) /\ e \in DOMAIN a.deferred
      /\ CountOf(a, e) = CountOf(h, e) /\ Gathered(a, e) = Gathered(h, e)
  <2>1. CountsBut(a, e, 1)
    BY <1>2, CountsSteady
  <2> QED
    BY <1>2, <2>1 DEF Steady, Recounts, CountOf, Gathered
<1>4. PICK k : HasOpened(a, k, CallMade(y, fulfilled, rejected, progressed)) /\ Steady(k, g)
  BY <1>1, <1>2, ThenMakes
<1>5. /\ CountsBut(k, e, 0) /\ e \in DOMAIN k.deferred
      /\ CountOf(k, e) = CountOf(a, e) /\ Gathered(k, e) = Gathered(a, e)
  BY <1>2, <1>3, <1>4, OpenCounts
<1>6. CountsBut(g, e, 0)
  BY <1>4, <1>5, CountsSteady
<1>7. e \in DOMAIN g.deferred /\ CountOf(g, e) = CountOf(k, e) /\ Gathered(g, e) = Gathered(k, e)
  BY <1>4, <1>5 DEF Steady, Recounts, CountOf, Gathered
<1> QED
  BY <1>3, <1>5, <1>6, <1>7 DEF g

\* n items of the N of d have been gone through, in all and in any.
AllCounts(h, d, n, N) ==
  /\ d \in DOMAIN h.deferred /\ CountsBut(h, d, 0)
  /\ Gathered(h, d) # None /\ Len(Items(Gathered(h, d))) = N /\ CountOf(h, d) <= n

AnyCounts(h, d, n) ==
  /\ d \in DOMAIN h.deferred /\ CountsBut(h, d, 0)
  /\ Gathered(h, d) = None /\ CountOf(h, d) = n

LEMMA AllItemCounts ==
  ASSUME NEW h, NEW d, NEW n \in Nat, NEW N \in Nat, n + 1 <= N, AllCounts(h, d, n, N), NEW i, NEW x
  PROVE  AllCounts(ForItem(h, "all", d, i, x), d, n + 1, N)
<1> DEFINE g == ForItem(h, "all", d, i, x)
<1> SUFFICES AllCounts(g, d, n + 1, N)
  OBVIOUS
<1>1. /\ d \in DOMAIN h.deferred /\ CountsBut(h, d, 0) /\ Gathered(h, d) # None
      /\ Len(Items(Gathered(h, d))) = N /\ CountOf(h, d) <= n
  BY DEF AllCounts
<1>2. /\ CountOf(h, d) \in Nat /\ IsSeq(Items(Gathered(h, d)))
  BY <1>1 DEF CountsBut, CountFits
<1>3. CASE IsPromise(x) /\ Inspect(h, x)[1] = "fulfilled"
  <2> DEFINE q == h.deferred[d]
             a == With(q.array, i, Inspect(h, x)[2])
             r == [q EXCEPT !.array = a]
  <2>1. g = [h EXCEPT !.deferred = [h.deferred EXCEPT ![d] = r]]
    BY <1>3 DEF ForItem
  <2>2. DOMAIN h = MemoryFields /\ DOMAIN q = DeferredFields
    BY <1>1 DEF CountsBut, Tidy
  <2>3. /\ q.pendingCount = CountOf(h, d) /\ q.target = Target(h, d) /\ q.self = Self(h, d)
        /\ q.fulfilled = OnFulfilled(h, d) /\ q.rejected = OnRejected(h, d) /\ q.done = IsDone(h, d)
        /\ q.array = Gathered(h, d)
    BY DEF CountOf, Target, Self, OnFulfilled, OnRejected, IsDone, Gathered
  <2>4. a # None /\ IsSeq(Items(a)) /\ Len(Items(a)) = N
    <3> DEFINE y == Inspect(h, x)[2]
    <3> HIDE DEF y
    <3> QED
      BY <1>1, <1>2, <2>3, WithCounts DEF y
  <2> HIDE DEF g, q, a
  <2>5. /\ DOMAIN r = DeferredFields /\ r.pendingCount = q.pendingCount /\ r.array = a
        /\ r.target = q.target /\ r.self = q.self /\ r.fulfilled = q.fulfilled
        /\ r.rejected = q.rejected /\ r.done = q.done
    BY <2>2 DEF DeferredFields
  <2> HIDE DEF r
  <2>6. DOMAIN g = MemoryFields /\ g.deferred = [h.deferred EXCEPT ![d] = r] /\ g.flush = h.flush
    BY <2>1, <2>2 DEF MemoryFields
  <2>7. /\ r.pendingCount = CountOf(h, d) + 0 - 0 /\ r.pendingCount = CountOf(h, d)
        /\ r.pendingCount <= Len(Items(r.array)) /\ IsSeq(Items(r.array))
    BY <1>1, <1>2, <2>3, <2>4, <2>5
  <2>8. /\ CountsBut(g, d, 0) /\ DOMAIN g.deferred = DOMAIN h.deferred
        /\ CountOf(g, d) = r.pendingCount /\ Gathered(g, d) = r.array
    BY <1>1, <2>3, <2>5, <2>6, <2>7, CountAt
  <2> QED
    BY <1>1, <1>2, <2>4, <2>5, <2>7, <2>8 DEF AllCounts
<1>4. CASE ~(IsPromise(x) /\ Inspect(h, x)[1] = "fulfilled")
  <2> DEFINE k == [h EXCEPT !.deferred[d].pendingCount = @ + 1]
  <2>1. g = When(k, x, <<"gather", d, i>>, <<"reject", d>>, <<"notify", d, i>>)
    BY <1>4 DEF ForItem
  <2>2. CountOf(h, d) + 1 <= Len(Items(Gathered(h, d)))
    BY <1>1, <1>2
  <2>3. /\ CountsBut(k, d, 1) /\ DOMAIN k.deferred = DOMAIN h.deferred
        /\ CountOf(k, d) = CountOf(h, d) + 1 /\ Gathered(k, d) = Gathered(h, d)
    BY <1>1, <2>2, CountsOneMore
  <2> HIDE DEF k, g
  <2>4. CountFor(d, <<"gather", d, i>>, <<"reject", d>>)
    BY DEF CountFor
  <2>5. /\ CountsBut(g, d, 0) /\ d \in DOMAIN g.deferred
        /\ CountOf(g, d) = CountOf(k, d) /\ Gathered(g, d) = Gathered(k, d)
    BY <1>1, <2>1, <2>3, <2>4, WhenCounts
  <2> QED
    BY <1>1, <1>2, <2>3, <2>5 DEF AllCounts
<1> HIDE DEF g
<1> QED
  BY <1>3, <1>4

LEMMA AnyItemCounts ==
  ASSUME NEW h, NEW d, NEW n \in Nat, AnyCounts(h, d, n), NEW i, NEW x
  PROVE  AnyCounts(ForItem(h, "any", d, i, x), d, n + 1)
<1> DEFINE g == ForItem(h, "any", d, i, x)
           k == [h EXCEPT !.deferred[d].pendingCount = @ + 1]
<1>1. g = When(k, x, <<"resolve", d>>, <<"miss", d>>, <<"notify", d, i>>)
  BY DEF ForItem
<1>2. d \in DOMAIN h.deferred /\ CountsBut(h, d, 0) /\ Gathered(h, d) = None /\ CountOf(h, d) = n
  BY DEF AnyCounts
<1>3. /\ CountsBut(k, d, 1) /\ DOMAIN k.deferred = DOMAIN h.deferred
      /\ CountOf(k, d) = CountOf(h, d) + 1 /\ Gathered(k, d) = Gathered(h, d)
  BY <1>2, CountsOneMore
<1> HIDE DEF k, g
<1>4. CountFor(d, <<"resolve", d>>, <<"miss", d>>)
  BY DEF CountFor
<1>5. /\ CountsBut(g, d, 0) /\ d \in DOMAIN g.deferred
      /\ CountOf(g, d) = CountOf(k, d) /\ Gathered(g, d) = Gathered(k, d)
  BY <1>1, <1>2, <1>3, <1>4, WhenCounts
<1>6. AnyCounts(g, d, n + 1)
  BY <1>2, <1>3, <1>5 DEF AnyCounts
<1> QED
  BY <1>6 DEF g


LEMMA AllLoopCounts ==
  ASSUME NEW h, NEW d, NEW items, IsSeq(items), AllCounts(h, d, 0, Len(items))
  PROVE  AllCounts(OverItems(h, "all", d, items), d, Len(items), Len(items))
<1> DEFINE L == Loop(h, "all", d, items)
           N == Len(items)
           S == {n \in Nat : n \in 0..N => AllCounts(L[n], d, n, N)}
<1>1. N \in Nat
  BY SeqIs
<1>2. L[0] = h /\ \A n \in 1..N : L[n] = ForItem(L[n - 1], "all", d, n, items[n])
  BY LoopIs
<1> HIDE DEF L, N
<1>3. 0 \in S
  BY <1>2 DEF N
<1>4. ASSUME NEW n \in Nat, n \in S, n + 1 \in 0..N PROVE AllCounts(L[n + 1], d, n + 1, N)
  <2>1. n \in 0..N /\ n + 1 \in 1..N /\ (n + 1) - 1 = n /\ n + 1 <= N
    BY <1>1, <1>4
  <2>2. AllCounts(L[n], d, n, N)
    BY <1>4, <2>1
  <2>3. L[n + 1] = ForItem(L[n], "all", d, n + 1, items[n + 1])
    BY <1>2, <2>1
  <2> QED
    BY <1>1, <2>1, <2>2, <2>3, AllItemCounts
<1>5. \A n \in Nat : n \in S => n + 1 \in S
  BY <1>4
<1>6. \A n \in Nat : n \in S
  <2> HIDE DEF S
  <2> QED
    BY <1>3, <1>5, NatSet
<1>7. N \in Nat /\ N \in S /\ N \in 0..N
  BY <1>1, <1>6
<1>8. AllCounts(L[N], d, N, N)
  BY <1>7
<1> QED
  BY <1>8 DEF OverItems, L, N

LEMMA AnyLoopCounts ==
  ASSUME NEW h, NEW d, NEW items, IsSeq(items), AnyCounts(h, d, 0)
  PROVE  AnyCounts(OverItems(h, "any", d, items), d, Len(items))
<1> DEFINE L == Loop(h, "any", d, items)
           N == Len(items)
           S == {n \in Nat : n \in 0..N => AnyCounts(L[n], d, n)}
<1>1. N \in Nat
  BY SeqIs
<1>2. L[0] = h /\ \A n \in 1..N : L[n] = ForItem(L[n - 1], "any", d, n, items[n])
  BY LoopIs
<1> HIDE DEF L, N
<1>3. 0 \in S
  BY <1>2
<1>4. ASSUME NEW n \in Nat, n \in S, n + 1 \in 0..N PROVE AnyCounts(L[n + 1], d, n + 1)
  <2>1. n \in 0..N /\ n + 1 \in 1..N /\ (n + 1) - 1 = n
    BY <1>1, <1>4
  <2>2. AnyCounts(L[n], d, n)
    BY <1>4, <2>1
  <2>3. L[n + 1] = ForItem(L[n], "any", d, n + 1, items[n + 1])
    BY <1>2, <2>1
  <2> QED
    BY <2>1, <2>2, <2>3, AnyItemCounts
<1>5. \A n \in Nat : n \in S => n + 1 \in S
  BY <1>4
<1>6. \A n \in Nat : n \in S
  <2> HIDE DEF S
  <2> QED
    BY <1>3, <1>5, NatSet
<1>7. N \in Nat /\ N \in S /\ N \in 0..N
  BY <1>1, <1>6
<1>8. AnyCounts(L[N], d, N)
  BY <1>7
<1> QED
  BY <1>8 DEF OverItems, L, N

\* What has a deferred more that nobody counts for yet.
LEMMA DeferCounts ==
  ASSUME NEW h, CountInv(h)
  PROVE  LET g == Defer(h)
             d == Len(h.deferred) + 1
         IN /\ Steady(h, g) /\ CountInv(g) /\ CountsBut(g, d, 0) /\ d \in DOMAIN g.deferred
            /\ Gathered(g, d) = None /\ CountOf(g, d) = 0
<1> DEFINE g == Defer(h)
           d == Len(h.deferred) + 1
<1>1. Tidy(h)
  BY DEF CountInv, CountsBut
<1>2. Steady(h, g) /\ g.deferred = Append(h.deferred, NewDeferred)
  BY <1>1, DeferSteady
<1>3. CountInv(g)
  BY <1>2, CountsSteady DEF CountInv
<1>4. d \in DOMAIN g.deferred /\ g.deferred[d] = NewDeferred /\ d \notin DOMAIN h.deferred
  <2>1. DOMAIN h.deferred = 1..Len(h.deferred) /\ Len(h.deferred) \in Nat
    BY <1>1, NumbersOf
  <2>2. DOMAIN g.deferred = 1..(Len(h.deferred) + 1) /\ g.deferred[d] = NewDeferred
    BY <1>1, <1>2, AppendIs DEF Tidy
  <2> QED
    BY <2>1, <2>2
<1> HIDE DEF g, d
<1>5. Gathered(g, d) = None /\ CountOf(g, d) = 0
  BY <1>2, <1>4 DEF Steady, IsUncounted, Gathered, CountOf
<1>6. CountsBut(g, d, 0)
  <2>1. ASSUME NEW f \in DOMAIN g.deferred PROVE CountFits(g, f, 0) /\ IsCountedOut(g, f)
    <3>1. f # 0
      BY <1>3, NumbersOf DEF CountInv, CountsBut
    <3> QED
      BY <1>3, <3>1 DEF CountInv, CountsBut
  <2>2. Tidy(g) /\ \A c \in DOMAIN g.deferred : IsPair(g, g.deferred[c])
    BY <1>3 DEF CountInv, CountsBut
  <2> QED
    BY <2>1, <2>2 DEF CountsBut
<1> QED
  BY <1>2, <1>3, <1>4, <1>5, <1>6 DEF g, d

LEMMA AllOfCounts ==
  ASSUME NEW h, CountInv(h), NEW x, IsSeq(Items(x)), x # None
  PROVE  CountInv(AllOf(h, x))
<1> DEFINE d == Len(h.deferred) + 1
           a == Defer(h)
           q == a.deferred[d]
           r == [q EXCEPT !.array = x]
           g == [a EXCEPT !.deferred[d].array = x]
           N == Len(Items(x))
           k == OverItems(g, "all", d, Items(x))
           b == Counted(k, d)
<1>1. CASE x = Undefined
  <2>1. AllOf(h, x) = Throws(h, TypeError)
    BY <1>1 DEF AllOf
  <2>2. Steady(h, Throws(h, TypeError))
    BY AsideSteady DEF CountInv, CountsBut
  <2> QED
    BY <2>1, <2>2, CountsSteady DEF CountInv
<1>2. CASE x # Undefined
  <2>1. AllOf(h, x) = Gives(b, Deferred(d))
    BY <1>2 DEF AllOf
  <2>2. /\ CountsBut(a, d, 0) /\ d \in DOMAIN a.deferred
        /\ Gathered(a, d) = None /\ CountOf(a, d) = 0
    BY DeferCounts
  <2>3. g = [a EXCEPT !.deferred = [a.deferred EXCEPT ![d] = r]]
    OBVIOUS
  <2>4. DOMAIN a = MemoryFields /\ DOMAIN q = DeferredFields
    BY <2>2 DEF CountsBut, Tidy
  <2>5. /\ q.pendingCount = CountOf(a, d) /\ q.target = Target(a, d) /\ q.self = Self(a, d)
        /\ q.fulfilled = OnFulfilled(a, d) /\ q.rejected = OnRejected(a, d) /\ q.done = IsDone(a, d)
    BY DEF CountOf, Target, Self, OnFulfilled, OnRejected, IsDone
  <2> HIDE DEF a, d, q, g
  <2>6. /\ DOMAIN r = DeferredFields /\ r.pendingCount = q.pendingCount /\ r.array = x
        /\ r.target = q.target /\ r.self = q.self /\ r.fulfilled = q.fulfilled
        /\ r.rejected = q.rejected /\ r.done = q.done
    BY <2>4 DEF DeferredFields
  <2> HIDE DEF r
  <2>7. DOMAIN g = MemoryFields /\ g.deferred = [a.deferred EXCEPT ![d] = r] /\ g.flush = a.flush
    BY <2>3, <2>4 DEF MemoryFields
  <2>8. N \in Nat
    BY SeqIs
  <2>9. r.pendingCount = CountOf(a, d) + 0 - 0 /\ r.pendingCount = 0 /\ r.pendingCount <= N
    BY <2>2, <2>5, <2>6, <2>8
  <2>10. /\ CountsBut(g, d, 0) /\ DOMAIN g.deferred = DOMAIN a.deferred
         /\ CountOf(g, d) = r.pendingCount /\ Gathered(g, d) = r.array
    BY <2>2, <2>5, <2>6, <2>7, <2>9, CountAt
  <2>11. AllCounts(g, d, 0, N)
    BY <2>2, <2>6, <2>9, <2>10 DEF AllCounts
  <2>12. AllCounts(k, d, N, N)
    BY <2>11, AllLoopCounts
  <2> HIDE DEF k
  <2>13. CountInv(b)
    BY <2>12, CountedCounts DEF AllCounts
  <2> HIDE DEF b
  <2>14. Steady(b, Gives(b, Deferred(d)))
    BY <2>13, AsideSteady DEF CountInv, CountsBut
  <2> QED
    BY <2>1, <2>13, <2>14, CountsSteady DEF CountInv
<1> QED
  BY <1>1, <1>2

LEMMA AnyOfCounts ==
  ASSUME NEW h, CountInv(h), NEW items, IsSeq(items)
  PROVE  CountInv(AnyOf(h, items))
<1> DEFINE d == Len(h.deferred) + 1
           a == Defer(h)
           k == OverItems(a, "any", d, items)
<1>1. CASE items = <<>>
  <2>1. AnyOf(h, items) = ToPromise(h, Undefined)
    BY <1>1 DEF AnyOf
  <2>2. Steady(h, ToPromise(h, Undefined))
    BY ToPromiseSteady DEF CountInv, CountsBut
  <2> QED
    BY <2>1, <2>2, CountsSteady DEF CountInv
<1>2. CASE items # <<>>
  <2>1. AnyOf(h, items) = Gives(k, Deferred(d))
    BY <1>2 DEF AnyOf
  <2>2. AnyCounts(a, d, 0)
    BY DeferCounts DEF AnyCounts
  <2>3. AnyCounts(k, d, Len(items))
    BY <2>2, AnyLoopCounts
  <2>4. Len(items) # 0
    <3>1. PICK V : items \in Seq(V)
      BY DEF IsSeq
    <3> QED
      BY <1>2, <3>1, EmptySeq
  <2> HIDE DEF k, d
  <2>5. CountInv(k)
    BY <2>3, <2>4, CountsAgain DEF AnyCounts
  <2>6. Steady(k, Gives(k, Deferred(d)))
    BY <2>5, AsideSteady DEF CountInv, CountsBut
  <2> QED
    BY <2>1, <2>5, <2>6, CountsSteady DEF CountInv
<1> QED
  BY <1>1, <1>2


\* Which callbacks a call has that counts.
LEMMA CounterIs ==
  ASSUME NEW h, NEW r, IsPair(h, r)
  PROVE  /\ CounterOf(r) = 0 \/ CounterOf(r) \in DOMAIN h.deferred
         /\ ~DoesCount(r) => CounterOf(r) = 0
         /\ r.fulfilled[1] = "gather" => CounterOf(r) = r.fulfilled[2] /\ DoesCount(r)
         /\ r.rejected[1] = "miss" => CounterOf(r) = r.rejected[2] /\ DoesCount(r)
         /\ DoesCount(r) => /\ r.fulfilled[1] = "gather" \/ r.fulfilled = <<"resolve", CounterOf(r)>>
                            /\ r.rejected[1] = "miss" \/ r.rejected = <<"reject", CounterOf(r)>>
<1>1. r.fulfilled[1] = "gather" => CounterOf(r) = r.fulfilled[2] /\ r.rejected = <<"reject", r.fulfilled[2]>>
  BY DEF IsPair, CounterOf
<1>2. r.rejected[1] = "miss" => CounterOf(r) = r.rejected[2] /\ r.fulfilled = <<"resolve", r.rejected[2]>>
  BY DEF IsPair, CounterOf
<1>3. ~DoesCount(r) => CounterOf(r) = 0
  BY NotCountingIs
<1>4. DoesCount(r) => CounterOf(r) \in DOMAIN h.deferred
  BY DEF IsPair
<1> QED
  BY <1>1, <1>2, <1>3, <1>4 DEF DoesCount

\* The callback of a call that was answered: what its counter did not know it knows then.
LEMMA CallCounts ==
  ASSUME NEW b, NEW r, IsPair(b, r), CountsBut(b, CounterOf(r), 1),
         r.fulfilled[1] = "gather" => Gathered(b, r.fulfilled[2]) # None,
         NEW side \in {"fulfilled", "rejected"},
         NEW cb, cb = IF side = "fulfilled" THEN r.fulfilled ELSE r.rejected,
         NEW a, cb = None \/ IsCallback(a, cb), NEW x, IsSeq(Items(x)), x # None
  PROVE  CountInv(CallOf(b, cb, side, x))
<1> DEFINE c == CallOf(b, cb, side, x)
           e == CounterOf(r)
<1>1. Tidy(b) /\ (e = 0 \/ e \in DOMAIN b.deferred)
  BY CounterIs DEF CountsBut
<1>2. /\ r.fulfilled[1] # "miss" /\ r.rejected[1] # "gather"
      /\ None[1] = "none"
  BY DEF IsPair, None
<1>3. ASSUME Steady(b, c), ~DoesCount(r) \/ (e \in DOMAIN b.deferred => IsResolved(c, e))
      PROVE  CountInv(c)
  <2>1. CountsBut(c, e, 1) /\ Tidy(c)
    BY <1>1, <1>3, CountsSteady DEF Steady
  <2>2. e = 0 => e \notin DOMAIN c.deferred
    BY <2>1, NumbersOf
  <2>3. ~DoesCount(r) => e = 0
    BY CounterIs
  <2> HIDE DEF c, e
  <2>4. e \notin DOMAIN c.deferred \/ IsResolved(c, e)
    BY <1>1, <1>3, <2>2, <2>3
  <2> QED
    BY <2>1, <2>4, CountsAgain
<1>4. CASE cb = None
  <2>1. c = Gives(b, x) \/ c = Throws(b, x)
    BY <1>4 DEF CallOf
  <2>2. Steady(b, c)
    BY <1>1, <2>1, AsideSteady
  <2>3. ~DoesCount(r)
    BY <1>2, <1>4, CounterIs DEF None
  <2> QED
    BY <1>3, <2>2, <2>3
<1>5. CASE cb # None /\ cb[1] = "gather"
  <2>1. cb = r.fulfilled /\ e = cb[2] /\ Gathered(b, e) # None /\ e \in DOMAIN b.deferred
    BY <1>2, <1>5, CounterIs DEF IsPair
  <2>2. c = Gives(Gather(b, e, cb[3], x), Undefined)
    BY <1>5, <2>1 DEF CallOf, Call, IsScript, CallLibrary
  <2> HIDE DEF c, e
  <2> DEFINE k == Gather(b, e, cb[3], x)
  <2>3. CountInv(k)
    BY <2>1, GatherCounts DEF e
  <2> HIDE DEF k
  <2>4. Steady(k, Gives(k, Undefined))
    BY <2>3, AsideSteady DEF CountInv, CountsBut
  <2>5. CountInv(Gives(k, Undefined))
    BY <2>3, <2>4, CountsSteady DEF CountInv
  <2> QED
    BY <2>2, <2>5 DEF c, k
<1>6. CASE cb # None /\ cb[1] = "miss"
  <2>1. cb = r.rejected /\ e = cb[2] /\ e \in DOMAIN b.deferred
    BY <1>2, <1>6, CounterIs DEF IsPair
  <2>2. c = Gives(Miss(b, e), Undefined)
    BY <1>6, <2>1 DEF CallOf, Call, IsScript, CallLibrary
  <2> HIDE DEF c, e
  <2> DEFINE k == Miss(b, e)
  <2>3. CountInv(k)
    BY <2>1, MissCounts DEF e
  <2> HIDE DEF k
  <2>4. Steady(k, Gives(k, Undefined))
    BY <2>3, AsideSteady DEF CountInv, CountsBut
  <2>5. CountInv(Gives(k, Undefined))
    BY <2>3, <2>4, CountsSteady DEF CountInv
  <2> QED
    BY <2>2, <2>5 DEF c, k
<1>7. CASE cb # None /\ cb[1] = "all"
  <2>1. ~DoesCount(r)
    BY <1>7, CounterIs
  <2>2. e \notin DOMAIN b.deferred
    BY <1>1, <2>1, CounterIs, NumbersOf
  <2>3. CountInv(b)
    BY <2>2, CountsAgain
  <2>4. c = AllOf(b, x)
    BY <1>7 DEF CallOf, Call, IsScript, CallForValue
  <2> QED
    BY <2>3, <2>4, AllOfCounts
<1>8. CASE cb # None /\ cb[1] \notin {"gather", "miss", "all"}
  <2>1. c = Call(b, cb, x)
    BY <1>8 DEF CallOf
  <2>2. /\ Steady(b, Call(b, cb, x))
        /\ cb[1] \in {"resolve", "reject"} /\ cb[2] \in DOMAIN b.deferred =>
             IsResolved(Call(b, cb, x), cb[2])
    BY <1>1, <1>8, CallSteady
  <2>3. ~DoesCount(r) \/ (cb[1] \in {"resolve", "reject"} /\ cb[2] = e)
    <3>1. CASE side = "fulfilled"
      BY <1>8, <3>1, CounterIs
    <3>2. CASE side = "rejected"
      BY <1>8, <3>2, CounterIs
    <3> QED
      BY <3>1, <3>2
  <2> HIDE DEF c, e
  <2>4. ~DoesCount(r) \/ (e \in DOMAIN b.deferred => IsResolved(c, e))
    BY <2>1, <2>2, <2>3
  <2>5. Steady(b, c)
    BY <2>1, <2>2
  <2> QED
    BY <1>3, <2>4, <2>5 DEF c
<1> QED
  BY <1>4, <1>5, <1>6, <1>7, <1>8

LEMMA HandleCounts ==
  ASSUME NEW h, CountInv(h), NEW d \in DOMAIN h.deferred, NEW a,
         OnFulfilled(h, d) = None \/ IsCallback(a, OnFulfilled(h, d)),
         OnRejected(h, d) = None \/ IsCallback(a, OnRejected(h, d)),
         OnFulfilled(h, d)[1] = "gather" => Gathered(h, OnFulfilled(h, d)[2]) # None,
         NEW side \in {"fulfilled", "rejected"}, NEW x, IsSeq(Items(x)), x # None
  PROVE  CountInv(Handle(h, d, side, x))
<1>1. CASE IsDone(h, d)
  BY <1>1, HandleAgain
<1>2. CASE ~IsDone(h, d)
  <2> DEFINE r == h.deferred[d]
             e == CounterOf(r)
             b == AnsweredDone(h, d, <<side, x>>)
             cb == HandlerOf(h, d, side)
             c == CallOf(b, cb, side, x)
             k == Caught(c)
  <2>1. Handle(h, d, side, x) = Resolve(k, d, k.it)
    BY <1>2 DEF Handle, ResolveWithIt, AnsweredDone, HandlerOf, CallOf, IsDone, OnFulfilled,
                OnRejected
  <2>2. /\ CountsBut(b, e, 1) /\ DOMAIN b.deferred = DOMAIN h.deferred
        /\ \A i \in DOMAIN h.deferred : Gathered(b, i) = Gathered(h, i)
    BY <1>2, DoneCounts
  <2>3. IsPair(h, r)
    BY DEF CountInv, CountsBut
  <2> HIDE DEF b, k
  <2>4. IsPair(b, r)
    BY <2>2, <2>3 DEF IsPair
  <2>5. r.fulfilled[1] = "gather" => Gathered(b, r.fulfilled[2]) # None
    <3>1. r.fulfilled[1] = "gather" => r.fulfilled[2] \in DOMAIN h.deferred
      BY <2>3, CounterIs DEF IsPair
    <3> QED
      BY <2>2, <3>1 DEF OnFulfilled
  <2>6. cb = (IF side = "fulfilled" THEN r.fulfilled ELSE r.rejected) /\ (cb = None \/ IsCallback(a, cb))
    BY DEF HandlerOf, OnFulfilled, OnRejected
  <2> HIDE DEF r, cb, e
  <2>7. CountInv(c)
    BY <2>2, <2>4, <2>5, <2>6, CallCounts DEF e
  <2> HIDE DEF c
  <2>8. CountInv(k)
    BY <2>7, CaughtSteady, CountsSteady DEF CountInv, CountsBut, k
  <2>9. Steady(k, Resolve(k, d, k.it))
    BY <2>8, ResolveSteady DEF CountInv, CountsBut
  <2> QED
    BY <2>1, <2>8, <2>9, CountsSteady DEF CountInv
<1> QED
  BY <1>1, <1>2


-----------------------------------------------------------------------------
(* The counts after a task *)

\* A message of dispatch, or of a listener, counts for nobody.
LEMMA AskValueSteady ==
  ASSUME NEW h, Tidy(h), NEW msg, msg.op = "when" \/ IsAsk(h, msg), NEW x, KnowsValue(h, x)
  PROVE  Steady(h, AskValue(h, x, msg))
<1>1. CASE msg.op = "when"
  <2>1. AskValue(h, x, msg) = Gives(h, x)
    BY <1>1 DEF AskValue
  <2> QED
    BY <2>1, AsideSteady
<1>2. CASE msg.op = "data" /\ msg.arg \in Function
  <2>1. AskValue(h, x, msg) = CallScript(h, msg.arg, x)
    BY <1>2 DEF AskValue
  <2>2. IsScript(msg.arg)
    BY <1>2, FunctionIs DEF IsScript
  <2> QED
    BY <2>1, <2>2, CallScriptSteady
<1>3. CASE msg.op = "apply" /\ Knows(h, msg.arg) /\ x[1] = "function"
  <2>1. AskValue(h, x, msg) = Call(h, x[2], msg.arg)
    BY <1>3 DEF AskValue
  <2>2. x[2] \in Function
    BY <1>3, KnownIs DEF KnowsValue, Knows
  <2>3. IsListener(h, x[2]) /\ x[2][1] \notin {"gather", "miss", "all"}
    BY <2>2, FunctionIs
  <2>4. IsSeq(Items(msg.arg))
    BY <1>3, ItemsKnows
  <2> QED
    BY <2>1, <2>3, <2>4, CallSteady
<1>4. CASE msg.op = "apply" /\ x[1] # "function"
  <2>1. AskValue(h, x, msg) = Throws(h, TypeError)
    BY <1>4 DEF AskValue
  <2> QED
    BY <2>1, AsideSteady
<1> QED
  BY <1>1, <1>2, <1>3, <1>4 DEF IsAsk

LEMMA AskedSteady ==
  ASSUME NEW h, Tidy(h), NEW msg, IsAsk(h, msg), NEW x, KnowsPromise(h, x), Final(x)
  PROVE  Steady(h, Deliver(h, x, msg))
<1> DEFINE v == AskValue(h, x[2], msg)
           g == IF x[1] = "fulfilled" THEN Caught(v) ELSE AskRejection(h, x, msg)
<1>1. msg.resolve[1] = "deferred" /\ msg.op # "when"
  BY DEF IsAsk
<1>2. x[1] \in {"fulfilled", "rejected"} /\ Knows(h, x)
  BY DEF Final, IsPromise, KnowsPromise
<1>3. Deliver(h, x, msg) = Resolve(g, msg.resolve[2], g.it)
  BY <1>1, <1>2 DEF Deliver, Replies, None
<1>4. Steady(h, g)
  <2>1. CASE x[1] = "fulfilled"
    <3>1. KnowsValue(h, x[2])
      BY <1>2, <2>1, KnownIs DEF Knows, KnowsValue
    <3>2. Steady(h, v)
      BY <3>1, AskValueSteady
    <3>3. g = Caught(v)
      BY <2>1
    <3> HIDE DEF v
    <3>4. Steady(v, Caught(v))
      BY <3>2, CaughtSteady DEF Steady
    <3> QED
      BY <3>2, <3>3, <3>4, SteadyTrans
  <2>2. CASE x[1] = "rejected"
    <3>1. g = Gives(h, x)
      BY <1>1, <2>2 DEF AskRejection
    <3> QED
      BY <3>1, AsideSteady
  <2> QED
    BY <1>2, <2>1, <2>2
<1> HIDE DEF g
<1>5. Tidy(g)
  BY <1>4 DEF Steady
<1>6. Steady(g, Resolve(g, msg.resolve[2], g.it))
  BY <1>5, ResolveSteady
<1> QED
  BY <1>3, <1>4, <1>6, SteadyTrans

LEMMA ListenedSteady ==
  ASSUME NEW h, Tidy(h), NEW d, NEW x, KnowsPromise(h, x), Final(x)
  PROVE  Steady(h, Deliver(h, x, ToListen(d)))
<1> DEFINE msg == ToListen(d)
           v == AskValue(h, x[2], msg)
           g == IF x[1] = "fulfilled" THEN Caught(v) ELSE AskRejection(h, x, msg)
<1>1. msg.resolve = None /\ msg.rejected = None /\ msg.op = "when"
  BY MessagesDiffer
<1> HIDE DEF msg
<1>2. x[1] \in {"fulfilled", "rejected"} /\ Knows(h, x)
  BY DEF Final, IsPromise, KnowsPromise
<1>3. Deliver(h, x, msg) = g
  BY <1>1, <1>2 DEF Deliver, Replies, None
<1>4. CASE x[1] = "fulfilled"
  <2>1. v = Gives(h, x[2])
    BY <1>1 DEF AskValue
  <2>2. Steady(h, v)
    BY <2>1, AsideSteady
  <2> HIDE DEF v
  <2>3. Steady(v, Caught(v))
    BY <2>2, CaughtSteady DEF Steady
  <2>4. Steady(h, g)
    BY <1>4, <2>2, <2>3, SteadyTrans
  <2> QED
    BY <1>3, <2>4 DEF msg
<1>5. CASE x[1] = "rejected"
  <2>1. g = Gives(h, x)
    BY <1>1, <1>5 DEF AskRejection
  <2>2. Steady(h, g)
    BY <2>1, AsideSteady
  <2> QED
    BY <1>3, <2>2 DEF msg
<1> QED
  BY <1>2, <1>4, <1>5

\* The callbacks of a call, as the invariant knows them.
LEMMA HandlersAre ==
  ASSUME NEW h, CoreInv(h), NEW d \in DOMAIN h.deferred
  PROVE  /\ OnFulfilled(h, d) = None \/ IsCallback(h, OnFulfilled(h, d))
         /\ OnRejected(h, d) = None \/ IsCallback(h, OnRejected(h, d))
         /\ OnFulfilled(h, d)[1] = "gather" => Gathered(h, OnFulfilled(h, d)[2]) # None
<1>1. /\ OnFulfilled(h, d) = None \/ IsCallback(h, OnFulfilled(h, d))
      /\ OnRejected(h, d) = None \/ IsCallback(h, OnRejected(h, d))
  BY CoreIs DEF KnownInv
<1>2. ASSUME NEW cb, IsCallback(h, cb), cb[1] = "gather" PROVE Gathered(h, cb[2]) # None
  BY <1>2, FunctionIs DEF IsCallback
<1> QED
  BY <1>1, <1>2 DEF None

\* The handlers of a call, in a memory whose calls are those of h.
LEMMA HandlerCounts ==
  ASSUME NEW h, CoreInv(h), NEW d \in DOMAIN h.deferred, NEW g, CountInv(g), g.deferred = h.deferred,
         NEW side \in {"fulfilled", "rejected"}, NEW x, KnowsValue(h, x)
  PROVE  CountInv(Handle(g, d, side, x))
<1>1. /\ OnFulfilled(g, d) = OnFulfilled(h, d) /\ OnRejected(g, d) = OnRejected(h, d)
      /\ \A e : Gathered(g, e) = Gathered(h, e)
  BY DEF OnFulfilled, OnRejected, Gathered
<1>2. IsSeq(Items(x)) /\ x # None
  BY ItemsKnows, KnownIs DEF KnowsValue, Knows, None
<1> QED
  BY <1>1, <1>2, HandlersAre, HandleCounts

LEMMA AnsweredCounts ==
  ASSUME NEW h, CoreInv(h), CountInv(h), NEW d, NEW y, IsAnswering(h, d, y)
  PROVE  CountInv(Deliver(h, y, ToAnswer(d)))
<1>1. /\ d \in DOMAIN h.deferred /\ Final(y) /\ KnowsPromise(h, y)
      /\ \A side, x : IsSide(side, x, y) => KnowsValue(h, x)
  BY AnsweringIs
<1>2. Tidy(h)
  BY DEF CountInv, CountsBut
<1>3. CASE y[1] = "fulfilled"
  <2> DEFINE msg == ToAnswer(d)
             g == Caught(AskValue(h, y[2], msg))
  <2>1. msg.resolve = <<"then", d>> /\ msg.op = "when"
    BY MessagesDiffer
  <2> HIDE DEF msg
  <2>2. g = Gives(h, y[2]) /\ g.it = y[2] /\ g.deferred = h.deferred
    BY <1>1, <1>3, <2>1, WhenAnswers
  <2>3. Deliver(h, y, msg) = Handle(g, d, "fulfilled", g.it)
    BY <1>3, <2>1 DEF Deliver, Replies, None
  <2> HIDE DEF g
  <2>4. CountInv(g)
    BY <1>2, <2>2, AsideSteady, CountsSteady DEF CountInv
  <2>5. KnowsValue(h, y[2])
    BY <1>1, <1>3 DEF IsSide
  <2>6. CountInv(Handle(g, d, "fulfilled", y[2]))
    BY <1>1, <2>2, <2>4, <2>5, HandlerCounts
  <2> QED
    BY <2>2, <2>3, <2>6 DEF msg
<1>4. CASE y[1] = "rejected"
  <2> DEFINE a == Untrack(h, y[2])
             k == Handle(a, d, "rejected", y[3])
  <2>1. Deliver(h, y, ToAnswer(d)) = Gives(k, Undefined)
    BY <1>4, AnsweredRejected
  <2>2. a.deferred = h.deferred
    BY <1>4, UntrackIs
  <2>3. CountInv(a)
    BY <1>2, AsideSteady, CountsSteady DEF CountInv
  <2> HIDE DEF a
  <2>4. KnowsValue(h, y[3])
    BY <1>1, <1>4 DEF IsSide
  <2>5. CountInv(k)
    BY <1>1, <2>2, <2>3, <2>4, HandlerCounts
  <2> HIDE DEF k
  <2>6. Steady(k, Gives(k, Undefined))
    BY <2>5, AsideSteady DEF CountInv, CountsBut
  <2>7. CountInv(Gives(k, Undefined))
    BY <2>5, <2>6, CountsSteady DEF CountInv
  <2> QED
    BY <2>1, <2>7
<1> QED
  BY <1>1, <1>3, <1>4 DEF Final, IsPromise


LEMMA AnsweredAgainSteady ==
  ASSUME NEW h, CoreInv(h), Tidy(h), NEW d \in DOMAIN h.deferred, IsDone(h, d),
         NEW y, KnowsPromise(h, y), Final(y)
  PROVE  Steady(h, Deliver(h, y, ToAnswer(d)))
<1> DEFINE msg == ToAnswer(d)
<1>1. msg.resolve = <<"then", d>> /\ msg.rejected = <<"then", d>> /\ msg.op = "when"
  BY MessagesDiffer
<1> HIDE DEF msg
<1>2. CASE y[1] = "fulfilled"
  <2> DEFINE g == Caught(AskValue(h, y[2], msg))
  <2>1. g = Gives(h, y[2]) /\ g.deferred = h.deferred
    BY <1>1, <1>2, WhenAnswers
  <2>2. Deliver(h, y, msg) = Handle(g, d, "fulfilled", g.it)
    BY <1>1, <1>2 DEF Deliver, Replies, None
  <2> HIDE DEF g
  <2>3. Handle(g, d, "fulfilled", g.it) = g
    BY <2>1, HandleAgain DEF IsDone
  <2> QED
    BY <2>1, <2>2, <2>3, AsideSteady DEF msg
<1>3. CASE y[1] = "rejected"
  <2> DEFINE a == Untrack(h, y[2])
             k == Handle(a, d, "rejected", y[3])
             g == Gives(k, Undefined)
  <2>1. Deliver(h, y, msg) = Handle(g, d, "fulfilled", g.it)
    BY <1>1, <1>3 DEF Deliver, Replies, AskRejection, None
  <2>2. a.deferred = h.deferred
    BY <1>3, UntrackIs
  <2>3. Steady(h, a) /\ Tidy(a)
    BY AsideSteady DEF Steady
  <2> HIDE DEF a
  <2>4. k = a
    BY <2>2, HandleAgain DEF IsDone
  <2> HIDE DEF k
  <2>5. Steady(a, g) /\ g.deferred = h.deferred
    <3>1. Steady(a, Gives(a, Undefined))
      BY <2>3, AsideSteady
    <3>2. Gives(a, Undefined).deferred = a.deferred
      BY <2>3 DEF Gives, Tidy, MemoryFields
    <3> QED
      BY <2>2, <2>4, <3>1, <3>2
  <2> HIDE DEF g
  <2>6. Handle(g, d, "fulfilled", g.it) = g
    BY <2>5, HandleAgain DEF IsDone
  <2>7. Steady(h, g)
    BY <2>3, <2>5, SteadyTrans
  <2> QED
    BY <2>1, <2>6, <2>7 DEF msg
<1> QED
  BY <1>2, <1>3 DEF Final, IsPromise

LEMMA DeliverCounts ==
  ASSUME NEW h, CoreInv(h), CountInv(h), NEW x, NEW msg, Comes(h, x, msg),
         \A d : Final(x) /\ msg = ToAnswer(d) =>
           \A i \in DOMAIN h.queue : h.queue[i].do = "progress" => h.queue[i].of # d,
         \A d : IsLost(h, d) => msg = ToAnswer(d)
  PROVE  CountInv(Deliver(h, x, msg))
<1>1. IsMessageAt(h, x, msg) /\ KnowsPromise(h, x) /\ Tidy(h)
  BY DEF Comes, IsMessageAt, CountInv, CountsBut
<1>2. ASSUME Steady(h, Deliver(h, x, msg)) PROVE CountInv(Deliver(h, x, msg))
  BY <1>2, CountsSteady DEF CountInv
<1>3. CASE x[1] = "deferred"
  <2>1. Deliver(h, x, msg) = Send(h, x[2], msg)
    BY <1>3 DEF Deliver
  <2> QED
    BY <1>1, <1>2, <2>1, SendSteady
<1>4. CASE x[1] # "deferred" /\ IsAsk(h, msg)
  BY <1>1, <1>2, <1>4, AskedSteady DEF Final, KnowsPromise
<1>5. CASE x[1] # "deferred" /\ IsThenAt(h, x, msg)
  <2>1. Final(x)
    BY <1>1, <1>5 DEF Final, KnowsPromise
  <2>2. PICK d \in DOMAIN h.deferred :
          /\ Self(h, d) # None /\ Along(h, Self(h, d), x)
          /\ msg = ToAnswer(d) \/ msg = ToListen(d)
    BY <1>5 DEF IsThenAt
  <2>3. CASE msg = ToListen(d)
    BY <1>1, <1>2, <2>1, <2>3, ListenedSteady
  <2>4. CASE msg = ToAnswer(d) /\ IsDone(h, d)
    BY <1>1, <1>2, <2>1, <2>4, AnsweredAgainSteady
  <2>5. CASE msg = ToAnswer(d) /\ ~IsDone(h, d)
    <3>1. \A e : IsLost(h, e) => e = d
      BY <2>5, MessagesDiffer
    <3>2. IsAnswering(h, d, x)
      BY <2>1, <2>2, <2>5, <3>1 DEF IsAnswering
    <3> QED
      BY <2>5, <3>2, AnsweredCounts
  <2> QED
    BY <2>2, <2>3, <2>4, <2>5
<1> QED
  BY <1>1, <1>3, <1>4, <1>5 DEF IsMessageAt

LEMMA ProgressSteady ==
  ASSUME NEW h, CoreInv(h), Tidy(h), NEW d \in DOMAIN h.deferred, NEW x, Knows(h, x)
  PROVE  Steady(h, Progress(h, d, x))
<1> DEFINE cb == OnProgress(h, d)
           g == IF cb = None THEN Gives(h, x) ELSE Call(h, cb, x)
           l == IF IsDone(h, d) THEN g.late \cup {d} ELSE g.late
           late == [g EXCEPT !.late = l]
<1>1. Steady(h, g)
  <2>1. CASE cb = None
    BY <2>1, AsideSteady
  <2>2. CASE cb # None
    <3>1. IsListener(h, cb)
      BY <2>2, CoreIs DEF KnownInv
    <3>2. cb[1] \notin {"gather", "miss", "all"}
      BY <3>1, FunctionIs DEF IsListener
    <3>3. IsSeq(Items(x))
      BY ItemsKnows
    <3>4. g = Call(h, cb, x)
      BY <2>2
    <3> HIDE DEF cb, g
    <3> QED
      BY <3>1, <3>2, <3>3, <3>4, CallSteady
  <2> QED
    BY <2>1, <2>2
<1>2. Progress(h, d, x) = PassOn(late, d)
  BY DEF Progress, IsDone, OnProgress
<1> HIDE DEF g, l
<1>3. Steady(g, late)
  BY <1>1, AsideSteady DEF Steady
<1> HIDE DEF late
<1>4. Tidy(late) /\ Steady(h, late)
  BY <1>1, <1>3, SteadyTrans DEF Steady
<1>5. Steady(late, PassOn(late, d))
  <2>1. \A y : Steady(late, [late EXCEPT !.thrown = y])
    BY <1>4, AsideSteady
  <2> QED
    BY <1>4, <2>1, NotifySteady DEF PassOn
<1> QED
  BY <1>2, <1>4, <1>5, SteadyTrans

LEMMA RunCounts ==
  ASSUME NEW h, CoreInv(h), CountInv(h), NEW t, IsDue(h, t),
         \A d : IsLost(h, d) => t.do = "dispatch" /\ t.msg = ToAnswer(d)
  PROVE  CountInv(Run(h, t))
<1>1. Tidy(h) /\ IsTask(h, t)
  BY DEF CountInv, CountsBut, IsDue
<1>2. ASSUME Steady(h, Run(h, t)) PROVE CountInv(Run(h, t))
  BY <1>2, CountsSteady DEF CountInv
<1>3. CASE t.do = "dispatch"
  <2>1. Run(h, t) = Deliver(h, t.to, t.msg)
    BY <1>3 DEF Run
  <2> QED
    BY <1>3, <2>1, DeliverCounts DEF IsDue
<1>4. CASE t.do = "progress"
  <2>1. Run(h, t) = Progress(h, t.of, t.value)
    BY <1>4 DEF Run
  <2>2. t.of \in DOMAIN h.deferred /\ Knows(h, t.value)
    BY <1>1, <1>4 DEF IsTask
  <2> QED
    BY <1>1, <1>2, <2>1, <2>2, ProgressSteady
<1>5. CASE t.do = "coerce"
  <2>1. Run(h, t) = Coerce(h, t.thenable, t.deferred) /\ t.thenable[2] \in {"throws", "keeps"}
    BY <1>1, <1>5 DEF Run, IsTask
  <2>2. \/ Run(h, t) = Reject(h, t.deferred, Error("then"))
        \/ Run(h, t) = [h EXCEPT !.outside = h.outside \cup {t.deferred}]
    BY <2>1 DEF Coerce
  <2>3. \A y : Steady(h, [h EXCEPT !.outside = y])
    BY <1>1, AsideSteady
  <2> QED
    BY <1>1, <1>2, <2>2, <2>3, RejectSteady
<1>6. CASE t.do = "throw"
  <2>1. Run(h, t) = [h EXCEPT !.thrown = Append(h.thrown, t.value)]
    BY <1>6 DEF Run
  <2>2. \A y : Steady(h, [h EXCEPT !.thrown = y])
    BY <1>1, AsideSteady
  <2> QED
    BY <1>2, <2>1, <2>2
<1>7. CASE t.do = "tells"
  <2>1. Run(h, t) = [h EXCEPT !.called = Append(h.called, <<t.side, t.value>>)]
    BY <1>7 DEF Run
  <2>2. \A y : Steady(h, [h EXCEPT !.called = y])
    BY <1>1, AsideSteady
  <2> QED
    BY <1>2, <2>1, <2>2
<1> QED
  BY <1>1, <1>3, <1>4, <1>5, <1>6, <1>7 DEF IsTask

\* A task that is taken from the queue.
LEMMA TaskCounts ==
  ASSUME NEW h, MemoryInv(h), CountInv(h), h.queue # <<>>, h.flush # "idle"
  PROVE  CountInv(Run([h EXCEPT !.queue = Tail(@)], Head(h.queue)))
<1> DEFINE g == [h EXCEPT !.queue = Tail(@)]
           t == Head(h.queue)
<1>1. CoreInv(h) /\ DOMAIN h = MemoryFields /\ Tidy(h) /\ \A d : ~IsLost(h, d)
  BY CoreIs DEF MemoryInv, ShapeInv, CountInv, CountsBut
<1>2. SameRest(h, g) /\ g.deferred = h.deferred /\ g.queue = Tail(h.queue) /\ g.flush # "idle"
  BY <1>1 DEF SameRest, MemoryFields
<1>3. HasTaken(h, g, t)
  BY <1>2 DEF HasTaken
<1>4. Steady(h, g)
  BY <1>1, AsideSteady
<1> HIDE DEF g, t
<1>5. /\ CoreInv(g) /\ IsDue(g, t)
      /\ \A d : IsLost(g, d) => IsLost(h, d) \/ (t.do = "dispatch" /\ t.msg = ToAnswer(d))
  BY <1>1, <1>3, Takes
<1>6. CountInv(g)
  BY <1>4, CountsSteady DEF CountInv
<1>7. CountInv(Run(g, t))
  BY <1>1, <1>5, <1>6, RunCounts
<1> QED
  BY <1>7 DEF g, t


-----------------------------------------------------------------------------
(* The counts after every step *)

\* What a call of a script adds, all and any count for.
LEMMA MakesCounts ==
  ASSUME CoreInv(m), CountInv(m), NEW c, MayBeCalled(c), c.of[1] = "held" => c.of[2] \in DOMAIN m.held
  PROVE  CountInv(Makes(c))
<1> DEFINE x == Held(c.of)
<1>1. ASSUME Steady(m, Makes(c)) PROVE CountInv(Makes(c))
  BY <1>1, CountsSteady DEF CountInv
<1>2. Tidy(m)
  BY DEF CountInv, CountsBut
<1>3. /\ c.call = "promise" => c.value \in Resolver
      /\ c.call \in {"async", "spawn"} => c.value \in Generator
  BY ArgumentsAre
<1>4. c.call \in {"any", "race"} => IsSeq(Items(x))
  <2>1. c.call \in {"any", "race"} => Knows(m, x)
    BY ArgumentsAre, HeldIs
  <2> HIDE DEF x
  <2> QED
    BY <2>1, ItemsKnows
<1>5. CountsNot(c.fulfilled) /\ CountsNot(c.rejected)
  <2>1. \A f \in Function : CountsNot(f)
    BY FunctionIs DEF CountsNot
  <2>2. /\ c.fulfilled = None \/ c.fulfilled \in Function
        /\ c.rejected = None \/ c.rejected \in Function
    BY ArgumentsAre
  <2> HIDE DEF Function
  <2> QED
    BY <2>1, <2>2, NoneCountsNot
<1>6. c.call \in {"then", "done", "fail", "progress", "thenResolve", "thenReject", "ask",
        "fcall", "all", "any", "allResolved", "allSettled", "race", "raceOf", "promise",
        "spread", "join", "promised", "tap", "finally", "timeout", "delay", "nfapply",
        "nodeify", "async", "spawn"}
  BY ArgumentsAre
<1> HIDE DEF x
<1>7. CASE c.call = "then"
  <2>1. Makes(c) = When(m, x, c.fulfilled, c.rejected, c.progressed)
    BY <1>7, MakesAre DEF x
  <2>2. Steady(m, When(m, x, c.fulfilled, c.rejected, c.progressed))
    BY <1>2, <1>5, WhenSteady
  <2> QED
    BY <1>1, <2>1, <2>2
<1>8. CASE c.call = "done"
  <2>1. Makes(c) = Done(m, x, c.fulfilled, c.rejected, c.progressed)
    BY <1>8, MakesAre DEF x
  <2>2. Steady(m, Done(m, x, c.fulfilled, c.rejected, c.progressed))
    BY <1>2, <1>5, DoneSteady
  <2> QED
    BY <1>1, <2>1, <2>2
<1>9. CASE c.call = "fail"
  <2>1. Makes(c) = Fail(m, x, c.rejected)
    BY <1>9, MakesAre DEF x
  <2>2. Steady(m, Fail(m, x, c.rejected))
    BY <1>2, <1>5, WhensSteady
  <2> QED
    BY <1>1, <2>1, <2>2
<1>10. CASE c.call = "progress"
  <2>1. Makes(c) = ProgressOf(m, x, c.progressed)
    BY <1>10, MakesAre DEF x
  <2>2. Steady(m, ProgressOf(m, x, c.progressed))
    BY <1>2, WhensSteady
  <2> QED
    BY <1>1, <2>1, <2>2
<1>11. CASE c.call = "thenResolve"
  <2>1. Makes(c) = ThenResolve(m, x, c.value)
    BY <1>11, MakesAre DEF x
  <2>2. Steady(m, ThenResolve(m, x, c.value))
    BY <1>2, WhensSteady
  <2> QED
    BY <1>1, <2>1, <2>2
<1>12. CASE c.call = "thenReject"
  <2>1. Makes(c) = ThenReject(m, x, c.value)
    BY <1>12, MakesAre DEF x
  <2>2. Steady(m, ThenReject(m, x, c.value))
    BY <1>2, WhensSteady
  <2> QED
    BY <1>1, <2>1, <2>2
<1>13. CASE c.call = "ask"
  <2>1. Makes(c) = Ask(m, x, "data", c.value)
    BY <1>13, MakesAre DEF x
  <2>2. Steady(m, Ask(m, x, "data", c.value))
    BY <1>2, AskSteady
  <2> QED
    BY <1>1, <2>1, <2>2
<1>14. CASE c.call = "fcall"
  <2>1. Makes(c) = Fcall(m, x, Undefined)
    BY <1>14, MakesAre DEF x
  <2>2. Steady(m, Fcall(m, x, Undefined))
    BY <1>2, FcallSteady
  <2> QED
    BY <1>1, <2>1, <2>2
<1>15. CASE c.call = "all"
  <2>1. Makes(c) = All(m, x)
    BY <1>15, MakesAre DEF x
  <2>2. Steady(m, All(m, x))
    BY <1>2, WhensSteady
  <2> QED
    BY <1>1, <2>1, <2>2
<1>16. CASE c.call = "allResolved"
  <2>1. Makes(c) = AllResolved(m, x)
    BY <1>16, MakesAre DEF x
  <2>2. Steady(m, AllResolved(m, x))
    BY <1>2, WhensSteady
  <2> QED
    BY <1>1, <2>1, <2>2
<1>17. CASE c.call = "allSettled"
  <2>1. Makes(c) = AllSettled(m, x)
    BY <1>17, MakesAre DEF x
  <2>2. Steady(m, AllSettled(m, x))
    BY <1>2, WhensSteady
  <2> QED
    BY <1>1, <2>1, <2>2
<1>18. CASE c.call = "race"
  <2>1. Makes(c) = Race(m, x)
    BY <1>18, MakesAre DEF x
  <2>2. Steady(m, Race(m, x))
    BY <1>18, <1>2, <1>4, OfArraySteady
  <2> QED
    BY <1>1, <2>1, <2>2
<1>19. CASE c.call = "raceOf"
  <2>1. Makes(c) = When(m, x, <<"race">>, None, None)
    BY <1>19, MakesAre DEF x
  <2>2. Steady(m, When(m, x, <<"race">>, None, None))
    BY <1>2, LibraryCountsNot, NoneCountsNot, WhenSteady
  <2> QED
    BY <1>1, <2>1, <2>2
<1>20. CASE c.call = "promise"
  <2>1. Makes(c) = NewPromise(m, c.value)
    BY <1>20, MakesAre DEF x
  <2>2. Steady(m, NewPromise(m, c.value))
    BY <1>20, <1>2, <1>3, NewPromiseSteady
  <2> QED
    BY <1>1, <2>1, <2>2
<1>21. CASE c.call = "spread"
  <2>1. Makes(c) = Spread(m, x, c.fulfilled, c.rejected)
    BY <1>21, MakesAre DEF x
  <2>2. Steady(m, Spread(m, x, c.fulfilled, c.rejected))
    BY <1>2, <1>5, SpreadSteady
  <2> QED
    BY <1>1, <2>1, <2>2
<1>22. CASE c.call = "join"
  <2>1. Makes(c) = Join(m, Items(x)[1], Items(x)[2])
    BY <1>22, MakesAre DEF x
  <2>2. Steady(m, Join(m, Items(x)[1], Items(x)[2]))
    BY <1>2, PromisedSteady
  <2> QED
    BY <1>1, <2>1, <2>2
<1>23. CASE c.call = "promised"
  <2>1. Makes(c) = Promised(m, Items(x)[1], Tail(Items(x)), c.fulfilled)
    BY <1>23, MakesAre DEF x
  <2>2. Steady(m, Promised(m, Items(x)[1], Tail(Items(x)), c.fulfilled))
    BY <1>2, PromisedSteady
  <2> QED
    BY <1>1, <2>1, <2>2
<1>24. CASE c.call = "tap"
  <2>1. Makes(c) = Tap(m, x, c.fulfilled)
    BY <1>24, MakesAre DEF x
  <2>2. Steady(m, Tap(m, x, c.fulfilled))
    BY <1>2, WhensSteady
  <2> QED
    BY <1>1, <2>1, <2>2
<1>25. CASE c.call = "finally"
  <2>1. Makes(c) = Finally(m, x, c.fulfilled)
    BY <1>25, MakesAre DEF x
  <2>2. Steady(m, Finally(m, x, c.fulfilled))
    BY <1>2, WhensSteady
  <2> QED
    BY <1>1, <2>1, <2>2
<1>26. CASE c.call = "timeout"
  <2>1. Makes(c) = Timeout(m, x)
    BY <1>26, MakesAre DEF x
  <2>2. Steady(m, Timeout(m, x))
    BY <1>2, TimeoutSteady
  <2> QED
    BY <1>1, <2>1, <2>2
<1>27. CASE c.call = "delay"
  <2>1. Makes(c) = Delay(m, x)
    BY <1>27, MakesAre DEF x
  <2>2. Steady(m, Delay(m, x))
    BY <1>2, WhensSteady
  <2> QED
    BY <1>1, <2>1, <2>2
<1>28. CASE c.call = "nfapply"
  <2>1. Makes(c) = Nfapply(m, c.fulfilled)
    BY <1>28, MakesAre DEF x
  <2>2. Steady(m, Nfapply(m, c.fulfilled))
    BY <1>2, TimeoutSteady
  <2> QED
    BY <1>1, <2>1, <2>2
<1>29. CASE c.call = "nodeify"
  <2>1. Makes(c) = Nodeify(m, x)
    BY <1>29, MakesAre DEF x
  <2>2. Steady(m, Nodeify(m, x))
    BY <1>2, WhensSteady
  <2> QED
    BY <1>1, <2>1, <2>2
<1>30. CASE c.call = "async"
  <2>1. Makes(c) = Async(m, c.value)
    BY <1>30, MakesAre DEF x
  <2>2. Steady(m, Async(m, c.value))
    BY <1>30, <1>2, <1>3, SpawnSteady
  <2> QED
    BY <1>1, <2>1, <2>2
<1>31. CASE c.call = "spawn"
  <2>1. Makes(c) = Spawn(m, c.value)
    BY <1>31, MakesAre DEF x
  <2>2. Steady(m, Spawn(m, c.value))
    BY <1>31, <1>2, <1>3, SpawnSteady
  <2> QED
    BY <1>1, <2>1, <2>2
<1>32. CASE c.call = "any"
  <2>1. Makes(c) = AnyOf(m, Items(x))
    BY <1>32, MakesAre DEF x
  <2> QED
    BY <1>4, <1>32, <2>1, AnyOfCounts
<1> QED
    BY <1>6, <1>7, <1>8, <1>9, <1>10, <1>11, <1>12, <1>13, <1>14, <1>15, <1>16, <1>17, <1>18,
     <1>19, <1>20, <1>21, <1>22, <1>23, <1>24, <1>25, <1>26, <1>27, <1>28, <1>29, <1>30, <1>31,
     <1>32

LEMMA EndedCounts ==
  ASSUME NEW h, CountInv(h)
  PROVE  CountInv(Ended(h))
<1>1. Steady(h, Ended(h))
  BY AsideSteady DEF CountInv, CountsBut
<1> QED
  BY <1>1, CountsSteady DEF CountInv

LEMMA SettledCounts ==
  ASSUME NEW h, CountInv(h), NEW g, Steady(h, g), NEW d, NEW x
  PROVE  /\ CountInv(Ended(Resolve(g, d, x))) /\ CountInv(Ended(Reject(g, d, x)))
         /\ CountInv(Ended(Notify(g, d, x)))
<1>1. CountInv(g) /\ Tidy(g)
  BY CountsSteady DEF CountInv, Steady
<1>2. Steady(g, Resolve(g, d, x)) /\ Steady(g, Reject(g, d, x)) /\ Steady(g, Notify(g, d, x))
  BY <1>1, ResolveSteady, RejectSteady, NotifySteady
<1>3. CountInv(Resolve(g, d, x)) /\ CountInv(Reject(g, d, x)) /\ CountInv(Notify(g, d, x))
  BY <1>1, <1>2, CountsSteady DEF CountInv
<1> QED
  BY <1>3, EndedCounts

LEMMA NextCounts ==
  ASSUME QInv, CountInv(m), Next
  PROVE  CountInv(m')
<1>1. MemoryInv(m) /\ CoreInv(m) /\ Tidy(m) /\ ScriptInv
  BY DEF QInv, MemoryInv, CountInv, CountsBut
<1>2. CASE ScriptCalls
  <2> DEFINE c == script[Len(m.held) + 1]
             h == Makes(c)
             g == [h EXCEPT !.held = Append(h.held, h.it)]
  <2>1. m' = Ended(g) /\ Len(m.held) < Len(script)
    BY <1>2 DEF ScriptCalls, Holds
  <2>2. MayBeCalled(c) /\ (c.of[1] = "held" => c.of[2] \in DOMAIN m.held)
    BY <1>1, <2>1, ScriptIs
  <2> HIDE DEF c
  <2>3. CountInv(h)
    BY <1>1, <2>2, MakesCounts
  <2> HIDE DEF h
  <2>4. \A y : Steady(h, [h EXCEPT !.held = y])
    BY <2>3, AsideSteady DEF CountInv, CountsBut
  <2>5. CountInv(g)
    BY <2>3, <2>4, CountsSteady DEF CountInv
  <2> QED
    BY <2>1, <2>5, EndedCounts
<1>3. CASE \E d \in Unresolved : ScriptResolves(d) \/ ScriptRejects(d)
  <2>1. \E d, x : m' = Ended(Resolve(m, d, x)) \/ m' = Ended(Reject(m, d, x))
    BY <1>3 DEF ScriptResolves, ScriptRejects
  <2>2. Steady(m, m)
    BY <1>1, AsideSteady
  <2> QED
    BY <2>1, <2>2, SettledCounts
<1>4. CASE \E d \in Notifying : ScriptNotifies(d)
  <2>1. \E d, x, y : m' = Ended(Notify([m EXCEPT !.notified = y], d, x))
    BY <1>4 DEF ScriptNotifies
  <2>2. \A y : Steady(m, [m EXCEPT !.notified = y])
    BY <1>1, AsideSteady
  <2> QED
    BY <2>1, <2>2, SettledCounts
<1>5. CASE FlushStarts \/ FlushEnds
  <2>1. PICK s \in {"running", "idle"} : m' = [m EXCEPT !.flush = s]
    BY <1>5 DEF FlushStarts, FlushEnds
  <2>2. DOMAIN m' = MemoryFields /\ m'.deferred = m.deferred /\ m'.flush = s
    BY <1>1, <2>1 DEF Tidy, MemoryFields
  <2>3. Steady(m, m')
    BY <1>1, <2>2, SteadyAside
  <2> QED
    BY <2>3, CountsSteady DEF CountInv
<1>6. CASE RunTask
  <2>1. /\ m.flush # "idle" /\ m.queue # <<>>
        /\ m' = Ended(Run([m EXCEPT !.queue = Tail(@)], Head(m.queue)))
    BY <1>6 DEF RunTask
  <2> QED
    BY <1>1, <2>1, TaskCounts, EndedCounts
<1>7. CASE Fires
  <2>1. \E d, x, t, f : LET g == [m EXCEPT !.timers = t, !.fired = f]
                        IN m' = Ended(Resolve(g, d, x)) \/ m' = Ended(Reject(g, d, x))
    BY <1>7 DEF Fires, TimerFires
  <2>2. ASSUME NEW t, NEW f PROVE Steady(m, [m EXCEPT !.timers = t, !.fired = f])
    <3> DEFINE g == [m EXCEPT !.timers = t, !.fired = f]
    <3>1. DOMAIN g = MemoryFields /\ g.deferred = m.deferred /\ g.flush = m.flush
      BY <1>1 DEF Tidy, MemoryFields
    <3> HIDE DEF g
    <3>2. Steady(m, g)
      BY <1>1, <3>1, SteadyAside DEF Tidy
    <3> QED
      BY <3>2 DEF g
  <2> QED
    BY <2>1, <2>2, SettledCounts
<1> QED
  BY <1>2, <1>3, <1>4, <1>5, <1>6, <1>7 DEF Next, Turn, Flush

LEMMA InitCounts ==
  ASSUME Init
  PROVE  CountInv(m)
<1>1. /\ m.deferred = [d \in 1..Sources |-> NewDeferred]
      /\ DOMAIN m = MemoryFields /\ m.flush = "idle"
  BY DEF Init, MemoryFields
<1>2. IsSeq(m.deferred) /\ DOMAIN m.deferred = 1..Sources
  <2>1. IsSeq(m.deferred)
    BY InitMemory DEF MemoryInv, CoreInv, TargetsInv
  <2> QED
    BY <1>1, <2>1
<1>3. \A d \in DOMAIN m.deferred : m.deferred[d] = NewDeferred
  BY <1>1
<1>4. Tidy(m)
  BY <1>1, <1>2, <1>3, NewDeferredIs DEF Tidy
<1>5. \A d \in DOMAIN m.deferred :
        /\ IsPair(m, m.deferred[d]) /\ CounterOf(m.deferred[d]) = 0
        /\ CountOf(m, d) = 0 /\ Gathered(m, d) = None
  <2> DEFINE r == NewDeferred
  <2>1. /\ r.fulfilled = None /\ r.rejected = None /\ r.array = None
        /\ r.pendingCount = 0
    BY DEF NewDeferred
  <2> HIDE DEF r
  <2>2. CounterOf(r) = 0 /\ \A h : IsPair(h, r)
    BY <2>1, NoneCountsNot, UncountedIs DEF CountsNot
  <2> QED
    BY <1>3, <2>1, <2>2 DEF CountOf, Gathered, r
<1>6. ASSUME NEW d \in DOMAIN m.deferred PROVE CountFits(m, d, 0) /\ IsCountedOut(m, d)
  <2>1. d # 0
    BY <1>4, NumbersOf
  <2>2. Counting(m, d) = {}
    BY <1>5, <2>1 DEF Counting
  <2>3. Cardinality({}) = 0
    BY FS_EmptySet
  <2> QED
    BY <1>5, <1>6, <2>1, <2>2, <2>3 DEF CountFits, IsCountedOut, IsCounter
<1> QED
  BY <1>4, <1>5, <1>6 DEF CountInv, CountsBut


\* What the memory of the library is like in every state, the counts included.
QCountInv == QInv /\ CountInv(m)

LEMMA QCountNext ==
  ASSUME QCountInv, [Next]_vars
  PROVE  QCountInv'
<1>1. QInv'
  BY QInvNext DEF QCountInv
<1>2. CASE Next
  <2>1. CountInv(m')
    BY <1>2, NextCounts DEF QCountInv
  <2> QED
    BY <1>1, <2>1 DEF QCountInv
<1>3. CASE UNCHANGED vars
  <2>1. m' = m
    BY <1>3 DEF vars
  <2>2. CountInv(m')
    BY <2>1 DEF QCountInv
  <2> QED
    BY <1>1, <2>2 DEF QCountInv
<1> QED
  BY <1>2, <1>3

\* In every state pendingCount of a promise of all or any is the number of calls of then
\* that count for it and are still to be answered, as long as it is not resolved; it is
\* never less, and one that has come down to nothing has resolved its promise.
THEOREM QCountInvariant == Spec => []QCountInv
<1>1. Init => QCountInv
  BY InitMemory, InitCounts DEF QInv, QCountInv
<1>2. QCountInv /\ [Next]_vars => QCountInv'
  BY QCountNext
<1> QED
  BY <1>1, <1>2, PTL DEF Spec

\* The memory has its types: an idle library has no task left, a resolved deferred keeps
\* no message and no listener, and the count of all is between 0 and the number of items.
THEOREM QTypeOK == Spec => [](Within => TypeOK)
<1>1. ASSUME QCountInv, Within PROVE TypeOK
  <2>1. CoreInv(m) /\ CountInv(m) /\ Tidy(m)
    BY <1>1 DEF QCountInv, QInv, MemoryInv, CountInv, CountsBut
  <2>2. m.flush \in {"idle", "requested", "running"} /\ (m.flush = "idle" => m.queue = <<>>)
    BY <2>1, CoreIs DEF Tidy, QueueInv
  <2>3. m.unhandled \subseteq 1..m.rejections /\ m.outside \subseteq DOMAIN m.deferred
    BY <2>1, CoreIs DEF KnownInv
  <2>4. ASSUME NEW d \in DOMAIN m.deferred
        PROVE  LET r == m.deferred[d]
               IN /\ r.target = None \/ IsPromise(r.target)
                  /\ IsResolved(m, d) => r.messages = <<>> /\ r.listeners = <<>>
                  /\ r.pendingCount \in 0..Len(Items(r.array)) \/ Items(r.array) = <<>>
    <3>1. Target(m, d) = None \/ IsPromise(Target(m, d))
      BY <2>1, CoreIs DEF KnownInv, KnowsPromise
    <3>2. IsResolved(m, d) => Messages(m, d) = <<>> /\ Listeners(m, d) = <<>>
      BY <2>1, CoreIs DEF KeptInv
    <3>3. CountFits(m, d, 0)
      BY <2>1, NumbersOf DEF CountInv, CountsBut
    <3>4. CASE Gathered(m, d) = None
      <4>1. Items(Gathered(m, d)) = <<>>
        BY <3>4 DEF Items, None
      <4> QED
        BY <3>1, <3>2, <4>1 DEF Target, Messages, Listeners, Gathered
    <3>5. CASE Gathered(m, d) # None
      <4> DEFINE n == CountOf(m, d)
                 l == Len(Items(Gathered(m, d)))
      <4>1. n \in Nat /\ IsSeq(Items(Gathered(m, d))) /\ n <= l
        BY <3>3, <3>5 DEF CountFits
      <4>2. l \in Nat
        BY <4>1, SeqIs
      <4> HIDE DEF n, l
      <4>3. n \in 0..l
        BY <4>1, <4>2
      <4> QED
        BY <3>1, <3>2, <4>3 DEF Target, Messages, Listeners, Gathered, CountOf, n, l
    <3> QED
      BY <3>4, <3>5
  <2> QED
    BY <1>1, <2>2, <2>3, <2>4 DEF TypeOK
<1> QED
  BY <1>1, QCountInvariant, PTL

\* What all and any wait for: an unresolved promise of theirs has a call of then that will
\* count down, and between two flushes one whose promise has not settled either.
CountsComeDown ==
  \A d \in DOMAIN m.deferred : IsCounter(m, d) /\ ~IsResolved(m, d) =>
    \E c \in DOMAIN m.deferred :
      /\ CounterOf(m.deferred[c]) = d /\ ~IsDone(m, c)
      /\ m.flush = "idle" => Inspect(m, Self(m, c)) = Pending

\* Whatever the order in which the items of all and any settle, and whatever they are
\* resolved with meanwhile, no count is missed: the promise of all or any is never left
\* pending once everything it waits for has settled.
THEOREM QNoCountIsMissed == Spec => []CountsComeDown
<1>1. ASSUME QCountInv, HandlersWereCalled PROVE CountsComeDown
  <2> SUFFICES ASSUME NEW d \in DOMAIN m.deferred, IsCounter(m, d), ~IsResolved(m, d)
               PROVE  \E c \in DOMAIN m.deferred :
                        /\ CounterOf(m.deferred[c]) = d /\ ~IsDone(m, c)
                        /\ m.flush = "idle" => Inspect(m, Self(m, c)) = Pending
    BY DEF CountsComeDown
  <2>1. CountInv(m) /\ Tidy(m)
    BY <1>1 DEF QCountInv, CountInv, CountsBut
  <2>2. d # 0
    BY <2>1, NumbersOf
  <2>3. CountFits(m, d, 0) /\ IsCountedOut(m, d)
    BY <2>1, <2>2 DEF CountInv, CountsBut
  <2>4. Cardinality(Counting(m, d)) # 0
    <3>1. Cardinality(Counting(m, d)) \in Nat
      BY <2>1, CountingIsFinite
    <3>2. CountOf(m, d) = Cardinality(Counting(m, d)) + 0 /\ CountOf(m, d) # 0
      BY <2>3 DEF CountFits, IsCountedOut
    <3> QED
      BY <3>1, <3>2
  <2>5. Counting(m, d) # {}
    BY <2>4, FS_EmptySet
  <2>6. PICK c \in DOMAIN m.deferred : ~IsDone(m, c) /\ CounterOf(m.deferred[c]) = d
    BY <2>5 DEF Counting
  <2>7. DoesCount(m.deferred[c])
    BY <2>2, <2>6, NotCountingIs
  <2>8. IsPair(m, m.deferred[c])
    BY <2>1 DEF CountInv, CountsBut
  <2>9. Self(m, c) # None
    BY <2>7, <2>8 DEF IsPair, Self
  <2>10. m.flush = "idle" => Inspect(m, Self(m, c)) = Pending
    BY <1>1, <2>6, <2>9 DEF HandlersWereCalled
  <2> QED
    BY <2>6, <2>10
<1> QED
  BY <1>1, QCountInvariant, QNoHandlerIsForgotten, PTL

=============================================================================
