---------------------------- MODULE PromisesProofs ----------------------------
(***************************************************************************)
(* promises.js keeps its promises, for any scripts and any number of       *)
(* promises: every step of Promises is a step of PromiseSpec or stutters.  *)
(*                                                                         *)
(* The proof goes from the chains of promises that follow one another, to  *)
(* the invariant of the memory, to each function of the library, which     *)
(* keeps it and only adds to what handlers and scripts have seen.          *)
(***************************************************************************)
EXTENDS Promises, FiniteSetTheorems, SequenceTheorems, WellFoundedInduction, TLAPS

-----------------------------------------------------------------------------
(* Counting *)

LEMMA Interval ==
  \A n \in Nat : IsFiniteSet(1..n) /\ Cardinality(1..n) = n
BY FS_Interval

\* A set of numbers that holds 0, and the next of each of its own, holds all.
LEMMA NatSet ==
  ASSUME NEW S, 0 \in S, \A n \in Nat : n \in S => n + 1 \in S
  PROVE  \A n \in Nat : n \in S
<1> DEFINE T == Nat \ S
           R == OpToRel(<, Nat)
<1> SUFFICES ASSUME T # {} PROVE FALSE
  OBVIOUS
<1>1. IsWellFoundedOn(R, Nat)
  BY NatLessThanWellFounded
<1>2. T \subseteq Nat
  OBVIOUS
<1> HIDE DEF T, R
<1>3. PICK x \in T : \A y \in T : ~(<<y, x>> \in R)
  BY <1>1, <1>2, WFMin
<1>4. x \in Nat /\ x \notin S /\ x # 0
  BY DEF T
<1>5. x - 1 \in Nat /\ <<x - 1, x>> \in R
  BY <1>4 DEF R, OpToRel
<1>6. x - 1 \in S
  BY <1>3, <1>5 DEF T
<1> QED
  BY <1>4, <1>5, <1>6

-----------------------------------------------------------------------------
(* Where a chain of promises ends *)

\* The successive values of self, for a function F from a promise to the next.
Loop(F, p) ==
  CHOOSE self : self = [n \in 0..MaxPromises |-> IF n = 0 THEN p ELSE F[self[n - 1]]]

IsLoop(self, F, p) ==
  /\ self \in [0..MaxPromises -> Promises]
  /\ self[0] = p
  /\ \A n \in 1..MaxPromises : self[n] = F[self[n - 1]]

LEMMA LoopIs ==
  ASSUME NEW F \in [Promises -> Promises], NEW p \in Promises
  PROVE  IsLoop(Loop(F, p), F, p)
<1> DEFINE Upto(k, f) == /\ f \in [0..k -> Promises]
                         /\ f[0] = p
                         /\ \A n \in 1..k : f[n] = F[f[n - 1]]
           S == {k \in Nat : \E f : Upto(k, f)}
<1>1. 0 \in S
  <2>1. Upto(0, [n \in 0..0 |-> p])
    OBVIOUS
  <2> QED
    BY <2>1
<1>2. ASSUME NEW k \in Nat, k \in S
      PROVE  k + 1 \in S
  <2>1. PICK f : Upto(k, f)
    BY <1>2
  <2> DEFINE g == [n \in 0..(k + 1) |-> IF n = k + 1 THEN F[f[k]] ELSE f[n]]
  <2>2. Upto(k + 1, g)
    BY <2>1
  <2> HIDE DEF g
  <2>3. \E e : Upto(k + 1, e)
    BY <2>2
  <2> QED
    BY <2>3
<1> HIDE DEF S
<1>3. MaxPromises \in S
  BY <1>1, <1>2, NatSet, MaxPromisesAssumption
<1>4. PICK f : Upto(MaxPromises, f)
  BY <1>3 DEF S
<1>5. f = [n \in 0..MaxPromises |-> IF n = 0 THEN p ELSE F[f[n - 1]]]
  BY <1>4
<1> DEFINE self == Loop(F, p)
<1>6. self = [n \in 0..MaxPromises |-> IF n = 0 THEN p ELSE F[self[n - 1]]]
  BY <1>5 DEF Loop
<1> HIDE DEF self
<1>7. /\ self[0] = p
      /\ \A n \in 1..MaxPromises : self[n] = F[self[n - 1]]
  BY <1>6, MaxPromisesAssumption
<1> DEFINE U == {n \in Nat : n \in 0..MaxPromises => self[n] \in Promises}
<1>8. 0 \in U
  BY <1>7
<1>9. \A n \in Nat : n \in U => n + 1 \in U
  BY <1>7, MaxPromisesAssumption
<1> HIDE DEF U
<1>10. \A n \in Nat : n \in U
  BY <1>8, <1>9, NatSet
<1>11. \A n \in 0..MaxPromises : self[n] \in Promises
  BY <1>10, MaxPromisesAssumption DEF U
<1>12. self \in [0..MaxPromises -> Promises]
  BY <1>6, <1>11
<1> QED
  BY <1>7, <1>12 DEF IsLoop, self

\* What a set of promises must have to hold every chain that ends in it.
Closed(h, S) ==
  \A p \in Promises : h.state[p] = "following" /\ h.value[p][2] \in S => p \in S

\* The promises whose chain ends at r.
Basin(h, r) ==
  {p \in Promises : \A S \in SUBSET Promises : r \in S /\ Closed(h, S) => p \in S}

\* Nothing follows what is no promise.
FollowsPromises(h) ==
  /\ \A p \in Promises : h.state[p] = "following" => h.value[p][2] \in Promises

LEMMA NextType ==
  ASSUME NEW h, FollowsPromises(h)
  PROVE  NextIn(h) \in [Promises -> Promises]
BY DEF NextIn, FollowsPromises

LEMMA RootIs ==
  ASSUME NEW h, NEW p
  PROVE  /\ h.state[p] = "following" => Root(h, p) = Loop(NextIn(h), p)[MaxPromises]
         /\ h.state[p] # "following" => Root(h, p) = p
BY DEF Root, Loop

\* The chain of p, when it follows.
LEMMA ChainIs ==
  ASSUME NEW h, FollowsPromises(h), NEW p \in Promises, h.state[p] = "following"
  PROVE  \E self \in [0..MaxPromises -> Promises] :
           /\ self[0] = p /\ self[MaxPromises] = Root(h, p)
           /\ \A n \in 1..MaxPromises : self[n] = NextIn(h)[self[n - 1]]
BY NextType, LoopIs, RootIs DEF IsLoop

LEMMA RootType ==
  ASSUME NEW h, FollowsPromises(h), NEW p \in Promises
  PROVE  Root(h, p) \in Promises
BY RootIs, ChainIs, MaxPromisesAssumption

\* A chain stays in a set that the promises it follows are in.
LEMMA RootStays ==
  ASSUME NEW h, FollowsPromises(h), NEW S, NEW p \in S \cap Promises,
         \A q \in S \cap Promises : h.state[q] = "following" => h.value[q][2] \in S
  PROVE  Root(h, p) \in S
<1>1. CASE h.state[p] # "following"
  BY <1>1, RootIs
<1>2. CASE h.state[p] = "following"
  <2>1. PICK self \in [0..MaxPromises -> Promises] :
          /\ self[0] = p /\ self[MaxPromises] = Root(h, p)
          /\ \A n \in 1..MaxPromises : self[n] = NextIn(h)[self[n - 1]]
    BY <1>2, ChainIs
  <2> DEFINE U == {n \in Nat : n \in 0..MaxPromises => self[n] \in S}
  <2>2. 0 \in U
    BY <2>1
  <2>3. ASSUME NEW n \in Nat, n \in U, n + 1 \in 0..MaxPromises
        PROVE  self[n + 1] \in S
    <3>1. n \in 0..MaxPromises /\ n + 1 \in 1..MaxPromises /\ (n + 1) - 1 = n
      BY <2>3, MaxPromisesAssumption
    <3>2. self[n + 1] = NextIn(h)[self[n]] /\ self[n] \in S \cap Promises
      BY <2>1, <2>3, <3>1
    <3> QED
      BY <3>2 DEF NextIn
  <2>4. \A n \in Nat : n \in U => n + 1 \in U
    BY <2>3
  <2> HIDE DEF U
  <2>5. \A n \in Nat : n \in U
    BY <2>2, <2>4, NatSet
  <2> QED
    BY <2>1, <2>5, MaxPromisesAssumption DEF U
<1> QED
  BY <1>1, <1>2

LEMMA BasinStart ==
  ASSUME NEW h, NEW r \in Promises
  PROVE  r \in Basin(h, r)
BY DEF Basin

LEMMA BasinClosed ==
  ASSUME NEW h, NEW r
  PROVE  Closed(h, Basin(h, r))
<1> SUFFICES ASSUME NEW p \in Promises, h.state[p] = "following", h.value[p][2] \in Basin(h, r),
                    NEW S \in SUBSET Promises, r \in S, Closed(h, S)
             PROVE  p \in S
  BY DEF Closed, Basin
<1>1. h.value[p][2] \in S
  BY DEF Basin
<1> QED
  BY <1>1 DEF Closed

\* What holds of r and of whatever follows it holds of its basin.
LEMMA BasinLeast ==
  ASSUME NEW h, NEW r \in Promises, NEW S, r \in S, Closed(h, S \cap Promises)
  PROVE  Basin(h, r) \subseteq S
BY DEF Basin

\* A chain that ends at r passes through r, and what comes before follows.
LEMMA BasinNext ==
  ASSUME NEW h, NEW r \in Promises, h.state[r] # "following", NEW p \in Basin(h, r), p # r
  PROVE  h.state[p] = "following" /\ h.value[p][2] \in Basin(h, r)
<1> DEFINE S == {q \in Basin(h, r) :
                   q # r => h.state[q] = "following" /\ h.value[q][2] \in Basin(h, r)}
<1>1. r \in S
  BY BasinStart
<1>2. Closed(h, S \cap Promises)
  BY BasinClosed DEF Closed
<1> HIDE DEF S
<1>3. p \in S
  BY <1>1, <1>2, BasinLeast
<1> QED
  BY <1>3 DEF S

\* Its loop ends: otherwise it would come to the same promise twice, and nothing
\* in a ring leads to r.
LEMMA BasinRoot ==
  ASSUME NEW h, FollowsPromises(h), NEW r \in Promises, h.state[r] # "following",
         NEW p \in Basin(h, r)
  PROVE  Root(h, p) = r
<1>1. CASE h.state[p] # "following"
  BY <1>1, BasinNext, RootIs
<1>2. CASE h.state[p] = "following"
  <2> DEFINE N == MaxPromises
             F == NextIn(h)
  <2>1. p \in Promises
    BY DEF Basin
  <2>2. PICK self \in [0..N -> Promises] :
          /\ self[0] = p /\ self[N] = Root(h, p)
          /\ \A n \in 1..N : self[n] = F[self[n - 1]]
    BY <1>2, <2>1, ChainIs
  <2>3. N \in Nat /\ F \in [Promises -> Promises]
    BY NextType, MaxPromisesAssumption
  <2>4. \A n \in 0..N : n < N => self[n + 1] = F[self[n]]
    BY <2>2, <2>3
  <2>5. F[r] = r
    BY DEF NextIn
  <2>6. \A q \in Basin(h, r) : F[q] \in Basin(h, r) /\ q \in Promises
    BY BasinNext DEF NextIn, Basin
  <2>7. \A q \in Promises : F[q] \in Basin(h, r) => q \in Basin(h, r)
    BY BasinClosed DEF Closed, NextIn
  <2> HIDE DEF F, N
  <2>8. \A n \in 0..N : self[n] \in Basin(h, r)
    <3> DEFINE U == {n \in Nat : n \in 0..N => self[n] \in Basin(h, r)}
    <3>1. 0 \in U
      BY <2>2
    <3>2. \A n \in Nat : n \in U => n + 1 \in U
      BY <2>3, <2>4, <2>6
    <3> HIDE DEF U
    <3>3. \A n \in Nat : n \in U
      BY <3>1, <3>2, NatSet
    <3> QED
      BY <2>3, <3>3 DEF U
  <2> SUFFICES ASSUME self[N] # r PROVE FALSE
    BY <2>2
  <2>9. ASSUME NEW k \in 0..N PROVE self[k] # r
    <3> SUFFICES ASSUME self[k] = r PROVE FALSE
      OBVIOUS
    <3> DEFINE U == {n \in Nat : k + n <= N => self[k + n] = r}
    <3>1. 0 \in U
      BY <2>3
    <3>2. \A n \in Nat : n \in U => n + 1 \in U
      BY <2>3, <2>4, <2>5
    <3> HIDE DEF U
    <3>3. \A n \in Nat : n \in U
      BY <3>1, <3>2, NatSet
    <3>4. N - k \in Nat /\ k + (N - k) = N
      BY <2>3
    <3>5. N - k \in U
      BY <3>3, <3>4
    <3>6. self[N] = r
      BY <2>3, <3>4, <3>5 DEF U
    <3> QED
      BY <3>6
  <2>10. \E i, j \in 0..N : i # j /\ self[i] = self[j]
    <3>1. /\ IsFiniteSet(0..N) /\ Cardinality(0..N) = N + 1
          /\ IsFiniteSet(1..N) /\ Cardinality(1..N) = N
      BY <2>3, FS_Interval
    <3>2. Promises = 1..N
      BY DEF Promises, N
    <3>3. self \in [0..N -> 1..N]
      BY <3>2, Zenon
    <3>4. Cardinality(1..N) < Cardinality(0..N)
      BY <2>3, <3>1
    <3> QED
      BY <3>1, <3>3, <3>4, FS_PigeonHole, Zenon
  <2>11. PICK i, j \in 0..N : i < j /\ self[i] = self[j]
    BY <2>3, <2>10
  <2> DEFINE Ring == {self[k] : k \in i..(j - 1)}
             S == Promises \ Ring
  <2>12. r \in S
    BY <2>3, <2>9, <2>11
  <2>13. \A q \in Ring : F[q] \in Ring /\ q \in Promises
    <3> SUFFICES ASSUME NEW k \in i..(j - 1) PROVE F[self[k]] \in Ring /\ self[k] \in Promises
      OBVIOUS
    <3>1. k \in 0..N /\ k < N /\ k + 1 \in i..j
      BY <2>3, <2>11
    <3>2. F[self[k]] = self[k + 1] /\ self[k] \in Promises
      BY <2>2, <2>4, <3>1
    <3>3. CASE k + 1 = j
      BY <2>11, <3>2, <3>3
    <3>4. CASE k + 1 # j
      <4>1. k + 1 \in i..(j - 1)
        BY <2>3, <2>11, <3>1, <3>4
      <4> QED
        BY <3>2, <4>1
    <3> QED
      BY <3>3, <3>4
  <2>14. Closed(h, S \cap Promises)
    <3> SUFFICES ASSUME NEW q \in Ring, h.state[q] = "following", h.value[q][2] \in S PROVE FALSE
      BY DEF Closed
    <3>1. F[q] \in Ring /\ q \in Promises
      BY <2>13
    <3>2. F[q] = h.value[q][2]
      BY <3>1 DEF F, NextIn
    <3> QED
      BY <3>1, <3>2
  <2>15. self[i] \in Ring
    BY <2>3, <2>11
  <2> HIDE DEF S
  <2>16. Basin(h, r) \subseteq S
    BY <2>12, <2>14, BasinLeast
  <2>17. self[i] \in S
    BY <2>8, <2>11, <2>16
  <2> QED
    BY <2>15, <2>17 DEF S
<1> QED
  BY <1>1, <1>2

LEMMA RootBasin ==
  ASSUME NEW h, FollowsPromises(h), NEW p \in Promises, h.state[Root(h, p)] # "following"
  PROVE  p \in Basin(h, Root(h, p))
<1>1. CASE h.state[p] # "following"
  BY <1>1, RootIs, BasinStart
<1>2. CASE h.state[p] = "following"
  <2> DEFINE N == MaxPromises
             F == NextIn(h)
             r == Root(h, p)
  <2>1. PICK self \in [0..N -> Promises] :
          /\ self[0] = p /\ self[N] = r
          /\ \A n \in 1..N : self[n] = F[self[n - 1]]
    BY <1>2, ChainIs
  <2>2. N \in Nat /\ r \in Promises
    BY RootType, MaxPromisesAssumption
  <2>3. \A n \in 1..N : self[N - n + 1] = F[self[N - n]]
    <3> TAKE n \in 1..N
    <3>1. N - n + 1 \in 1..N /\ (N - n + 1) - 1 = N - n
      BY <2>2
    <3> QED
      BY <2>1, <3>1
  <2>4. \A q \in Promises : F[q] \in Basin(h, r) => q \in Basin(h, r)
    BY BasinClosed DEF Closed, NextIn
  <2>5. r \in Basin(h, r)
    BY <2>2, BasinStart
  <2> HIDE DEF F, N, r
  <2> DEFINE U == {n \in Nat : n \in 0..N => self[N - n] \in Basin(h, r)}
  <2>6. 0 \in U
    BY <2>1, <2>2, <2>5
  <2>7. ASSUME NEW n \in Nat, n \in U, n + 1 \in 0..N
        PROVE  self[N - (n + 1)] \in Basin(h, r)
    <3>1. /\ n \in 0..N /\ n + 1 \in 1..N /\ N - (n + 1) \in 0..N
          /\ N - (n + 1) + 1 = N - n
      BY <2>2, <2>7
    <3>2. F[self[N - (n + 1)]] \in Basin(h, r)
      BY <2>3, <2>7, <3>1
    <3> QED
      BY <2>1, <2>4, <3>1, <3>2
  <2>8. \A n \in Nat : n \in U => n + 1 \in U
    BY <2>7
  <2> HIDE DEF U
  <2>9. \A n \in Nat : n \in U
    BY <2>6, <2>8, NatSet
  <2>10. self[N - N] \in Basin(h, r)
    BY <2>2, <2>9 DEF U
  <2> QED
    BY <2>1, <2>2, <2>10 DEF r
<1> QED
  BY <1>1, <1>2

\* Promises follow one another in g as they do in h.
FollowAlike(h, g) ==
  \A p \in Promises : /\ (g.state[p] = "following" <=> h.state[p] = "following")
                      /\ (h.state[p] = "following" => g.value[p] = h.value[p])

LEMMA RootAlike ==
  ASSUME NEW h, NEW g, FollowAlike(h, g), NEW p \in Promises
  PROVE  Root(g, p) = Root(h, p)
<1>1. NextIn(g) = NextIn(h)
  BY DEF NextIn, FollowAlike
<1>2. g.state[p] = "following" <=> h.state[p] = "following"
  BY DEF FollowAlike
<1> QED
  BY <1>1, <1>2, RootIs

\* p, which did not, follows another promise from now on.
StartsToFollow(h, g, p) ==
  /\ h.state[p] # "following" /\ g.state[p] = "following"
  /\ \A q \in Promises \ {p} : g.state[q] = h.state[q] /\ g.value[q] = h.value[q]

\* A chain that did not end at p still ends where it did; one that did ends where
\* the chain of p does.
LEMMA RootFollows ==
  ASSUME NEW h, NEW g, NEW p \in Promises, FollowsPromises(h), FollowsPromises(g),
         StartsToFollow(h, g, p), NEW q \in Promises, h.state[Root(h, q)] # "following"
  PROVE  /\ Root(h, q) # p => Root(g, q) = Root(h, q)
         /\ Root(h, q) = p /\ g.state[Root(g, p)] # "following" => Root(g, q) = Root(g, p)
<1> DEFINE r == Root(h, q)
           t == Root(g, p)
<1>1. r \in Promises /\ t \in Promises /\ q \in Basin(h, r)
  BY RootType, RootBasin
<1>2. ASSUME r # p PROVE Root(g, q) = r
  <2>1. r \in Basin(g, r) /\ Closed(h, Basin(g, r) \cap Promises)
    BY <1>1, BasinStart, BasinClosed DEF Closed, StartsToFollow
  <2>2. q \in Basin(g, r)
    BY <1>1, <2>1, BasinLeast
  <2>3. g.state[r] # "following"
    BY <1>1, <1>2 DEF StartsToFollow
  <2> QED
    BY <1>1, <2>2, <2>3, BasinRoot
<1>3. ASSUME r = p, g.state[t] # "following" PROVE Root(g, q) = t
  <2>1. p \in Basin(g, t) /\ Closed(h, Basin(g, t) \cap Promises)
    BY <1>3, RootBasin, BasinClosed DEF Closed, StartsToFollow
  <2>2. q \in Basin(g, t)
    BY <1>1, <1>3, <2>1, BasinLeast
  <2> QED
    BY <1>1, <1>3, <2>2, BasinRoot
<1> QED
  BY <1>2, <1>3

-----------------------------------------------------------------------------
(* The invariant of the memory *)

State == {"pending", "following", "fulfilled", "rejected"}

\* The values, reasons and callbacks of a memory are of some set V.
MemoryOf(V) ==
  [made : Nat, state : [Promises -> State], value : [Promises -> V],
   deferreds : [Promises -> Seq(Promises)],
   handler : [Promises -> [of : Promises, onFulfilled : V, onRejected : V]],
   resolver : Seq([promise : Promises, done : BOOLEAN, holder : V]),
   gather : V, queue : Seq(Promises \X Promises), flush : V, thrown : V, hung : BOOLEAN,
   waiting : [Promises -> Seq(Promises)], answer : [Promises -> V]]

IsMemory(h) == \E V : h \in MemoryOf(V)

IsASettled(h, p) == h.state[p] \in {"fulfilled", "rejected"}

Of(h, d) == h.handler[d].of

IsWaiting(h, d) == \E i \in DOMAIN h.waiting[Of(h, d)] : h.waiting[Of(h, d)][i] = d

\* Promises have only been resolved with promises that were made; what is not
\* pending has handed over its deferreds.
StateInv(h) ==
  /\ h.made <= MaxPromises
  /\ \A p \in Promises :
       /\ IsPromise(h.value[p]) => h.value[p][2] \in 1..h.made
       /\ h.state[p] = "following" => IsPromise(h.value[p])
       /\ h.state[p] # "pending" => p <= h.made /\ h.deferreds[p] = <<>>

\* Handlers wait in the order of their numbers, once, with a promise that is pending.
WaitingInv(h) ==
  /\ \A p \in Promises : \A i \in DOMAIN h.waiting[p] :
       LET d == h.waiting[p][i]
       IN /\ d <= h.made /\ Of(h, d) = p
          /\ h.answer[d] = NoOutcome /\ h.state[d] = "pending"
          /\ \A j \in DOMAIN h.waiting[p] : i < j => d < h.waiting[p][j]
  /\ \A d \in Promises : d > h.made => h.answer[d] = NoOutcome

\* Handlers of one promise are in the order of their numbers.
InOrder(h, ds) ==
  \A i, j \in DOMAIN ds : i < j /\ Of(h, ds[i]) = Of(h, ds[j]) => ds[i] < ds[j]

\* The deferreds of a promise are handlers of the promises whose chain ends there.
DeferredInv(h) ==
  \A p \in Promises :
    /\ \A i \in DOMAIN h.deferreds[p] :
         IsWaiting(h, h.deferreds[p][i]) /\ Root(h, Of(h, h.deferreds[p][i])) = p
    /\ InOrder(h, h.deferreds[p])

Tasked(h) == [i \in DOMAIN h.queue |-> h.queue[i][2]]

\* So are the handlers in the queue, and their chain ends at a settled promise.
QueueInv(h) ==
  /\ \A i \in DOMAIN h.queue :
       /\ IsASettled(h, h.queue[i][1])
       /\ IsWaiting(h, h.queue[i][2]) /\ Root(h, Of(h, h.queue[i][2])) = h.queue[i][1]
  /\ InOrder(h, Tasked(h))

IsPlaced(h, d) ==
  \/ \E p \in Promises : \E i \in DOMAIN h.deferreds[p] : h.deferreds[p][i] = d
  \/ \E i \in DOMAIN h.queue : h.queue[i][2] = d

\* Unless the library is in its loop, no handler got lost.
PlacedInv(h) == ~h.hung => \A d \in Promises : IsWaiting(h, d) => IsPlaced(h, d)

\* Only one may still settle a promise: a pair of resolve and reject, or the
\* handler of its number.
OwnerInv(h) ==
  \A r \in DOMAIN h.resolver :
    LET p == h.resolver[r].promise
    IN /\ p <= h.made
       /\ ~h.resolver[r].done =>
            /\ h.state[p] = "pending" /\ ~IsWaiting(h, p)
            /\ \A k \in DOMAIN h.resolver \ {r} : h.resolver[k].promise = p => h.resolver[k].done

IsCallback(h, cb) ==
  \/ cb \in {None, Script} \/ cb[1] = "throw"
  \/ cb[1] \in {"gather", "resolve", "reject"} /\ cb[2] \in DOMAIN h.resolver

CallbackInv(h) ==
  \A d \in Promises : /\ IsCallback(h, h.handler[d].onFulfilled)
                      /\ IsCallback(h, h.handler[d].onRejected)

\* A flush was asked for, or goes on, while there are tasks.
FlushInv(h) == h.flush = "idle" => h.queue = <<>>

\* Every pair of resolve and reject has its record of what all gathers.
PairsInv(h) ==
  /\ Len(h.gather) = Len(h.resolver)
  /\ \E W : h.gather \in Seq(W)

\* All but that no handler got lost.
CoreInv(h) ==
  /\ IsMemory(h) /\ StateInv(h) /\ WaitingInv(h) /\ DeferredInv(h) /\ QueueInv(h)
  /\ OwnerInv(h) /\ CallbackInv(h) /\ FlushInv(h) /\ PairsInv(h)

MemoryInv(h) == CoreInv(h) /\ PlacedInv(h)

-----------------------------------------------------------------------------
(* The functions of the library, field by field *)

LEMMA FollowsMade ==
  ASSUME NEW h, IsMemory(h), StateInv(h)
  PROVE  FollowsPromises(h) /\ h.made \in Nat /\ 1..h.made \subseteq Promises
<1>1. h.made \in Nat
  BY DEF IsMemory, MemoryOf
<1> QED
  BY <1>1, MaxPromisesAssumption DEF StateInv, FollowsPromises, Promises

\* What scripts and handlers see is the same in both.
Alike(h, g) ==
  /\ g.made = h.made /\ g.state = h.state /\ g.value = h.value /\ g.handler = h.handler
  /\ g.resolver = h.resolver /\ g.waiting = h.waiting /\ g.answer = h.answer

LEMMA MemoryGrows ==
  ASSUME NEW V, NEW W, V \subseteq W
  PROVE  MemoryOf(V) \subseteq MemoryOf(W)
<1> SUFFICES ASSUME NEW h \in MemoryOf(V) PROVE h \in MemoryOf(W)
  OBVIOUS
<1> DEFINE H(X) == [of : Promises, onFulfilled : X, onRejected : X]
           R(X) == [promise : Promises, done : BOOLEAN, holder : X]
<1>1. H(V) \subseteq H(W) /\ R(V) \subseteq R(W)
  OBVIOUS
<1>2. h.handler \in [Promises -> H(V)] /\ h.resolver \in Seq(R(V))
  BY DEF MemoryOf
<1> HIDE DEF H, R
<1>3. h.handler \in [Promises -> H(W)] /\ h.resolver \in Seq(R(W))
  BY <1>1, <1>2
<1> QED
  BY <1>3 DEF MemoryOf, H, R

\* g is h after ds were handed over to r, the end of a chain.
HandedOver(h, g, r, ds) ==
  /\ h.state[r] = "following" =>
       g.hung = TRUE /\ g.deferreds = h.deferreds /\ g.queue = h.queue /\ g.flush = h.flush
  /\ h.state[r] = "pending" =>
       /\ g.deferreds = [h.deferreds EXCEPT ![r] = h.deferreds[r] \o ds]
       /\ g.hung = h.hung /\ g.queue = h.queue /\ g.flush = h.flush
  /\ IsASettled(h, r) =>
       /\ g.queue = h.queue \o [i \in DOMAIN ds |-> <<r, ds[i]>>] /\ g.flush # "idle"
       /\ g.hung = h.hung /\ g.deferreds = h.deferreds
  /\ g.gather = h.gather /\ (h.hung => g.hung)

LEMMA HandleAllIs ==
  ASSUME NEW h, IsMemory(h), NEW p, Root(h, p) \in Promises, NEW ds \in Seq(Promises)
  PROVE  LET g == HandleAll(h, p, ds)
         IN IsMemory(g) /\ Alike(h, g) /\ HandedOver(h, g, Root(h, p), ds)
<1> DEFINE g == HandleAll(h, p, ds)
           r == Root(h, p)
           tasks == [i \in DOMAIN ds |-> <<r, ds[i]>>]
<1>1. PICK V : h \in MemoryOf(V)
  BY DEF IsMemory
<1>2. h.state[r] \in State
  BY <1>1 DEF MemoryOf
<1>3. CASE h.state[r] = "following"
  <2>1. g = [h EXCEPT !.hung = TRUE]
    BY <1>3 DEF HandleAll
  <2>2. g \in MemoryOf(V)
    BY <1>1, <2>1 DEF MemoryOf
  <2> QED
    BY <1>1, <1>3, <2>1, <2>2 DEF MemoryOf, IsMemory, Alike, IsASettled, HandedOver
<1>4. CASE h.state[r] = "pending"
  <2> DEFINE D == [h.deferreds EXCEPT ![r] = h.deferreds[r] \o ds]
  <2>1. g = [h EXCEPT !.deferreds = D]
    BY <1>4 DEF HandleAll
  <2>2. D \in [Promises -> Seq(Promises)]
    <3>1. h.deferreds \in [Promises -> Seq(Promises)]
      BY <1>1 DEF MemoryOf
    <3>2. h.deferreds[r] \o ds \in Seq(Promises)
      BY <3>1
    <3> QED
      BY <3>1, <3>2
  <2> HIDE DEF D, g
  <2>3. g \in MemoryOf(V)
    BY <1>1, <2>1, <2>2 DEF MemoryOf
  <2>4. /\ Alike(h, g) /\ g.deferreds = D /\ g.hung = h.hung /\ g.queue = h.queue
        /\ g.flush = h.flush /\ g.gather = h.gather
    BY <1>1, <2>1 DEF MemoryOf, Alike
  <2> QED
    BY <1>4, <2>3, <2>4 DEF IsMemory, IsASettled, HandedOver, g, D
<1>5. CASE IsASettled(h, r)
  <2>1. tasks \in Seq(Promises \X Promises)
    <3>1. DOMAIN ds = 1..Len(ds) /\ Len(ds) \in Nat
      OBVIOUS
    <3> QED
      BY <3>1
  <2> DEFINE f == IF h.flush = "idle" THEN "requested" ELSE h.flush
             q == h.queue \o tasks
  <2>2. q \in Seq(Promises \X Promises) /\ f # "idle"
    BY <1>1, <2>1 DEF MemoryOf
  <2>3. g = [h EXCEPT !.queue = q, !.flush = f]
    BY <1>5 DEF HandleAll, Asap, IsASettled
  <2> HIDE DEF f, q, tasks, g
  <2>4. g \in MemoryOf(V \cup {f})
    <3>1. h \in MemoryOf(V \cup {f})
      BY <1>1, MemoryGrows
    <3> QED
      BY <2>2, <2>3, <3>1 DEF MemoryOf
  <2>5. /\ Alike(h, g) /\ g.queue = q /\ g.hung = h.hung /\ g.deferreds = h.deferreds
        /\ g.flush = f /\ g.gather = h.gather
    BY <1>1, <2>3 DEF MemoryOf, Alike
  <2> QED
    BY <1>5, <2>2, <2>4, <2>5 DEF IsMemory, IsASettled, HandedOver, g, q, tasks
<1> QED
  BY <1>2, <1>3, <1>4, <1>5 DEF State, IsASettled

-----------------------------------------------------------------------------
(* handle and finale *)

LEMMA ConcatIs ==
  ASSUME NEW S, NEW s \in Seq(S), NEW t \in Seq(S)
  PROVE  /\ s \o t \in Seq(S) /\ Len(s \o t) = Len(s) + Len(t)
         /\ DOMAIN (s \o t) = 1..(Len(s) + Len(t))
         /\ \A i \in 1..(Len(s) + Len(t)) :
              (s \o t)[i] = IF i <= Len(s) THEN s[i] ELSE t[i - Len(s)]
<1>1. /\ s \o t \in Seq(S) /\ Len(s \o t) = Len(s) + Len(t)
      /\ \A i \in 1..(Len(s) + Len(t)) :
           (s \o t)[i] = IF i <= Len(s) THEN s[i] ELSE t[i - Len(s)]
  BY ConcatProperties
<1> QED
  BY <1>1, LenProperties

LEMMA Concat ==
  ASSUME NEW S, NEW s \in Seq(S), NEW t \in Seq(S)
  PROVE  /\ s \o t \in Seq(S)
         /\ \A i \in DOMAIN s : i \in DOMAIN (s \o t) /\ (s \o t)[i] = s[i]
         /\ \A i \in DOMAIN t : Len(s) + i \in DOMAIN (s \o t) /\ (s \o t)[Len(s) + i] = t[i]
         /\ \A k \in DOMAIN (s \o t) :
              \/ k \in DOMAIN s /\ (s \o t)[k] = s[k]
              \/ k > Len(s) /\ k - Len(s) \in DOMAIN t /\ (s \o t)[k] = t[k - Len(s)]
<1>1. /\ s \o t \in Seq(S) /\ DOMAIN (s \o t) = 1..(Len(s) + Len(t))
      /\ \A i \in 1..(Len(s) + Len(t)) :
           (s \o t)[i] = IF i <= Len(s) THEN s[i] ELSE t[i - Len(s)]
  BY ConcatIs
<1>2. /\ Len(s) \in Nat /\ Len(t) \in Nat /\ DOMAIN s = 1..Len(s) /\ DOMAIN t = 1..Len(t)
  BY LenProperties
<1> DEFINE u == s \o t
<1>3. \A i \in 1..(Len(s) + Len(t)) : u[i] = IF i <= Len(s) THEN s[i] ELSE t[i - Len(s)]
  BY <1>1
<1>4. u \in Seq(S) /\ DOMAIN u = 1..(Len(s) + Len(t))
  BY <1>1
<1> HIDE DEF u
<1> SUFFICES /\ \A i \in DOMAIN s : i \in DOMAIN u /\ u[i] = s[i]
             /\ \A i \in DOMAIN t : Len(s) + i \in DOMAIN u /\ u[Len(s) + i] = t[i]
             /\ \A k \in DOMAIN u :
                  \/ k \in DOMAIN s /\ u[k] = s[k]
                  \/ k > Len(s) /\ k - Len(s) \in DOMAIN t /\ u[k] = t[k - Len(s)]
  BY <1>4 DEF u
<1>5. \A i \in DOMAIN s : i \in DOMAIN u /\ u[i] = s[i]
  BY <1>2, <1>3, <1>4
<1>6. ASSUME NEW i \in DOMAIN t PROVE Len(s) + i \in DOMAIN u /\ u[Len(s) + i] = t[i]
  <2>1. /\ Len(s) + i \in 1..(Len(s) + Len(t)) /\ ~(Len(s) + i <= Len(s))
        /\ (Len(s) + i) - Len(s) = i
    BY <1>2
  <2> QED
    BY <1>3, <1>4, <2>1
<1>7. ASSUME NEW k \in DOMAIN u
      PROVE  \/ k \in DOMAIN s /\ u[k] = s[k]
             \/ k > Len(s) /\ k - Len(s) \in DOMAIN t /\ u[k] = t[k - Len(s)]
  BY <1>2, <1>3, <1>4
<1> QED
  BY <1>5, <1>6, <1>7

LEMMA ConcatInOrder ==
  ASSUME NEW h, NEW s \in Seq(Promises), NEW t \in Seq(Promises), InOrder(h, s), InOrder(h, t),
         \A i \in DOMAIN s, j \in DOMAIN t : Of(h, s[i]) = Of(h, t[j]) => s[i] < t[j]
  PROVE  InOrder(h, s \o t)
<1> DEFINE u == s \o t
<1> SUFFICES ASSUME NEW i \in DOMAIN u, NEW j \in DOMAIN u, i < j, Of(h, u[i]) = Of(h, u[j])
             PROVE  u[i] < u[j]
  BY DEF InOrder
<1>1. \A k \in DOMAIN u :
        \/ k \in DOMAIN s /\ u[k] = s[k]
        \/ k > Len(s) /\ k - Len(s) \in DOMAIN t /\ u[k] = t[k - Len(s)]
  BY Concat
<1>2. /\ Len(s) \in Nat /\ DOMAIN s = 1..Len(s) /\ DOMAIN t = 1..Len(t) /\ Len(t) \in Nat
      /\ DOMAIN u \subseteq Int
  BY Concat, LenProperties
<1> HIDE DEF u
<1>3. CASE i \in DOMAIN s /\ u[i] = s[i] /\ j \in DOMAIN s /\ u[j] = s[j]
  BY <1>3 DEF InOrder
<1>4. CASE /\ i > Len(s) /\ i - Len(s) \in DOMAIN t /\ u[i] = t[i - Len(s)]
           /\ j > Len(s) /\ j - Len(s) \in DOMAIN t /\ u[j] = t[j - Len(s)]
  <2>1. i - Len(s) < j - Len(s)
    BY <1>2
  <2> QED
    BY <1>4, <2>1 DEF InOrder
<1>5. CASE /\ i \in DOMAIN s /\ u[i] = s[i]
           /\ j > Len(s) /\ j - Len(s) \in DOMAIN t /\ u[j] = t[j - Len(s)]
  BY <1>5
<1>6. ~(i > Len(s) /\ j \in DOMAIN s)
  BY <1>2
<1> QED
  BY <1>1, <1>3, <1>4, <1>5, <1>6

\* What does not concern the deferreds, the queue and the loop is kept.
LEMMA AlikeInv ==
  ASSUME NEW h, NEW g, Alike(h, g), IsMemory(h), StateInv(h),
         \A p \in Promises : h.state[p] # "pending" => g.deferreds[p] = <<>>
  PROVE  /\ StateInv(g)
         /\ WaitingInv(h) => WaitingInv(g)
         /\ OwnerInv(h) => OwnerInv(g)
         /\ CallbackInv(h) => CallbackInv(g)
         /\ \A d : IsWaiting(g, d) <=> IsWaiting(h, d)
         /\ \A d : Of(g, d) = Of(h, d)
         /\ \A p \in Promises : Root(g, p) = Root(h, p)
         /\ \A ds : InOrder(g, ds) <=> InOrder(h, ds)
         /\ \A p : IsASettled(g, p) <=> IsASettled(h, p)
<1>1. \A d : Of(g, d) = Of(h, d)
  BY DEF Alike, Of
<1>2. \A d : IsWaiting(g, d) <=> IsWaiting(h, d)
  BY <1>1 DEF Alike, IsWaiting
<1>3. \A p \in Promises : Root(g, p) = Root(h, p)
  BY RootAlike DEF Alike, FollowAlike
<1>4. StateInv(g)
  BY DEF Alike, StateInv
<1>5. WaitingInv(h) => WaitingInv(g)
  BY <1>1 DEF Alike, WaitingInv
<1>6. OwnerInv(h) => OwnerInv(g)
  BY <1>2 DEF Alike, OwnerInv
<1>7. CallbackInv(h) => CallbackInv(g)
  BY DEF Alike, CallbackInv, IsCallback
<1>8. \A ds : InOrder(g, ds) <=> InOrder(h, ds)
  BY <1>1 DEF InOrder
<1>9. \A p : IsASettled(g, p) <=> IsASettled(h, p)
  BY DEF IsASettled, Alike
<1> QED
  BY <1>1, <1>2, <1>3, <1>4, <1>5, <1>6, <1>7, <1>8, <1>9

\* Handlers that are handed over to where p ends: the only ones that are in no
\* place, and younger than those of the same promise that are in one.
Loose(h, p, ds) ==
  /\ \A i \in DOMAIN ds :
       /\ IsWaiting(h, ds[i])
       /\ h.state[Root(h, p)] # "following" => Root(h, Of(h, ds[i])) = Root(h, p)
       /\ \A e \in Promises : IsPlaced(h, e) /\ Of(h, e) = Of(h, ds[i]) => e < ds[i]
  /\ InOrder(h, ds)
  /\ ~h.hung => \A d \in Promises :
                  IsWaiting(h, d) => IsPlaced(h, d) \/ \E i \in DOMAIN ds : ds[i] = d

LEMMA HandleAllInv ==
  ASSUME NEW h, CoreInv(h), NEW p \in Promises, NEW ds \in Seq(Promises), Loose(h, p, ds)
  PROVE  MemoryInv(HandleAll(h, p, ds))
<1> DEFINE g == HandleAll(h, p, ds)
           r == Root(h, p)
<1>1. IsMemory(h) /\ StateInv(h) /\ FollowsPromises(h) /\ r \in Promises
  BY FollowsMade, RootType DEF CoreInv
<1>2. IsMemory(g) /\ Alike(h, g) /\ HandedOver(h, g, r, ds)
  BY <1>1, HandleAllIs
<1>3. PICK V : h \in MemoryOf(V)
  BY <1>1 DEF IsMemory
<1>4. /\ h.state[r] \in State /\ h.queue \in Seq(Promises \X Promises)
      /\ h.deferreds \in [Promises -> Seq(Promises)]
      /\ \A d \in Promises : Of(h, d) \in Promises
      /\ \A d \in Promises : h.waiting[Of(h, d)] \in Seq(Promises)
  BY <1>1, <1>3 DEF MemoryOf, Of
<1>5. \A q \in Promises : h.state[q] # "pending" => g.deferreds[q] = <<>>
  BY <1>1, <1>2, <1>4 DEF StateInv, State, IsASettled, HandedOver
<1>6. /\ StateInv(g) /\ WaitingInv(g) /\ OwnerInv(g) /\ CallbackInv(g)
      /\ \A d : IsWaiting(g, d) <=> IsWaiting(h, d)
      /\ \A d : Of(g, d) = Of(h, d)
      /\ \A q \in Promises : Root(g, q) = Root(h, q)
      /\ \A es : InOrder(g, es) <=> InOrder(h, es)
      /\ \A q : IsASettled(g, q) <=> IsASettled(h, q)
  BY <1>1, <1>2, <1>5, AlikeInv DEF CoreInv
<1>7. \A i \in DOMAIN ds : ds[i] \in Promises
  OBVIOUS
<1> HIDE DEF g, r
<1>8. DeferredInv(g)
  <2>1. CASE h.state[r] # "pending"
    <3>1. g.deferreds = h.deferreds
      BY <1>2, <1>4, <2>1 DEF State, IsASettled, HandedOver
    <3> QED
      BY <1>4, <1>6, <3>1 DEF DeferredInv, CoreInv
  <2>2. CASE h.state[r] = "pending"
    <3> DEFINE s == h.deferreds[r]
    <3>1. ASSUME NEW q \in Promises, q # r
          PROVE  /\ \A i \in DOMAIN g.deferreds[q] :
                      /\ IsWaiting(g, g.deferreds[q][i])
                      /\ Root(g, Of(g, g.deferreds[q][i])) = q
                 /\ InOrder(g, g.deferreds[q])
      <4>1. g.deferreds[q] = h.deferreds[q] /\ h.deferreds[q] \in Seq(Promises)
        BY <1>2, <1>4, <2>2, <3>1 DEF HandedOver
      <4> QED
        BY <1>4, <1>6, <4>1 DEF DeferredInv, CoreInv
    <3>2. g.deferreds[r] = s \o ds /\ s \in Seq(Promises)
      BY <1>1, <1>2, <1>4, <2>2 DEF HandedOver
    <3>3. /\ \A i \in DOMAIN s : IsWaiting(h, s[i]) /\ Root(h, Of(h, s[i])) = r
          /\ InOrder(h, s)
      BY <1>1 DEF CoreInv, DeferredInv
    <3>4. /\ \A i \in DOMAIN ds : IsWaiting(h, ds[i]) /\ Root(h, Of(h, ds[i])) = r
          /\ InOrder(h, ds)
      BY <2>2 DEF Loose, r
    <3>5. \A i \in DOMAIN s, j \in DOMAIN ds : Of(h, s[i]) = Of(h, ds[j]) => s[i] < ds[j]
      <4>1. \A i \in DOMAIN s : s[i] \in Promises /\ IsPlaced(h, s[i])
        BY <1>1, <3>2 DEF IsPlaced
      <4> QED
        BY <4>1 DEF Loose
    <3> HIDE DEF s
    <3>6. InOrder(g, s \o ds)
      BY <1>6, <3>2, <3>3, <3>4, <3>5, ConcatInOrder
    <3>7. ASSUME NEW k \in DOMAIN (s \o ds)
          PROVE  IsWaiting(g, (s \o ds)[k]) /\ Root(g, Of(g, (s \o ds)[k])) = r
      <4>1. /\ IsWaiting(h, (s \o ds)[k]) /\ Root(h, Of(h, (s \o ds)[k])) = r
            /\ (s \o ds)[k] \in Promises
        BY <3>2, <3>3, <3>4, Concat
      <4> QED
        BY <1>4, <1>6, <4>1
    <3> QED
      BY <3>1, <3>2, <3>6, <3>7 DEF DeferredInv
  <2> QED
    BY <2>1, <2>2
<1>9. QueueInv(g)
  <2>1. CASE ~IsASettled(h, r)
    <3>1. g.queue = h.queue
      BY <1>2, <1>4, <2>1 DEF State, IsASettled, HandedOver
    <3>2. \A i \in DOMAIN h.queue : h.queue[i][2] \in Promises
      BY <1>4
    <3>3. Tasked(g) = Tasked(h)
      BY <3>1 DEF Tasked
    <3> QED
      BY <1>4, <1>6, <3>1, <3>2, <3>3 DEF QueueInv, CoreInv
  <2>2. CASE IsASettled(h, r)
    <3> DEFINE s == h.queue
               t == [i \in DOMAIN ds |-> <<r, ds[i]>>]
    <3>1. g.queue = s \o t /\ s \in Seq(Promises \X Promises)
      BY <1>2, <1>4, <2>2 DEF HandedOver
    <3>2. t \in Seq(Promises \X Promises) /\ DOMAIN t = DOMAIN ds
      <4>1. DOMAIN ds = 1..Len(ds) /\ Len(ds) \in Nat
        OBVIOUS
      <4> QED
        BY <1>1, <4>1
    <3>3. \A i \in DOMAIN t : t[i] = <<r, ds[i]>>
      OBVIOUS
    <3>4. /\ \A i \in DOMAIN s : /\ IsASettled(h, s[i][1]) /\ IsWaiting(h, s[i][2])
                                 /\ Root(h, Of(h, s[i][2])) = s[i][1]
          /\ InOrder(h, Tasked(h))
      BY DEF CoreInv, QueueInv
    <3>5. /\ \A i \in DOMAIN ds : IsWaiting(h, ds[i]) /\ Root(h, Of(h, ds[i])) = r
          /\ InOrder(h, ds)
      BY <2>2 DEF Loose, r, IsASettled
    <3>6. /\ Tasked(h) \in Seq(Promises) /\ DOMAIN Tasked(h) = DOMAIN s
          /\ \A i \in DOMAIN s : Tasked(h)[i] = s[i][2]
      <4>1. DOMAIN s = 1..Len(s) /\ Len(s) \in Nat
        BY <3>1
      <4>2. Tasked(h) = [i \in 1..Len(s) |-> s[i][2]]
        BY <4>1 DEF Tasked
      <4>3. \A i \in 1..Len(s) : s[i][2] \in Promises
        BY <3>1, <4>1
      <4> QED
        BY <4>1, <4>2, <4>3
    <3>7. \A i \in DOMAIN Tasked(h), j \in DOMAIN ds :
            Of(h, Tasked(h)[i]) = Of(h, ds[j]) => Tasked(h)[i] < ds[j]
      <4>1. \A i \in DOMAIN s : IsPlaced(h, s[i][2]) /\ s[i][2] \in Promises
        BY <3>1 DEF IsPlaced
      <4> QED
        BY <3>6, <4>1 DEF Loose
    <3> HIDE DEF s, t
    <3>8. InOrder(h, Tasked(h) \o ds)
      BY <3>4, <3>5, <3>6, <3>7, ConcatInOrder
    <3>9. ASSUME NEW k \in DOMAIN (s \o t)
          PROVE  /\ IsASettled(g, (s \o t)[k][1]) /\ IsWaiting(g, (s \o t)[k][2])
                 /\ Root(g, Of(g, (s \o t)[k][2])) = (s \o t)[k][1]
      <4>1. (s \o t)[k] \in Promises \X Promises
        BY <3>1, <3>2, Concat
      <4>2. \/ k \in DOMAIN s /\ (s \o t)[k] = s[k]
            \/ k - Len(s) \in DOMAIN t /\ (s \o t)[k] = t[k - Len(s)]
        BY <3>1, <3>2, Concat
      <4>3. /\ IsASettled(h, (s \o t)[k][1]) /\ IsWaiting(h, (s \o t)[k][2])
            /\ Root(h, Of(h, (s \o t)[k][2])) = (s \o t)[k][1]
        <5>1. CASE k \in DOMAIN s /\ (s \o t)[k] = s[k]
          BY <3>4, <5>1
        <5>2. CASE k - Len(s) \in DOMAIN t /\ (s \o t)[k] = t[k - Len(s)]
          <6>1. (s \o t)[k] = <<r, ds[k - Len(s)]>>
            BY <3>3, <5>2
          <6> QED
            BY <2>2, <3>2, <3>5, <5>2, <6>1
        <5> QED
          BY <4>2, <5>1, <5>2
      <4> QED
        BY <1>4, <1>6, <4>1, <4>3
    <3>10. Tasked(g) = Tasked(h) \o ds
      <4> DEFINE u == s \o t
                 w == Tasked(h) \o ds
      <4>1. /\ Len(s) \in Nat /\ Len(t) = Len(ds) /\ Len(Tasked(h)) = Len(s) /\ Len(ds) \in Nat
            /\ DOMAIN s = 1..Len(s) /\ DOMAIN t = 1..Len(ds)
        BY <3>1, <3>2, <3>6
      <4>2. /\ DOMAIN u = 1..(Len(s) + Len(t))
            /\ \A k \in 1..(Len(s) + Len(t)) : u[k] = IF k <= Len(s) THEN s[k] ELSE t[k - Len(s)]
        BY <3>1, <3>2, ConcatIs, ZenonT(60)
      <4>3. /\ w \in Seq(Promises) /\ DOMAIN w = 1..(Len(Tasked(h)) + Len(ds))
            /\ \A k \in 1..(Len(Tasked(h)) + Len(ds)) :
                 w[k] = IF k <= Len(Tasked(h)) THEN Tasked(h)[k] ELSE ds[k - Len(Tasked(h))]
        BY <3>6, ConcatIs, ZenonT(60)
      <4> HIDE DEF u, w
      <4>4. ASSUME NEW k \in DOMAIN u PROVE u[k][2] = w[k]
        <5>1. k \in 1..(Len(s) + Len(ds)) /\ k \in DOMAIN w
          BY <4>1, <4>2, <4>3
        <5>2. CASE k <= Len(s)
          <6>1. u[k] = s[k] /\ w[k] = Tasked(h)[k] /\ k \in DOMAIN s
            BY <4>1, <4>2, <4>3, <5>1, <5>2
          <6> QED
            BY <3>6, <6>1
        <5>3. CASE ~(k <= Len(s))
          <6>1. u[k] = t[k - Len(s)] /\ w[k] = ds[k - Len(s)] /\ k - Len(s) \in DOMAIN t
            BY <4>1, <4>2, <4>3, <5>1, <5>3
          <6> QED
            BY <3>3, <6>1
        <5> QED
          BY <5>2, <5>3
      <4>5. Tasked(g) = [k \in DOMAIN u |-> u[k][2]]
        BY <3>1 DEF Tasked, u
      <4>6. w = [k \in DOMAIN u |-> w[k]]
        <5>1. DOMAIN w = DOMAIN u
          BY <4>1, <4>2, <4>3
        <5>2. w = [k \in DOMAIN w |-> w[k]]
          BY <4>3
        <5> QED
          BY <5>1, <5>2, Zenon
      <4> QED
        BY <4>4, <4>5, <4>6 DEF w
    <3> QED
      BY <1>6, <3>1, <3>8, <3>9, <3>10 DEF QueueInv
  <2> QED
    BY <2>1, <2>2
<1>10. PlacedInv(g)
  <2> SUFFICES ASSUME ~g.hung, NEW d \in Promises, IsWaiting(g, d) PROVE IsPlaced(g, d)
    BY DEF PlacedInv
  <2>1. h.state[r] # "following" /\ g.hung = h.hung /\ IsWaiting(h, d)
    BY <1>2, <1>4, <1>6 DEF HandedOver, State, IsASettled
  <2>2. IsPlaced(h, d) \/ \E i \in DOMAIN ds : ds[i] = d
    BY <2>1 DEF Loose
  <2>3. CASE h.state[r] = "pending"
    <3> DEFINE s == h.deferreds[r]
    <3>1. /\ g.deferreds[r] = s \o ds /\ s \in Seq(Promises) /\ g.queue = h.queue
          /\ \A q \in Promises \ {r} : g.deferreds[q] = h.deferreds[q]
      BY <1>1, <1>2, <1>4, <2>3 DEF HandedOver
    <3> HIDE DEF s
    <3>2. /\ \A i \in DOMAIN s : i \in DOMAIN (s \o ds) /\ (s \o ds)[i] = s[i]
          /\ \A i \in DOMAIN ds :
               Len(s) + i \in DOMAIN (s \o ds) /\ (s \o ds)[Len(s) + i] = ds[i]
      BY <3>1, Concat
    <3>3. ASSUME NEW i \in DOMAIN ds, ds[i] = d PROVE IsPlaced(g, d)
      <4>1. Len(s) + i \in DOMAIN g.deferreds[r] /\ g.deferreds[r][Len(s) + i] = d
        BY <3>1, <3>2, <3>3
      <4> QED
        BY <1>1, <4>1 DEF IsPlaced
    <3>4. ASSUME NEW q \in Promises, NEW i \in DOMAIN h.deferreds[q], h.deferreds[q][i] = d
          PROVE  IsPlaced(g, d)
      <4>1. CASE q = r
        BY <1>1, <3>1, <3>2, <3>4, <4>1 DEF IsPlaced, s
      <4>2. CASE q # r
        BY <3>1, <3>4, <4>2 DEF IsPlaced
      <4> QED
        BY <4>1, <4>2
    <3>5. ASSUME NEW i \in DOMAIN h.queue, h.queue[i][2] = d PROVE IsPlaced(g, d)
      BY <3>1, <3>5 DEF IsPlaced
    <3> QED
      BY <2>2, <3>3, <3>4, <3>5 DEF IsPlaced
  <2>4. CASE IsASettled(h, r)
    <3> DEFINE s == h.queue
               t == [i \in DOMAIN ds |-> <<r, ds[i]>>]
    <3>1. g.queue = s \o t /\ s \in Seq(Promises \X Promises) /\ g.deferreds = h.deferreds
      BY <1>2, <1>4, <2>4 DEF HandedOver
    <3>2. t \in Seq(Promises \X Promises) /\ DOMAIN t = DOMAIN ds
      <4>1. DOMAIN ds = 1..Len(ds) /\ Len(ds) \in Nat
        OBVIOUS
      <4> QED
        BY <1>1, <4>1
    <3>3. \A i \in DOMAIN ds : t[i][2] = ds[i]
      OBVIOUS
    <3> HIDE DEF s, t
    <3>4. /\ \A i \in DOMAIN s : i \in DOMAIN (s \o t) /\ (s \o t)[i] = s[i]
          /\ \A i \in DOMAIN t : Len(s) + i \in DOMAIN (s \o t) /\ (s \o t)[Len(s) + i] = t[i]
      BY <3>1, <3>2, Concat
    <3>5. ASSUME NEW i \in DOMAIN ds, ds[i] = d PROVE IsPlaced(g, d)
      <4>1. Len(s) + i \in DOMAIN g.queue /\ g.queue[Len(s) + i] = t[i]
        BY <3>1, <3>2, <3>4
      <4> QED
        BY <3>3, <3>5, <4>1 DEF IsPlaced
    <3>6. ASSUME NEW i \in DOMAIN h.queue, h.queue[i][2] = d PROVE IsPlaced(g, d)
      <4>1. i \in DOMAIN g.queue /\ g.queue[i] = h.queue[i]
        BY <3>1, <3>4 DEF s
      <4> QED
        BY <3>6, <4>1 DEF IsPlaced
    <3> QED
      BY <2>2, <3>1, <3>5, <3>6 DEF IsPlaced
  <2> QED
    BY <1>4, <2>1, <2>3, <2>4 DEF State, IsASettled
<1>11. FlushInv(g)
  BY <1>1, <1>2, <1>4 DEF CoreInv, FlushInv, HandedOver, State, IsASettled
<1>12. PairsInv(g)
  BY <1>2 DEF CoreInv, PairsInv, HandedOver, Alike
<1> QED
  BY <1>2, <1>6, <1>8, <1>9, <1>10, <1>11, <1>12 DEF MemoryInv, CoreInv, g

-----------------------------------------------------------------------------
(* Settling a promise *)

LEMMA Fields ==
  ASSUME NEW h, IsMemory(h)
  PROVE  /\ h.made \in Nat /\ h.hung \in BOOLEAN
         /\ h.state \in [Promises -> State] /\ DOMAIN h.value = Promises
         /\ h.deferreds \in [Promises -> Seq(Promises)]
         /\ h.queue \in Seq(Promises \X Promises)
         /\ h.waiting \in [Promises -> Seq(Promises)] /\ DOMAIN h.answer = Promises
         /\ Len(h.resolver) \in Nat /\ DOMAIN h.resolver = 1..Len(h.resolver)
         /\ \A r \in DOMAIN h.resolver :
              h.resolver[r].promise \in Promises /\ h.resolver[r].done \in BOOLEAN
         /\ \A d \in Promises : Of(h, d) \in Promises
<1>1. PICK V : h \in MemoryOf(V)
  BY DEF IsMemory
<1> DEFINE R == [promise : Promises, done : BOOLEAN, holder : V]
<1>2. h.resolver \in Seq(R)
  BY <1>1 DEF MemoryOf
<1>3. \A x \in R : x.promise \in Promises /\ x.done \in BOOLEAN
  OBVIOUS
<1> HIDE DEF R
<1>4. /\ Len(h.resolver) \in Nat /\ DOMAIN h.resolver = 1..Len(h.resolver)
      /\ \A r \in DOMAIN h.resolver : h.resolver[r] \in R
  BY <1>2
<1> QED
  BY <1>1, <1>3, <1>4 DEF MemoryOf, Of

\* A promise that whoever calls resolve or reject, or calls its handler, may settle.
Free(h, p) ==
  /\ p \in 1..h.made /\ h.state[p] = "pending" /\ ~IsWaiting(h, p)
  /\ \A r \in DOMAIN h.resolver : h.resolver[r].promise = p => h.resolver[r].done

\* h goes on to g: outcomes are kept, and handlers added behind those that wait.
Extends(h, g) ==
  /\ h.made <= g.made /\ Len(h.resolver) <= Len(g.resolver) /\ (h.hung => g.hung)
  /\ \A p \in Promises :
       /\ h.state[p] = "following" => g.state[p] = "following" /\ g.value[p] = h.value[p]
       /\ IsWaiting(h, p) => IsWaiting(g, p) /\ g.handler[p] = h.handler[p]
       /\ OutcomeOf(h, p) # NoOutcome => OutcomeOf(g, p) = OutcomeOf(h, p)
       /\ Len(h.waiting[p]) <= Len(g.waiting[p])
       /\ \A i \in DOMAIN h.waiting[p] : g.waiting[p][i] = h.waiting[p][i]
  /\ g.answer = h.answer

Spares(h, g, p) == \A q \in Promises \ {p} : Free(h, q) => Free(g, q)

\* g is h with p settled, or following another, and its deferreds taken out.
IsSettled(h, g, p, s, x) ==
  /\ g.made = h.made /\ g.handler = h.handler /\ g.resolver = h.resolver
  /\ g.gather = h.gather /\ g.flush = h.flush
  /\ g.waiting = h.waiting /\ g.answer = h.answer /\ g.queue = h.queue /\ g.hung = h.hung
  /\ g.state[p] = s /\ g.value[p] = x /\ g.deferreds[p] = <<>>
  /\ \A q \in Promises \ {p} :
       g.state[q] = h.state[q] /\ g.value[q] = h.value[q] /\ g.deferreds[q] = h.deferreds[q]

\* What a promise may be settled with.
CanSettle(h, s, x) ==
  /\ s \in {"following", "fulfilled", "rejected"}
  /\ IsPromise(x) => x[2] \in 1..h.made
  /\ s = "following" => IsPromise(x)

\* Chains that did not end at p end where they did, the others where the chain of p does.
LEMMA SettledRoots ==
  ASSUME NEW h, CoreInv(h), NEW p, Free(h, p), NEW s, NEW x, CanSettle(h, s, x),
         NEW g, IsSettled(h, g, p, s, x), NEW q \in Promises, h.state[Root(h, q)] # "following"
  PROVE  /\ Root(h, q) # p => Root(g, q) = Root(h, q)
         /\ Root(h, q) = p /\ g.state[Root(g, p)] # "following" => Root(g, q) = Root(g, p)
<1>1. FollowsPromises(h) /\ p \in Promises /\ h.state[p] = "pending"
  BY FollowsMade DEF CoreInv, Free
<1>2. CASE s = "following"
  <2>1. StartsToFollow(h, g, p)
    BY <1>1, <1>2 DEF StartsToFollow, IsSettled
  <2>2. FollowsPromises(g)
    <3>1. x[2] \in Promises
      BY <1>2, FollowsMade DEF CoreInv, CanSettle
    <3> QED
      BY <1>1, <3>1 DEF FollowsPromises, IsSettled
  <2> QED
    BY <1>1, <2>1, <2>2, RootFollows
<1>3. CASE s # "following"
  <2>1. FollowAlike(h, g)
    BY <1>1, <1>3 DEF FollowAlike, IsSettled
  <2>2. Root(g, q) = Root(h, q)
    BY <2>1, RootAlike
  <2>3. Root(g, p) = p
    BY <1>3, RootIs DEF IsSettled
  <2> QED
    BY <2>2, <2>3
<1> QED
  BY <1>2, <1>3

LEMMA SettledInv ==
  ASSUME NEW h, MemoryInv(h), NEW p, Free(h, p), NEW s, NEW x, CanSettle(h, s, x),
         NEW g, IsMemory(g), IsSettled(h, g, p, s, x)
  PROVE  CoreInv(g) /\ Loose(g, p, h.deferreds[p]) /\ Extends(h, g) /\ Spares(h, g, p)
<1>1. /\ CoreInv(h) /\ IsMemory(h) /\ StateInv(h) /\ WaitingInv(h) /\ DeferredInv(h)
      /\ QueueInv(h) /\ OwnerInv(h) /\ CallbackInv(h) /\ PlacedInv(h) /\ FlushInv(h)
  BY DEF MemoryInv, CoreInv
<1>2. p \in Promises /\ h.state[p] = "pending" /\ p <= h.made /\ ~IsWaiting(h, p) /\ h.made \in Nat
  BY <1>1, FollowsMade DEF Free
<1>3. /\ h.state \in [Promises -> State]
      /\ h.deferreds \in [Promises -> Seq(Promises)]
      /\ h.queue \in Seq(Promises \X Promises)
      /\ h.waiting \in [Promises -> Seq(Promises)]
      /\ \A d \in Promises : Of(h, d) \in Promises
      /\ \A r \in DOMAIN h.resolver : h.resolver[r].promise \in Promises
  BY <1>1, Fields
<1>4. (\A d : IsWaiting(g, d) <=> IsWaiting(h, d)) /\ \A d : Of(g, d) = Of(h, d)
  BY DEF IsSettled, IsWaiting, Of
<1>5. \A q \in Promises : h.state[Root(h, q)] # "following" /\ Root(h, q) # p => Root(g, q) = Root(h, q)
  BY <1>1, SettledRoots
<1>6. \A es : InOrder(g, es) <=> InOrder(h, es)
  BY <1>4 DEF InOrder
<1>7. \A q \in Promises : \A i \in DOMAIN h.deferreds[q] :
        /\ h.deferreds[q][i] \in Promises /\ h.state[q] = "pending"
        /\ IsWaiting(h, h.deferreds[q][i]) /\ Root(h, Of(h, h.deferreds[q][i])) = q
  BY <1>1, <1>3 DEF DeferredInv, StateInv
<1>8. \A i \in DOMAIN h.queue :
        /\ h.queue[i][1] \in Promises /\ h.queue[i][2] \in Promises
        /\ IsASettled(h, h.queue[i][1]) /\ h.queue[i][1] # p
        /\ IsWaiting(h, h.queue[i][2]) /\ Root(h, Of(h, h.queue[i][2])) = h.queue[i][1]
  <2>1. \A i \in DOMAIN h.queue : h.queue[i][1] \in Promises /\ h.queue[i][2] \in Promises
    <3>1. \A i \in DOMAIN h.queue : h.queue[i] \in Promises \X Promises
      BY <1>3
    <3> QED
      BY <3>1
  <2>2. \A i \in DOMAIN h.queue :
          /\ IsASettled(h, h.queue[i][1]) /\ IsWaiting(h, h.queue[i][2])
          /\ Root(h, Of(h, h.queue[i][2])) = h.queue[i][1]
    BY <1>1 DEF QueueInv
  <2>3. ~IsASettled(h, p)
    BY <1>2 DEF IsASettled
  <2> QED
    BY <2>1, <2>2, <2>3
<1>9. StateInv(g)
  BY <1>1, <1>2 DEF StateInv, IsSettled, CanSettle
<1>10. WaitingInv(g)
  <2>1. \A q \in Promises : \A i \in DOMAIN h.waiting[q] : h.waiting[q][i] # p
    BY <1>1, <1>2 DEF WaitingInv, IsWaiting
  <2>2. \A q \in Promises : \A i \in DOMAIN h.waiting[q] : h.waiting[q][i] \in Promises
    BY <1>3
  <2> QED
    BY <1>1, <1>4, <2>1, <2>2 DEF WaitingInv, IsSettled
<1>11. DeferredInv(g)
  <2> SUFFICES ASSUME NEW q \in Promises
               PROVE  /\ \A i \in DOMAIN g.deferreds[q] :
                           /\ IsWaiting(g, g.deferreds[q][i])
                           /\ Root(g, Of(g, g.deferreds[q][i])) = q
                      /\ InOrder(g, g.deferreds[q])
    BY DEF DeferredInv
  <2>1. CASE q = p
    BY <2>1 DEF IsSettled, InOrder
  <2>2. CASE q # p
    <3>1. g.deferreds[q] = h.deferreds[q]
      BY <2>2 DEF IsSettled
    <3>2. ASSUME NEW i \in DOMAIN h.deferreds[q]
          PROVE  /\ IsWaiting(g, h.deferreds[q][i])
                 /\ Root(g, Of(g, h.deferreds[q][i])) = q
      BY <1>3, <1>4, <1>5, <1>7, <2>2
    <3> QED
      BY <1>1, <1>6, <3>1, <3>2 DEF DeferredInv
  <2> QED
    BY <2>1, <2>2
<1>12. QueueInv(g)
  <2>1. g.queue = h.queue /\ Tasked(g) = Tasked(h)
    BY DEF IsSettled, Tasked
  <2>2. ASSUME NEW i \in DOMAIN h.queue
        PROVE  /\ IsASettled(g, h.queue[i][1]) /\ IsWaiting(g, h.queue[i][2])
               /\ Root(g, Of(g, h.queue[i][2])) = h.queue[i][1]
    <3>1. IsASettled(g, h.queue[i][1])
      BY <1>8 DEF IsASettled, IsSettled
    <3>2. h.state[h.queue[i][1]] # "following"
      BY <1>8 DEF IsASettled
    <3> QED
      BY <1>3, <1>4, <1>5, <1>8, <3>1, <3>2
  <2> QED
    BY <1>1, <1>6, <2>1, <2>2 DEF QueueInv
<1>13. OwnerInv(g)
  <2>1. \A r \in DOMAIN h.resolver : h.resolver[r].promise = p => h.resolver[r].done
    BY DEF Free
  <2> QED
    BY <1>1, <1>3, <1>4, <2>1 DEF OwnerInv, IsSettled
<1>14. CallbackInv(g)
  BY <1>1 DEF CallbackInv, IsCallback, IsSettled
<1>15. Loose(g, p, h.deferreds[p])
  <2> DEFINE ds == h.deferreds[p]
  <2>1. ASSUME NEW i \in DOMAIN ds
        PROVE  /\ IsWaiting(g, ds[i])
               /\ g.state[Root(g, p)] # "following" => Root(g, Of(g, ds[i])) = Root(g, p)
    <3>1. Root(h, Of(h, ds[i])) = p /\ Of(h, ds[i]) \in Promises /\ IsWaiting(h, ds[i])
      BY <1>2, <1>3, <1>7
    <3> QED
      BY <1>1, <1>2, <1>4, <3>1, SettledRoots
  <2>2. ASSUME NEW i \in DOMAIN ds, NEW e \in Promises, IsPlaced(g, e), Of(g, e) = Of(g, ds[i])
        PROVE  FALSE
    <3>1. Root(h, Of(h, e)) = p
      BY <1>2, <1>4, <1>7, <2>2
    <3>2. CASE \E q \in Promises : \E j \in DOMAIN g.deferreds[q] : g.deferreds[q][j] = e
      <4>1. PICK q \in Promises : \E j \in DOMAIN g.deferreds[q] : g.deferreds[q][j] = e
        BY <3>2
      <4>2. q # p /\ g.deferreds[q] = h.deferreds[q]
        BY <4>1 DEF IsSettled
      <4> QED
        BY <1>7, <3>1, <4>1, <4>2
    <3>3. CASE \E j \in DOMAIN g.queue : g.queue[j][2] = e
      BY <1>8, <3>1, <3>3 DEF IsSettled
    <3> QED
      BY <2>2, <3>2, <3>3 DEF IsPlaced
  <2>3. InOrder(g, ds)
    BY <1>1, <1>2, <1>6 DEF DeferredInv
  <2>4. ASSUME ~g.hung, NEW d \in Promises, IsWaiting(g, d)
        PROVE  IsPlaced(g, d) \/ \E i \in DOMAIN ds : ds[i] = d
    <3>1. IsPlaced(h, d)
      BY <1>1, <1>4, <2>4 DEF PlacedInv, IsSettled
    <3>2. CASE \E q \in Promises : \E j \in DOMAIN h.deferreds[q] : h.deferreds[q][j] = d
      <4>1. PICK q \in Promises : \E j \in DOMAIN h.deferreds[q] : h.deferreds[q][j] = d
        BY <3>2
      <4>2. CASE q = p
        BY <4>1, <4>2
      <4>3. CASE q # p
        <5>1. g.deferreds[q] = h.deferreds[q]
          BY <4>3 DEF IsSettled
        <5> QED
          BY <4>1, <5>1 DEF IsPlaced
      <4> QED
        BY <4>2, <4>3
    <3>3. CASE \E j \in DOMAIN h.queue : h.queue[j][2] = d
      BY <3>3 DEF IsPlaced, IsSettled
    <3> QED
      BY <3>1, <3>2, <3>3 DEF IsPlaced
  <2> HIDE DEF ds
  <2>5. Loose(g, p, ds)
    BY <2>1, <2>2, <2>3, <2>4 DEF Loose
  <2> QED
    BY <2>5 DEF ds
<1>16. Extends(h, g)
  <2>1. ASSUME NEW q \in Promises, OutcomeOf(h, q) # NoOutcome
        PROVE  OutcomeOf(g, q) = OutcomeOf(h, q)
    <3>1. h.state[Root(h, q)] \in {"fulfilled", "rejected"}
      BY <2>1 DEF OutcomeOf
    <3>2. Root(h, q) # p /\ Root(h, q) \in Promises
      BY <1>1, <1>2, <3>1, FollowsMade, RootType
    <3>3. Root(g, q) = Root(h, q)
      BY <1>5, <3>1, <3>2
    <3>4. g.state[Root(h, q)] = h.state[Root(h, q)] /\ g.value[Root(h, q)] = h.value[Root(h, q)]
      BY <3>2 DEF IsSettled
    <3> QED
      BY <3>1, <3>3, <3>4 DEF OutcomeOf
  <2>2. \A q \in Promises : Len(h.waiting[q]) \in Nat
    BY <1>3
  <2>3. Len(h.resolver) \in Nat
    BY <1>1, Fields
  <2>4. \A q \in Promises : h.state[q] = "following" => g.state[q] = "following" /\ g.value[q] = h.value[q]
    BY <1>2 DEF IsSettled
  <2> QED
    BY <1>2, <1>4, <2>1, <2>2, <2>3, <2>4 DEF Extends, IsSettled
<1>17. Spares(h, g, p)
  <2> SUFFICES ASSUME NEW q \in Promises \ {p}, Free(h, q) PROVE Free(g, q)
    BY DEF Spares
  <2> QED
    BY <1>4 DEF Free, IsSettled
<1>18. FlushInv(g) /\ PairsInv(g)
  BY <1>1 DEF FlushInv, IsSettled, MemoryInv, CoreInv, PairsInv
<1> QED
  BY <1>9, <1>10, <1>11, <1>12, <1>13, <1>14, <1>15, <1>16, <1>17, <1>18 DEF CoreInv

LEMMA EmptyPlaced ==
  ASSUME NEW h, CoreInv(h), NEW p, Loose(h, p, <<>>)
  PROVE  MemoryInv(h)
BY DEF Loose, MemoryInv, PlacedInv

LEMMA ExtendsAlike ==
  ASSUME NEW h, NEW f, NEW g, Extends(h, f), Alike(f, g), f.hung => g.hung
  PROVE  Extends(h, g)
<1>1. \A p \in Promises : Root(g, p) = Root(f, p)
  BY RootAlike DEF Alike, FollowAlike
<1>2. \A p \in Promises : OutcomeOf(g, p) = OutcomeOf(f, p)
  BY <1>1 DEF OutcomeOf, Alike
<1>3. \A d : IsWaiting(g, d) <=> IsWaiting(f, d)
  BY DEF Alike, IsWaiting, Of
<1> QED
  BY <1>2, <1>3 DEF Extends, Alike

\* What all was given, none for a pair that was not made.
ItemsOf(h, r) == IF r \in DOMAIN h.resolver THEN h.gather[r].items ELSE <<>>

\* A callback that calls the pair r, and a handler that has one.
About(cb, r) == cb[1] \in {"gather", "resolve", "reject"} /\ cb[2] = r

Concerns(h, d, r) ==
  About(h.handler[d].onFulfilled, r) \/ About(h.handler[d].onRejected, r)

\* From h to g, the pair r was neither called nor given to a new handler.
Leaves(h, g, r) ==
  /\ ItemsOf(g, r) = ItemsOf(h, r)
  /\ r \in DOMAIN h.resolver =>
       /\ r \in DOMAIN g.resolver /\ g.resolver[r] = h.resolver[r] /\ g.gather[r] = h.gather[r]
       /\ \A d \in Promises :
            IsWaiting(g, d) /\ Concerns(g, d, r) => IsWaiting(h, d) /\ g.handler[d] = h.handler[d]

LEMMA LeavesTrans ==
  ASSUME NEW h, NEW f, NEW g, NEW r, Leaves(h, f, r), Leaves(f, g, r)
  PROVE  Leaves(h, g, r)
BY DEF Leaves, Concerns

LEMMA LeavesAlike ==
  ASSUME NEW h, NEW g, g.resolver = h.resolver, g.handler = h.handler, g.waiting = h.waiting,
         NEW r, r \in DOMAIN h.resolver => g.gather[r] = h.gather[r]
  PROVE  Leaves(h, g, r)
<1>1. \A d : IsWaiting(g, d) <=> IsWaiting(h, d)
  BY DEF IsWaiting, Of
<1> QED
  BY <1>1 DEF Leaves, ItemsOf

LEMMA SparesAlike ==
  ASSUME NEW h, NEW f, NEW g, NEW p, Spares(h, f, p), Alike(f, g)
  PROVE  Spares(h, g, p)
<1>1. \A d : IsWaiting(g, d) <=> IsWaiting(f, d)
  BY DEF Alike, IsWaiting, Of
<1> QED
  BY <1>1 DEF Spares, Free, Alike

\* What a function of the library does that may settle p.
Keeps(h, g, p) ==
  MemoryInv(g) /\ Extends(h, g) /\ Spares(h, g, p) /\ \A r : Leaves(h, g, r)

\* Settling hands the deferreds over, in their order, to where the promise ends now.
LEMMA SettleInv ==
  ASSUME NEW h, MemoryInv(h), NEW p, Free(h, p), NEW s, NEW x, CanSettle(h, s, x)
  PROVE  LET g == Settle(h, p, s, x)
         IN /\ Keeps(h, g, p)
            /\ g.made = h.made /\ g.resolver = h.resolver /\ g.gather = h.gather
            /\ s # "following" => OutcomeOf(g, p) = <<s, x>>
<1> DEFINE st == [h.state EXCEPT ![p] = s]
           va == [h.value EXCEPT ![p] = x]
           de == [h.deferreds EXCEPT ![p] = <<>>]
           ds == h.deferreds[p]
           f == [h EXCEPT !.state = st, !.value = va]
           g == [h EXCEPT !.state = st, !.value = va, !.deferreds = de]
<1>1. IsMemory(h) /\ p \in Promises
  BY FollowsMade DEF MemoryInv, CoreInv, Free
<1>2. PICK V : h \in MemoryOf(V)
  BY <1>1 DEF IsMemory
<1>3. h \in MemoryOf(V \cup {x})
  BY <1>2, MemoryGrows
<1>4. st \in [Promises -> State] /\ va \in [Promises -> V \cup {x}] /\ de \in [Promises -> Seq(Promises)]
  <2>1. /\ h.state \in [Promises -> State] /\ h.value \in [Promises -> V \cup {x}]
        /\ h.deferreds \in [Promises -> Seq(Promises)]
    BY <1>3 DEF MemoryOf
  <2>2. s \in State /\ <<>> \in Seq(Promises)
    BY DEF CanSettle, State
  <2> QED
    BY <1>1, <2>1, <2>2
<1>5. /\ st[p] = s /\ va[p] = x /\ de[p] = <<>>
      /\ \A q \in Promises \ {p} : st[q] = h.state[q] /\ va[q] = h.value[q] /\ de[q] = h.deferreds[q]
  BY <1>1, <1>2 DEF MemoryOf
<1>6. ds = <<>> => de = h.deferreds
  BY <1>1, <1>2 DEF MemoryOf
<1>7. Settle(h, p, s, x) = Finale(f, p)
  BY DEF Settle
<1>8. f.deferreds = h.deferreds /\ [f EXCEPT !.deferreds[p] = <<>>] = g
  BY <1>2 DEF MemoryOf
<1> HIDE DEF st, va, de
<1>9. Settle(h, p, s, x) = IF ds = <<>> THEN f ELSE HandleAll(g, p, ds)
  BY <1>7, <1>8, Zenon DEF Finale
<1>10. ds = <<>> => f = g
  BY <1>2, <1>6 DEF MemoryOf
<1>11. g \in MemoryOf(V \cup {x})
  BY <1>3, <1>4 DEF MemoryOf
<1>12. IsSettled(h, g, p, s, x)
  BY <1>2, <1>5 DEF IsSettled, MemoryOf
<1> HIDE DEF f, g
<1>13. IsMemory(g)
  BY <1>11 DEF IsMemory
<1>14. CoreInv(g) /\ Loose(g, p, ds) /\ Extends(h, g) /\ Spares(h, g, p)
  BY <1>12, <1>13, SettledInv
<1>15. g.made = h.made /\ g.resolver = h.resolver /\ g.gather = h.gather /\ g.state[p] = s /\ g.value[p] = x
  BY <1>12 DEF IsSettled
<1>16. ASSUME NEW e, e.state = g.state, e.value = g.value, s # "following"
      PROVE  OutcomeOf(e, p) = <<s, x>>
  <2>1. Root(e, p) = p
    BY <1>15, <1>16, RootIs
  <2> QED
    BY <1>15, <1>16, <2>1 DEF OutcomeOf, CanSettle
<1>17. \A r : Leaves(h, g, r)
  BY <1>12, LeavesAlike DEF IsSettled
<1>18. CASE ds = <<>>
  <2>1. Settle(h, p, s, x) = g
    BY <1>9, <1>10, <1>18
  <2>2. MemoryInv(g)
    BY <1>14, <1>18, EmptyPlaced
  <2> QED
    BY <1>14, <1>15, <1>16, <1>17, <2>1, <2>2 DEF Keeps
<1>19. CASE ds # <<>>
  <2>1. Settle(h, p, s, x) = HandleAll(g, p, ds)
    BY <1>9, <1>19
  <2>2. ds \in Seq(Promises)
    BY <1>1, Fields
  <2>3. MemoryInv(HandleAll(g, p, ds))
    BY <1>1, <1>14, <2>2, HandleAllInv
  <2> DEFINE k == HandleAll(g, p, ds)
  <2>4. Alike(g, k) /\ k.gather = g.gather /\ (g.hung => k.hung)
    <3>1. Root(g, p) \in Promises
      BY <1>1, <1>14, FollowsMade, RootType DEF CoreInv
    <3>2. Alike(g, k) /\ HandedOver(g, k, Root(g, p), ds)
      BY <1>13, <2>2, <3>1, HandleAllIs
    <3> QED
      BY <3>2 DEF HandedOver
  <2> HIDE DEF k
  <2>5. \A r : Leaves(h, k, r)
    <3>1. \A r : Leaves(g, k, r)
      BY <2>4, LeavesAlike DEF Alike
    <3> QED
      BY <1>17, <3>1, LeavesTrans
  <2>6. Extends(h, k) /\ Spares(h, k, p)
    BY <1>14, <2>4, ExtendsAlike, SparesAlike
  <2>7. k.made = g.made /\ k.resolver = g.resolver /\ k.state = g.state /\ k.value = g.value
    BY <2>4 DEF Alike
  <2> QED
    BY <1>15, <1>16, <2>1, <2>3, <2>4, <2>5, <2>6, <2>7 DEF Keeps, k
<1> QED
  BY <1>18, <1>19

-----------------------------------------------------------------------------
(* Steps in turn *)

LEMMA ExtendsTrans ==
  ASSUME NEW f, NEW g, NEW h, IsMemory(f), IsMemory(g), IsMemory(h), Extends(f, g), Extends(g, h)
  PROVE  Extends(f, h)
<1>1. /\ f.made \in Nat /\ g.made \in Nat /\ h.made \in Nat
      /\ Len(f.resolver) \in Nat /\ Len(g.resolver) \in Nat /\ Len(h.resolver) \in Nat
      /\ f.waiting \in [Promises -> Seq(Promises)]
      /\ g.waiting \in [Promises -> Seq(Promises)]
      /\ h.waiting \in [Promises -> Seq(Promises)]
  BY Fields
<1>2. /\ f.made <= h.made /\ Len(f.resolver) <= Len(h.resolver) /\ (f.hung => h.hung)
      /\ h.answer = f.answer
  BY <1>1 DEF Extends
<1>3. ASSUME NEW p \in Promises
      PROVE  /\ OutcomeOf(f, p) # NoOutcome => OutcomeOf(h, p) = OutcomeOf(f, p)
             /\ f.state[p] = "following" => h.state[p] = "following" /\ h.value[p] = f.value[p]
             /\ IsWaiting(f, p) => IsWaiting(h, p) /\ h.handler[p] = f.handler[p]
  BY DEF Extends
<1>4. ASSUME NEW p \in Promises
      PROVE  /\ Len(f.waiting[p]) <= Len(h.waiting[p])
             /\ \A i \in DOMAIN f.waiting[p] : h.waiting[p][i] = f.waiting[p][i]
  <2>1. /\ Len(f.waiting[p]) \in Nat /\ DOMAIN f.waiting[p] = 1..Len(f.waiting[p])
        /\ Len(g.waiting[p]) \in Nat /\ DOMAIN g.waiting[p] = 1..Len(g.waiting[p])
        /\ Len(h.waiting[p]) \in Nat
    BY <1>1
  <2>2. /\ Len(f.waiting[p]) <= Len(g.waiting[p]) /\ Len(g.waiting[p]) <= Len(h.waiting[p])
        /\ \A i \in DOMAIN f.waiting[p] : g.waiting[p][i] = f.waiting[p][i]
        /\ \A i \in DOMAIN g.waiting[p] : h.waiting[p][i] = g.waiting[p][i]
    BY DEF Extends
  <2> QED
    BY <2>1, <2>2
<1> QED
  BY <1>2, <1>3, <1>4 DEF Extends

LEMMA ExtendsSelf ==
  ASSUME NEW h, IsMemory(h)
  PROVE  Extends(h, h)
<1>1. h.made \in Nat /\ Len(h.resolver) \in Nat /\ h.waiting \in [Promises -> Seq(Promises)]
  BY Fields
<1>2. \A p \in Promises : Len(h.waiting[p]) \in Nat
  BY <1>1
<1> QED
  BY <1>1, <1>2 DEF Extends

LEMMA KeepsSelf ==
  ASSUME NEW h, MemoryInv(h)
  PROVE  \A p : Keeps(h, h, p)
<1>1. Extends(h, h)
  BY ExtendsSelf DEF MemoryInv, CoreInv
<1>2. \A r : Leaves(h, h, r)
  BY LeavesAlike
<1> QED
  BY <1>1, <1>2 DEF Keeps, Spares

LEMMA KeepsTrans ==
  ASSUME NEW h, NEW f, NEW g, NEW p, MemoryInv(h), Keeps(h, f, p), Keeps(f, g, p)
  PROVE  Keeps(h, g, p)
<1>1. IsMemory(h) /\ IsMemory(f) /\ IsMemory(g) /\ Extends(h, f) /\ Extends(f, g)
  BY DEF Keeps, MemoryInv, CoreInv
<1>2. Extends(h, g)
  BY <1>1, ExtendsTrans
<1>3. Spares(h, g, p)
  BY DEF Keeps, Spares
<1>4. \A r : Leaves(h, g, r)
  BY LeavesTrans DEF Keeps
<1> QED
  BY <1>2, <1>3, <1>4 DEF Keeps

\* From h to g, the pair r may have been called.
Stays(h, g, r) ==
  /\ ItemsOf(g, r) = ItemsOf(h, r)
  /\ r \in DOMAIN h.resolver =>
       /\ r \in DOMAIN g.resolver
       /\ g.resolver[r].promise = h.resolver[r].promise
       /\ g.resolver[r].holder = h.resolver[r].holder
       /\ h.resolver[r].done => g.resolver[r].done

LEMMA LeavesStays ==
  ASSUME NEW h, NEW g, NEW r, Leaves(h, g, r)
  PROVE  Stays(h, g, r)
BY DEF Leaves, Stays

LEMMA StaysTrans ==
  ASSUME NEW h, NEW f, NEW g, NEW r, Stays(h, f, r), Stays(f, g, r)
  PROVE  Stays(h, g, r)
BY DEF Stays

\* What a function does that settles no promise of another, and calls no pair but k.
Passes(h, g, k) ==
  /\ MemoryInv(g) /\ Extends(h, g)
  /\ \A q \in Promises : Free(h, q) => Free(g, q)
  /\ \A r : r # k => Leaves(h, g, r)

Goes(h, g, k) == Passes(h, g, k) /\ Stays(h, g, k)

LEMMA KeepsGoes ==
  ASSUME NEW h, NEW g, NEW p, Keeps(h, g, p), ~Free(h, p)
  PROVE  \A k : Goes(h, g, k)
<1>1. \A k : Stays(h, g, k)
  BY LeavesStays DEF Keeps
<1> QED
  BY <1>1 DEF Keeps, Goes, Passes, Spares

LEMMA GoesKeeps ==
  ASSUME NEW h, MemoryInv(h), NEW f, NEW g, NEW k, Goes(h, f, k), NEW p, Keeps(f, g, p)
  PROVE  /\ MemoryInv(g) /\ Extends(h, g) /\ Stays(h, g, k) /\ \A r : r # k => Leaves(h, g, r)
         /\ ~Free(h, p) => Goes(h, g, k)
<1>1. Extends(h, g)
  BY ExtendsTrans DEF Goes, Passes, Keeps, MemoryInv, CoreInv
<1>2. \A r : r # k => Leaves(h, g, r)
  BY LeavesTrans DEF Goes, Passes, Keeps
<1>3. Stays(h, g, k)
  BY LeavesStays, StaysTrans DEF Goes, Keeps
<1> QED
  BY <1>1, <1>2, <1>3 DEF Goes, Passes, Keeps, Spares

LEMMA PassesTrans ==
  ASSUME NEW h, NEW f, NEW g, NEW k, MemoryInv(h), Passes(h, f, k), Passes(f, g, k)
  PROVE  Passes(h, g, k)
<1>1. Extends(h, g)
  BY ExtendsTrans DEF Passes, MemoryInv, CoreInv
<1>2. \A r : r # k => Leaves(h, g, r)
  BY LeavesTrans DEF Passes
<1> QED
  BY <1>1, <1>2 DEF Passes

LEMMA GoesTrans ==
  ASSUME NEW h, NEW f, NEW g, NEW k, MemoryInv(h), Goes(h, f, k), Goes(f, g, k)
  PROVE  Goes(h, g, k)
BY PassesTrans, StaysTrans DEF Goes

LEMMA GoesSelf ==
  ASSUME NEW h, MemoryInv(h)
  PROVE  \A k : Goes(h, h, k)
<1>1. \A k : Stays(h, h, k)
  BY DEF Stays
<1> QED
  BY <1>1, KeepsSelf DEF Keeps, Goes, Passes

\* What only all, done and the flush keep is no matter.
LEMMA Besides ==
  ASSUME NEW h, MemoryInv(h), NEW g, IsMemory(g), Alike(h, g), FlushInv(g), PairsInv(g),
         g.deferreds = h.deferreds, g.queue = h.queue, h.hung => g.hung,
         NEW k, \A r : r # k => g.gather[r] = h.gather[r]
  PROVE  /\ Passes(h, g, k)
         /\ ItemsOf(g, k) = ItemsOf(h, k) => Goes(h, g, k)
<1>1. /\ IsMemory(h) /\ StateInv(h) /\ WaitingInv(h) /\ DeferredInv(h)
      /\ QueueInv(h) /\ OwnerInv(h) /\ CallbackInv(h) /\ PlacedInv(h)
  BY DEF MemoryInv, CoreInv
<1>2. \A q \in Promises : h.state[q] # "pending" => g.deferreds[q] = <<>>
  BY <1>1 DEF StateInv
<1>3. /\ StateInv(g) /\ WaitingInv(g) /\ OwnerInv(g) /\ CallbackInv(g)
      /\ \A d : IsWaiting(g, d) <=> IsWaiting(h, d)
      /\ \A d : Of(g, d) = Of(h, d)
      /\ \A q \in Promises : Root(g, q) = Root(h, q)
      /\ \A es : InOrder(g, es) <=> InOrder(h, es)
      /\ \A q : IsASettled(g, q) <=> IsASettled(h, q)
  BY <1>1, <1>2, AlikeInv
<1>4. /\ \A d \in Promises : Of(h, d) \in Promises
      /\ h.deferreds \in [Promises -> Seq(Promises)]
      /\ h.queue \in Seq(Promises \X Promises)
  BY <1>1, Fields
<1>5. /\ \A q \in Promises : \A i \in DOMAIN h.deferreds[q] : h.deferreds[q][i] \in Promises
      /\ \A i \in DOMAIN h.queue : h.queue[i][2] \in Promises
  BY <1>4
<1>6. DeferredInv(g)
  BY <1>1, <1>3, <1>4, <1>5 DEF DeferredInv
<1>7. Tasked(g) = Tasked(h)
  BY DEF Tasked
<1>8. QueueInv(g)
  BY <1>1, <1>3, <1>4, <1>5, <1>7 DEF QueueInv
<1>9. \A d : IsPlaced(g, d) <=> IsPlaced(h, d)
  BY DEF IsPlaced
<1>10. PlacedInv(g)
  BY <1>1, <1>3, <1>9, Fields DEF PlacedInv
<1>11. Extends(h, g)
  BY <1>1, ExtendsSelf, ExtendsAlike
<1>12. \A q \in Promises : Free(h, q) => Free(g, q)
  BY <1>3 DEF Alike, Free
<1>13. \A r : r # k => Leaves(h, g, r)
  BY LeavesAlike DEF Alike
<1>14. ItemsOf(g, k) = ItemsOf(h, k) => Stays(h, g, k)
  BY DEF Stays, Alike
<1> QED
  BY <1>3, <1>6, <1>8, <1>10, <1>11, <1>12, <1>13, <1>14 DEF Goes, Passes, MemoryInv, CoreInv

\* g is h with more promises, or other pairs of resolve and reject.
Widens(h, g) ==
  /\ g.state = h.state /\ g.value = h.value /\ g.deferreds = h.deferreds /\ g.handler = h.handler
  /\ g.queue = h.queue /\ g.hung = h.hung /\ g.waiting = h.waiting /\ g.answer = h.answer
  /\ h.made <= g.made /\ g.made <= MaxPromises /\ Len(h.resolver) <= Len(g.resolver)
  /\ g.flush = h.flush

LEMMA WidensInv ==
  ASSUME NEW h, MemoryInv(h), NEW g, IsMemory(g), Widens(h, g), OwnerInv(g), PairsInv(g)
  PROVE  /\ MemoryInv(g) /\ Extends(h, g)
         /\ \A d : IsWaiting(g, d) <=> IsWaiting(h, d)
<1>1. /\ IsMemory(h) /\ StateInv(h) /\ WaitingInv(h) /\ DeferredInv(h)
      /\ QueueInv(h) /\ CallbackInv(h) /\ PlacedInv(h)
  BY DEF MemoryInv, CoreInv
<1>2. /\ h.made \in Nat /\ g.made \in Nat /\ h.made <= g.made
      /\ h.deferreds \in [Promises -> Seq(Promises)]
      /\ h.queue \in Seq(Promises \X Promises)
      /\ h.waiting \in [Promises -> Seq(Promises)]
      /\ Len(h.resolver) \in Nat /\ DOMAIN h.resolver = 1..Len(h.resolver)
      /\ Len(g.resolver) \in Nat /\ DOMAIN g.resolver = 1..Len(g.resolver)
      /\ \A d \in Promises : Of(h, d) \in Promises
  BY <1>1, Fields DEF Widens
<1>3. /\ \A q \in Promises : \A i \in DOMAIN h.deferreds[q] : h.deferreds[q][i] \in Promises
      /\ \A i \in DOMAIN h.queue : h.queue[i][2] \in Promises
      /\ \A q \in Promises : \A i \in DOMAIN h.waiting[q] : h.waiting[q][i] \in Promises
      /\ \A q \in Promises : Len(h.waiting[q]) \in Nat
      /\ Promises \subseteq Nat
  <2>1. Promises \subseteq Nat
    BY MaxPromisesAssumption DEF Promises
  <2>2. /\ \A q \in Promises : \A i \in DOMAIN h.deferreds[q] : h.deferreds[q][i] \in Promises
        /\ \A q \in Promises : \A i \in DOMAIN h.waiting[q] : h.waiting[q][i] \in Promises
        /\ \A q \in Promises : Len(h.waiting[q]) \in Nat
    BY <1>2
  <2>3. \A i \in DOMAIN h.queue : h.queue[i][2] \in Promises
    BY <1>2
  <2> QED
    BY <2>1, <2>2, <2>3
<1>4. /\ \A d : IsWaiting(g, d) <=> IsWaiting(h, d)
      /\ \A d : Of(g, d) = Of(h, d)
      /\ \A es : InOrder(g, es) <=> InOrder(h, es)
      /\ \A q : IsASettled(g, q) <=> IsASettled(h, q)
      /\ \A d : IsPlaced(g, d) <=> IsPlaced(h, d)
      /\ Tasked(g) = Tasked(h)
  BY DEF Widens, IsWaiting, Of, InOrder, IsASettled, IsPlaced, Tasked
<1>5. \A q \in Promises : Root(g, q) = Root(h, q)
  <2>1. FollowAlike(h, g)
    BY DEF Widens, FollowAlike
  <2> QED
    BY <2>1, RootAlike
<1>6. StateInv(g)
  <2>1. g.made <= MaxPromises /\ g.state = h.state /\ g.value = h.value /\ g.deferreds = h.deferreds
    BY DEF Widens
  <2>2. 1..h.made \subseteq 1..g.made /\ \A q \in Promises : q <= h.made => q <= g.made
    <3>1. Promises \subseteq Nat
      BY <1>3
    <3> QED
      BY <1>2, <3>1
  <2> QED
    BY <1>1, <2>1, <2>2 DEF StateInv
<1>7. WaitingInv(g)
  <2>1. g.waiting = h.waiting /\ g.state = h.state /\ g.answer = h.answer
    BY DEF Widens
  <2>2. ASSUME NEW q \in Promises PROVE (q <= h.made => q <= g.made) /\ (q > g.made => q > h.made)
    <3>1. q \in Nat
      BY <1>3
    <3> QED
      BY <1>2, <3>1
  <2>3. \A q \in Promises : q > g.made => g.answer[q] = NoOutcome
    BY <1>1, <2>1, <2>2 DEF WaitingInv
  <2>4. ASSUME NEW q \in Promises, NEW i \in DOMAIN g.waiting[q], NEW e, e = g.waiting[q][i]
        PROVE  /\ e <= g.made /\ Of(g, e) = q
               /\ g.answer[e] = NoOutcome /\ g.state[e] = "pending"
               /\ \A j \in DOMAIN g.waiting[q] : i < j => e < g.waiting[q][j]
    <3>1. i \in DOMAIN h.waiting[q] /\ e = h.waiting[q][i]
      BY <2>1, <2>4
    <3>2. e \in Promises
      BY <1>3, <3>1
    <3>3. /\ e <= h.made /\ Of(h, e) = q
          /\ h.answer[e] = NoOutcome /\ h.state[e] = "pending"
          /\ \A j \in DOMAIN h.waiting[q] : i < j => e < h.waiting[q][j]
      BY <1>1, <3>1 DEF WaitingInv
    <3> QED
      BY <1>4, <2>1, <2>2, <3>2, <3>3
  <2> QED
    BY <2>3, <2>4 DEF WaitingInv
<1>8. DeferredInv(g)
  <2>1. g.deferreds = h.deferreds
    BY DEF Widens
  <2>2. ASSUME NEW q \in Promises, NEW i \in DOMAIN h.deferreds[q]
        PROVE  IsWaiting(g, h.deferreds[q][i]) /\ Root(g, Of(g, h.deferreds[q][i])) = q
    <3>1. /\ IsWaiting(h, h.deferreds[q][i]) /\ Root(h, Of(h, h.deferreds[q][i])) = q
          /\ h.deferreds[q][i] \in Promises
      BY <1>1, <1>3 DEF DeferredInv
    <3> QED
      BY <1>2, <1>4, <1>5, <3>1
  <2> QED
    BY <1>1, <1>4, <2>1, <2>2 DEF DeferredInv
<1>9. QueueInv(g)
  BY <1>1, <1>2, <1>3, <1>4, <1>5 DEF QueueInv, Widens
<1>10. CallbackInv(g)
  <2>1. DOMAIN h.resolver \subseteq DOMAIN g.resolver
    BY <1>2 DEF Widens
  <2> QED
    BY <1>1, <2>1 DEF CallbackInv, IsCallback, Widens
<1>11. PlacedInv(g)
  BY <1>1, <1>4 DEF PlacedInv, Widens
<1>12. Extends(h, g)
  <2>1. \A q \in Promises : OutcomeOf(g, q) = OutcomeOf(h, q)
    BY <1>5 DEF OutcomeOf, Widens
  <2> QED
    BY <1>2, <1>3, <1>4, <2>1 DEF Extends, Widens
<1>13. FlushInv(g)
  BY DEF MemoryInv, CoreInv, FlushInv, Widens
<1> QED
  BY <1>4, <1>6, <1>7, <1>8, <1>9, <1>10, <1>11, <1>12, <1>13 DEF MemoryInv, CoreInv

LEMMA DoneInv ==
  ASSUME NEW h, MemoryInv(h), NEW r \in DOMAIN h.resolver, ~h.resolver[r].done
  PROVE  LET g == [h EXCEPT !.resolver[r].done = TRUE]
             p == h.resolver[r].promise
         IN /\ Goes(h, g, r) /\ Free(g, p) /\ g.made = h.made
            /\ Len(g.resolver) = Len(h.resolver) /\ g.gather = h.gather
            /\ g.resolver[r].done /\ g.resolver[r].promise = p
            /\ g.resolver[r].holder = h.resolver[r].holder
            /\ g.handler = h.handler /\ g.waiting = h.waiting
<1> DEFINE re == [h.resolver EXCEPT ![r] = [h.resolver[r] EXCEPT !.done = TRUE]]
           g == [h EXCEPT !.resolver = re]
           p == h.resolver[r].promise
<1>1. /\ IsMemory(h) /\ StateInv(h) /\ OwnerInv(h)
  BY DEF MemoryInv, CoreInv
<1>2. PICK V : h \in MemoryOf(V)
  BY <1>1 DEF IsMemory
<1> DEFINE R == [promise : Promises, done : BOOLEAN, holder : V]
<1>3. h.resolver \in Seq(R)
  BY <1>2 DEF MemoryOf
<1> HIDE DEF R
<1>4. h.resolver[r] \in R
  BY <1>3
<1> USE DEF R
<1>5. /\ [h.resolver[r] EXCEPT !.done = TRUE] \in R
      /\ [h.resolver[r] EXCEPT !.done = TRUE].promise = p
      /\ [h.resolver[r] EXCEPT !.done = TRUE].done = TRUE
      /\ [h.resolver[r] EXCEPT !.done = TRUE].holder = h.resolver[r].holder
  BY <1>4
<1> HIDE DEF R
<1>6. /\ re \in Seq(R) /\ DOMAIN re = DOMAIN h.resolver /\ Len(re) = Len(h.resolver)
      /\ re[r].promise = p /\ re[r].done = TRUE /\ re[r].holder = h.resolver[r].holder
      /\ \A k \in DOMAIN h.resolver \ {r} : re[k] = h.resolver[k]
  <2>1. re \in Seq(R) /\ DOMAIN re = DOMAIN h.resolver /\ Len(re) = Len(h.resolver)
    BY <1>3, <1>5
  <2> QED
    BY <1>5, <2>1
<1> HIDE DEF re
<1>7. g \in MemoryOf(V) /\ g.resolver = re
  BY <1>2, <1>6 DEF MemoryOf, R
<1>8. /\ g.made = h.made /\ g.state = h.state /\ g.value = h.value /\ g.deferreds = h.deferreds
      /\ g.handler = h.handler /\ g.queue = h.queue /\ g.hung = h.hung /\ g.waiting = h.waiting
      /\ g.answer = h.answer /\ g.flush = h.flush /\ g.gather = h.gather
  BY <1>2 DEF MemoryOf
<1>9. g = [h EXCEPT !.resolver[r].done = TRUE]
  BY DEF re
<1> HIDE DEF g
<1>10. IsMemory(g)
  BY <1>7 DEF IsMemory
<1>11. Widens(h, g)
  BY <1>1, <1>6, <1>7, <1>8, Fields, FollowsMade DEF Widens, StateInv
<1>12. \A d : IsWaiting(g, d) <=> IsWaiting(h, d)
  BY <1>8 DEF IsWaiting, Of
<1>13. \A k \in DOMAIN h.resolver : /\ g.resolver[k].promise = h.resolver[k].promise
                                    /\ h.resolver[k].done => g.resolver[k].done
                                    /\ k # r => (g.resolver[k].done <=> h.resolver[k].done)
  BY <1>6, <1>7
<1>14. DOMAIN g.resolver = DOMAIN h.resolver /\ g.resolver[r].done
  BY <1>6, <1>7
<1>15. OwnerInv(g) /\ PairsInv(g)
  <2>1. OwnerInv(g)
    BY <1>1, <1>8, <1>12, <1>13, <1>14 DEF OwnerInv
  <2>2. PairsInv(g)
    BY <1>6, <1>7, <1>8 DEF PairsInv, MemoryInv, CoreInv
  <2> QED
    BY <2>1, <2>2
<1>16. MemoryInv(g) /\ Extends(h, g)
  BY <1>10, <1>11, <1>15, WidensInv
<1>17. /\ p <= h.made /\ h.state[p] = "pending" /\ ~IsWaiting(h, p) /\ p \in Promises
       /\ \A k \in DOMAIN h.resolver \ {r} : h.resolver[k].promise = p => h.resolver[k].done
  BY <1>1, Fields DEF OwnerInv
<1>18. Free(g, p)
  <2>1. p \in 1..g.made
    BY <1>1, <1>8, <1>17, FollowsMade, MaxPromisesAssumption DEF Promises
  <2> QED
    BY <1>8, <1>12, <1>13, <1>14, <1>17, <2>1 DEF Free
<1>19. \A q \in Promises : Free(h, q) => Free(g, q)
  BY <1>8, <1>12, <1>13, <1>14 DEF Free
<1>20. ASSUME NEW k, k # r PROVE Leaves(h, g, k)
  BY <1>6, <1>7, <1>8, <1>12, <1>20 DEF Leaves, ItemsOf
<1>21. Stays(h, g, r)
  BY <1>6, <1>7, <1>8 DEF Stays, ItemsOf
<1> QED
  BY <1>6, <1>7, <1>8, <1>9, <1>16, <1>18, <1>19, <1>20, <1>21 DEF Goes, Passes

\* One more promise, which its maker may settle.
LEMMA MadeInv ==
  ASSUME NEW h, MemoryInv(h), h.made + 1 <= MaxPromises
  PROVE  LET g == [h EXCEPT !.made = @ + 1]
         IN /\ Keeps(h, g, h.made + 1) /\ Free(g, h.made + 1) /\ g.made = h.made + 1
            /\ g.resolver = h.resolver /\ g.gather = h.gather
<1> DEFINE p == h.made + 1
           g == [h EXCEPT !.made = p]
<1>1. /\ IsMemory(h) /\ StateInv(h) /\ WaitingInv(h) /\ OwnerInv(h)
  BY DEF MemoryInv, CoreInv
<1>2. PICK V : h \in MemoryOf(V)
  BY <1>1 DEF IsMemory
<1>3. h.made \in Nat /\ p \in Promises
  BY <1>1, FollowsMade, MaxPromisesAssumption DEF Promises
<1>4. g \in MemoryOf(V)
  <2>1. p \in Nat
    BY <1>3
  <2> HIDE DEF p
  <2> QED
    BY <1>2, <2>1 DEF MemoryOf
<1>5. /\ g.made = p /\ g.state = h.state /\ g.value = h.value /\ g.deferreds = h.deferreds
      /\ g.handler = h.handler /\ g.queue = h.queue /\ g.hung = h.hung /\ g.waiting = h.waiting
      /\ g.answer = h.answer /\ g.resolver = h.resolver /\ g.gather = h.gather
      /\ g.flush = h.flush
  BY <1>2 DEF MemoryOf
<1> HIDE DEF g
<1>6. IsMemory(g)
  BY <1>4 DEF IsMemory
<1>7. Widens(h, g)
  BY <1>1, <1>3, <1>5, Fields DEF Widens
<1>8. \A d : IsWaiting(g, d) <=> IsWaiting(h, d)
  BY <1>5 DEF IsWaiting, Of
<1>9. \A r \in DOMAIN h.resolver : h.resolver[r].promise \in Promises /\ h.resolver[r].promise <= h.made
  BY <1>1, Fields DEF OwnerInv
<1>10. Promises \subseteq Int
  BY DEF Promises
<1>11. OwnerInv(g) /\ PairsInv(g)
  <2>1. \A q \in Promises : q <= h.made => q <= p
    BY <1>3, <1>10
  <2>2. PairsInv(g)
    BY <1>5 DEF PairsInv, MemoryInv, CoreInv
  <2> QED
    BY <1>1, <1>5, <1>8, <1>9, <2>1, <2>2 DEF OwnerInv
<1>12. MemoryInv(g) /\ Extends(h, g)
  BY <1>6, <1>7, <1>11, WidensInv
<1>13. ~(p <= h.made)
  BY <1>3
<1>14. ~IsWaiting(h, p)
  <2> SUFFICES ASSUME IsWaiting(h, p) PROVE FALSE
    OBVIOUS
  <2>1. Of(h, p) \in Promises
    BY <1>1, <1>3, Fields
  <2>2. p <= h.made
    BY <1>1, <2>1 DEF IsWaiting, WaitingInv
  <2> QED
    BY <1>13, <2>2
<1>15. h.state[p] = "pending"
  BY <1>1, <1>3, <1>13 DEF StateInv
<1>16. Free(g, p)
  <2>1. p \in 1..p
    BY <1>3
  <2> QED
    BY <1>5, <1>8, <1>9, <1>13, <1>14, <1>15, <2>1 DEF Free
<1>17. Spares(h, g, p)
  <2>1. 1..h.made \subseteq 1..p
    BY <1>3
  <2> QED
    BY <1>5, <1>8, <2>1 DEF Spares, Free
<1>18. \A r : Leaves(h, g, r)
  BY <1>5, LeavesAlike
<1> QED
  BY <1>5, <1>12, <1>16, <1>17, <1>18 DEF Keeps, g

\* The pair n was just given p, by all, race or new Promise if it is the library's.
IsNewPair(g, n, p, holder) ==
  /\ Len(g.resolver) = n /\ ItemsOf(g, n) = <<>>
  /\ g.resolver[n].promise = p /\ ~g.resolver[n].done /\ g.resolver[n].holder = holder

\* A pair of resolve and reject takes over p.
LEMMA NewResolverInv ==
  ASSUME NEW h, MemoryInv(h), NEW p, Free(h, p), NEW holder
  PROVE  LET g == NewResolver(h, p, holder)
         IN /\ Keeps(h, g, p) /\ g.made = h.made
            /\ IsNewPair(g, Len(h.resolver) + 1, p, holder)
<1> DEFINE R(V) == [promise : Promises, done : BOOLEAN, holder : V]
           new == [promise |-> p, done |-> FALSE, holder |-> holder]
           re == Append(h.resolver, new)
           nothing == [args |-> <<>>, remaining |-> 0, items |-> <<>>]
           ga == Append(h.gather, nothing)
           g == [h EXCEPT !.resolver = re, !.gather = ga]
<1>1. /\ IsMemory(h) /\ StateInv(h) /\ OwnerInv(h)
  BY DEF MemoryInv, CoreInv
<1>2. PICK V : h \in MemoryOf(V)
  BY <1>1 DEF IsMemory
<1> DEFINE W == V \cup {ga, holder}
<1>3. h \in MemoryOf(W)
  BY <1>2, MemoryGrows
<1>4. h.resolver \in Seq(R(W))
  BY <1>3 DEF MemoryOf
<1>5. p \in Promises /\ p <= h.made
  BY <1>1, FollowsMade DEF Free
<1>6. new \in R(W) /\ new.promise = p /\ ~new.done /\ new.holder = holder
  BY <1>5
<1> HIDE DEF R, new
<1>7. /\ re \in Seq(R(W)) /\ Len(re) = Len(h.resolver) + 1 /\ Len(h.resolver) \in Nat
      /\ re[Len(h.resolver) + 1] = new
      /\ \A k \in 1..Len(h.resolver) : re[k] = h.resolver[k]
      /\ DOMAIN re = 1..(Len(h.resolver) + 1) /\ DOMAIN h.resolver = 1..Len(h.resolver)
  BY <1>4, <1>6
<1>8. /\ ga \in W /\ PairsInv([resolver |-> re, gather |-> ga])
      /\ ga[Len(h.resolver) + 1].items = <<>>
      /\ \A k \in 1..Len(h.resolver) : ga[k] = h.gather[k]
  <2>1. PICK G : h.gather \in Seq(G) /\ Len(h.gather) = Len(h.resolver)
    BY DEF MemoryInv, CoreInv, PairsInv
  <2> DEFINE H == G \cup {nothing}
  <2>2. h.gather \in Seq(H) /\ nothing \in H /\ nothing.items = <<>>
    BY <2>1
  <2> HIDE DEF H, nothing, re, W
  <2>3. /\ ga \in Seq(H) /\ Len(ga) = Len(h.gather) + 1 /\ ga[Len(h.gather) + 1] = nothing
        /\ \A k \in 1..Len(h.gather) : ga[k] = h.gather[k]
    BY <2>2
  <2> HIDE DEF ga
  <2>4. PairsInv([resolver |-> re, gather |-> ga])
    BY <1>7, <2>1, <2>3 DEF PairsInv
  <2> QED
    BY <2>1, <2>2, <2>3, <2>4 DEF W
<1>9. g = NewResolver(h, p, holder)
  BY DEF NewResolver, new, nothing
<1> HIDE DEF re, ga, W
<1>10. g \in MemoryOf(W)
  BY <1>3, <1>7, <1>8 DEF MemoryOf, R
<1>11. /\ g.made = h.made /\ g.state = h.state /\ g.value = h.value /\ g.deferreds = h.deferreds
       /\ g.handler = h.handler /\ g.queue = h.queue /\ g.hung = h.hung /\ g.waiting = h.waiting
       /\ g.answer = h.answer /\ g.resolver = re /\ g.gather = ga /\ g.flush = h.flush
  BY <1>3 DEF MemoryOf
<1> HIDE DEF g
<1>12. IsMemory(g)
  BY <1>10 DEF IsMemory
<1>13. Widens(h, g)
  BY <1>1, <1>7, <1>11, FollowsMade DEF Widens, StateInv
<1>14. \A d : IsWaiting(g, d) <=> IsWaiting(h, d)
  BY <1>11 DEF IsWaiting, Of
<1> DEFINE n == Len(h.resolver) + 1
<1>15. /\ DOMAIN g.resolver = DOMAIN h.resolver \cup {n} /\ n \notin DOMAIN h.resolver
       /\ g.resolver[n].promise = p /\ ~g.resolver[n].done
       /\ \A k \in DOMAIN h.resolver : g.resolver[k] = h.resolver[k]
  BY <1>6, <1>7, <1>11
<1> HIDE DEF n
<1>16. OwnerInv(g)
  <2> SUFFICES ASSUME NEW r \in DOMAIN g.resolver
               PROVE  LET q == g.resolver[r].promise
                      IN /\ q <= g.made
                         /\ ~g.resolver[r].done =>
                              /\ g.state[q] = "pending" /\ ~IsWaiting(g, q)
                              /\ \A k \in DOMAIN g.resolver \ {r} :
                                   g.resolver[k].promise = q => g.resolver[k].done
    BY Zenon DEF OwnerInv
  <2>1. CASE r = n
    <3>1. \A k \in DOMAIN h.resolver : h.resolver[k].promise = p => h.resolver[k].done
      BY DEF Free
    <3>2. h.state[p] = "pending" /\ ~IsWaiting(h, p)
      BY DEF Free
    <3> QED
      BY <1>5, <1>11, <1>14, <1>15, <2>1, <3>1, <3>2
  <2>2. CASE r # n
    <3>1. r \in DOMAIN h.resolver /\ g.resolver[r] = h.resolver[r]
      BY <1>15, <2>2
    <3>2. h.resolver[r].promise = p => h.resolver[r].done
      BY <3>1 DEF Free
    <3> QED
      BY <1>1, <1>11, <1>14, <1>15, <3>1, <3>2 DEF OwnerInv
  <2> QED
    BY <2>1, <2>2
<1>17. MemoryInv(g) /\ Extends(h, g)
  <2>1. PairsInv(g)
    BY <1>8, <1>11 DEF PairsInv
  <2> QED
    BY <1>12, <1>13, <1>16, <2>1, WidensInv
<1>18. Spares(h, g, p)
  BY <1>11, <1>14, <1>15 DEF Spares, Free
<1>19. ItemsOf(g, n) = <<>>
  BY <1>8, <1>11, <1>15 DEF ItemsOf, n
<1>20. ASSUME NEW r PROVE Leaves(h, g, r)
  <2>1. CASE r \in DOMAIN h.resolver
    BY <1>7, <1>8, <1>11, <1>14, <1>15, <2>1 DEF Leaves, ItemsOf
  <2>2. CASE r \notin DOMAIN h.resolver
    <3>1. ItemsOf(h, r) = <<>> /\ ItemsOf(g, r) = <<>>
      BY <1>15, <1>19, <2>2 DEF ItemsOf
    <3> QED
      BY <2>2, <3>1 DEF Leaves
  <2> QED
    BY <2>1, <2>2
<1> QED
  BY <1>6, <1>7, <1>9, <1>11, <1>17, <1>18, <1>19, <1>20 DEF Keeps, n, IsNewPair

-----------------------------------------------------------------------------
(* The functions of core.js *)

\* What a script or a handler may give to resolve or reject.
Possible(h, x) == IsPromise(x) => x[2] \in 1..h.made

LEMMA FreeMade ==
  ASSUME NEW h, MemoryInv(h), NEW p, Free(h, p)
  PROVE  p \in Promises
BY FollowsMade DEF Free, MemoryInv, CoreInv

LEMMA RejectInv ==
  ASSUME NEW h, MemoryInv(h), NEW p, Free(h, p), NEW x, Possible(h, x)
  PROVE  LET g == Reject(h, p, x)
         IN /\ Keeps(h, g, p) /\ g.made = h.made /\ g.resolver = h.resolver
            /\ OutcomeOf(g, p) = <<"rejected", x>>
<1>1. CanSettle(h, "rejected", x)
  BY DEF CanSettle, Possible
<1> QED
  BY <1>1, SettleInv DEF Reject

LEMMA ResolveInv ==
  ASSUME NEW h, MemoryInv(h), NEW p, Free(h, p), NEW x, Possible(h, x)
  PROVE  LET g == Resolve(h, p, x)
         IN /\ Keeps(h, g, p) /\ g.made = h.made
            /\ ~IsPromise(x) /\ x # Thenable =>
                 g.resolver = h.resolver /\ OutcomeOf(g, p) = <<"fulfilled", x>>
<1>1. ~IsPromise(Thenable) /\ ~IsPromise(SelfResolution) /\ IsPromise(Ref(p))
  BY DEF IsPromise, Thenable, SelfResolution, Ref
<1>2. CASE x = Ref(p)
  <2>1. Resolve(h, p, x) = Reject(h, p, SelfResolution)
    BY <1>1, <1>2 DEF Resolve
  <2>2. Possible(h, SelfResolution)
    BY <1>1 DEF Possible
  <2>3. Keeps(h, Reject(h, p, SelfResolution), p) /\ Reject(h, p, SelfResolution).made = h.made
    BY <2>2, RejectInv
  <2>4. IsPromise(x)
    BY <1>1, <1>2
  <2> QED
    BY <2>1, <2>3, <2>4
<1>3. CASE IsPromise(x) /\ x # Ref(p)
  <2>1. Resolve(h, p, x) = Settle(h, p, "following", x)
    BY <1>1, <1>3 DEF Resolve
  <2>2. CanSettle(h, "following", x)
    BY <1>3 DEF CanSettle, Possible
  <2> QED
    BY <1>3, <2>1, <2>2, SettleInv
<1>4. CASE x = Thenable
  <2>1. Resolve(h, p, x) = NewResolver(h, p, "script")
    BY <1>1, <1>4 DEF Resolve
  <2> DEFINE g == NewResolver(h, p, "script")
  <2>2. Keeps(h, g, p) /\ g.made = h.made
    BY NewResolverInv
  <2>3. Resolve(h, p, x) = g
    BY <2>1
  <2> HIDE DEF g
  <2> QED
    BY <1>4, <2>2, <2>3
<1>5. CASE ~IsPromise(x) /\ x # Thenable
  <2>1. Resolve(h, p, x) = Settle(h, p, "fulfilled", x)
    BY <1>1, <1>5 DEF Resolve
  <2>2. CanSettle(h, "fulfilled", x)
    BY <1>5 DEF CanSettle
  <2> QED
    BY <2>1, <2>2, SettleInv
<1> QED
  BY <1>2, <1>3, <1>4, <1>5

\* Only the first call of the two functions counts: the promise was settled by no other.
LEMMA CallResolveInv ==
  ASSUME NEW h, MemoryInv(h), NEW r \in DOMAIN h.resolver, NEW x, Possible(h, x)
  PROVE  LET g == CallResolve(h, r, x)
         IN /\ Goes(h, g, r) /\ g.made = h.made
            /\ ~h.resolver[r].done /\ ~IsPromise(x) /\ x # Thenable =>
                 /\ g.resolver[r].done
                 /\ OutcomeOf(g, h.resolver[r].promise) = <<"fulfilled", x>>
<1>1. CASE h.resolver[r].done
  BY <1>1, GoesSelf DEF CallResolve
<1>2. CASE ~h.resolver[r].done
  <2> DEFINE f == [h EXCEPT !.resolver[r].done = TRUE]
             p == h.resolver[r].promise
  <2>1. /\ Goes(h, f, r) /\ Free(f, p) /\ f.made = h.made /\ MemoryInv(f)
        /\ f.resolver[r].done
    BY <1>2, DoneInv DEF Goes, Passes
  <2>2. CallResolve(h, r, x) = Resolve(f, p, x)
    BY <1>2 DEF CallResolve
  <2>3. ~Free(h, p)
    BY <1>2 DEF Free
  <2>4. p = h.resolver[r].promise
    OBVIOUS
  <2> HIDE DEF f, p
  <2> DEFINE g == Resolve(f, p, x)
  <2>5. /\ Keeps(f, g, p) /\ g.made = f.made
        /\ ~IsPromise(x) /\ x # Thenable =>
             g.resolver = f.resolver /\ OutcomeOf(g, p) = <<"fulfilled", x>>
    BY <2>1, ResolveInv DEF Possible
  <2> HIDE DEF g
  <2>6. Goes(h, g, r)
    BY <2>1, <2>3, <2>5, GoesKeeps
  <2> QED
    BY <2>1, <2>2, <2>4, <2>5, <2>6 DEF g
<1> QED
  BY <1>1, <1>2

LEMMA CallRejectInv ==
  ASSUME NEW h, MemoryInv(h), NEW r \in DOMAIN h.resolver, NEW x, Possible(h, x)
  PROVE  LET g == CallReject(h, r, x)
         IN /\ Goes(h, g, r) /\ g.made = h.made
            /\ ~h.resolver[r].done =>
                 /\ g.resolver[r].done
                 /\ OutcomeOf(g, h.resolver[r].promise) = <<"rejected", x>>
<1>1. CASE h.resolver[r].done
  BY <1>1, GoesSelf DEF CallReject
<1>2. CASE ~h.resolver[r].done
  <2> DEFINE f == [h EXCEPT !.resolver[r].done = TRUE]
             p == h.resolver[r].promise
  <2>1. /\ Goes(h, f, r) /\ Free(f, p) /\ f.made = h.made /\ MemoryInv(f)
        /\ f.resolver[r].done
    BY <1>2, DoneInv DEF Goes, Passes
  <2>2. CallReject(h, r, x) = Reject(f, p, x)
    BY <1>2 DEF CallReject
  <2>3. ~Free(h, p)
    BY <1>2 DEF Free
  <2>4. p = h.resolver[r].promise
    OBVIOUS
  <2> HIDE DEF f, p
  <2> DEFINE g == Reject(f, p, x)
  <2>5. /\ Keeps(f, g, p) /\ g.made = f.made
        /\ g.resolver = f.resolver /\ OutcomeOf(g, p) = <<"rejected", x>>
    BY <2>1, RejectInv DEF Possible
  <2> HIDE DEF g
  <2>6. Goes(h, g, r)
    BY <2>1, <2>3, <2>5, GoesKeeps
  <2> QED
    BY <2>1, <2>2, <2>4, <2>5, <2>6 DEF g
<1> QED
  BY <1>1, <1>2

LEMMA NewPromiseInv ==
  ASSUME NEW h, MemoryInv(h), h.made + 1 <= MaxPromises, NEW holder
  PROVE  LET g == NewPromise(h, holder)
         IN /\ \A k : Goes(h, g, k)
            /\ g.made = h.made + 1
            /\ IsNewPair(g, Len(h.resolver) + 1, h.made + 1, holder)
<1> DEFINE p == h.made + 1
           f == [h EXCEPT !.made = @ + 1]
<1>1. Keeps(h, f, p) /\ Free(f, p) /\ f.made = p /\ f.resolver = h.resolver
  BY MadeInv
<1>2. NewPromise(h, holder) = NewResolver(f, p, holder)
  BY DEF NewPromise
<1>3. h.made \in Nat
  BY FollowsMade DEF MemoryInv, CoreInv
<1>4. ~Free(h, p)
  BY <1>3 DEF Free
<1> HIDE DEF f, p
<1> DEFINE g == NewResolver(f, p, holder)
           n == Len(f.resolver) + 1
<1>5. Keeps(f, g, p) /\ g.made = f.made /\ IsNewPair(g, n, p, holder)
  BY <1>1, NewResolverInv DEF Keeps
<1> HIDE DEF g
<1>6. \A k : Goes(h, g, k)
  BY <1>1, <1>4, <1>5, KeepsTrans, KeepsGoes
<1> QED
  BY <1>1, <1>2, <1>5, <1>6 DEF p, g

LEMMA ResolvedPromiseInv ==
  ASSUME NEW h, MemoryInv(h), h.made + 1 <= MaxPromises, NEW x, Possible(h, x)
  PROVE  LET res == ResolvedPromise(h, x)
         IN (\A k : Goes(h, res[1], k)) /\ res[2] \in 1..res[1].made /\ res[1].made <= h.made + 1
<1>1. h.made \in Nat /\ ~IsPromise(Thenable)
  BY FollowsMade DEF MemoryInv, CoreInv, IsPromise, Thenable
<1>2. CASE IsPromise(x)
  <2>1. ResolvedPromise(h, x) = <<h, x[2]>>
    BY <1>1, <1>2 DEF ResolvedPromise
  <2> QED
    BY <1>1, <1>2, <2>1, GoesSelf DEF Possible
<1>3. CASE x = Thenable
  <2>1. ResolvedPromise(h, x) = <<NewPromise(h, "script"), h.made + 1>>
    BY <1>1, <1>3 DEF ResolvedPromise
  <2>2. (\A k : Goes(h, NewPromise(h, "script"), k)) /\ NewPromise(h, "script").made = h.made + 1
    BY NewPromiseInv
  <2> QED
    BY <1>1, <2>1, <2>2
<1>4. CASE ~IsPromise(x) /\ x # Thenable
  <2> DEFINE p == h.made + 1
             f == [h EXCEPT !.made = @ + 1]
             g == Settle(f, p, "fulfilled", x)
  <2>1. ResolvedPromise(h, x) = <<g, p>>
    BY <1>4 DEF ResolvedPromise
  <2>2. Keeps(h, f, p) /\ Free(f, p) /\ f.made = p
    BY MadeInv
  <2>3. ~Free(h, p) /\ p \in 1..p
    BY <1>1 DEF Free
  <2>4. p <= h.made + 1
    BY <1>1
  <2> HIDE DEF f, p
  <2>5. Keeps(f, g, p) /\ g.made = f.made
    BY <1>4, <2>2, SettleInv DEF Keeps, CanSettle
  <2>6. \A k : Goes(h, g, k)
    BY <2>2, <2>3, <2>5, KeepsTrans, KeepsGoes
  <2> QED
    BY <2>1, <2>2, <2>3, <2>4, <2>5, <2>6
<1> QED
  BY <1>2, <1>3, <1>4

\* g is h with one more handler, d, that waits for p.
IsGiven(h, g, p, d, onFulfilled, onRejected) ==
  /\ g.made = d /\ g.state = h.state /\ g.value = h.value /\ g.deferreds = h.deferreds
  /\ g.resolver = h.resolver /\ g.queue = h.queue /\ g.hung = h.hung /\ g.answer = h.answer
  /\ Of(g, d) = p /\ \A e \in Promises \ {d} : g.handler[e] = h.handler[e]
  /\ g.handler[d].onFulfilled = onFulfilled /\ g.handler[d].onRejected = onRejected
  /\ g.waiting[p] = Append(h.waiting[p], d)
  /\ \A q \in Promises \ {p} : g.waiting[q] = h.waiting[q]
  /\ g.gather = h.gather /\ g.flush = h.flush

LEMMA GivenInv ==
  ASSUME NEW h, MemoryInv(h), NEW p \in 1..h.made, NEW d, d = h.made + 1, d <= MaxPromises,
         NEW onFulfilled, NEW onRejected, IsCallback(h, onFulfilled), IsCallback(h, onRejected),
         NEW g, IsMemory(g), IsGiven(h, g, p, d, onFulfilled, onRejected)
  PROVE  /\ CoreInv(g) /\ Loose(g, p, <<d>>) /\ Extends(h, g)
         /\ \A q \in Promises : Free(h, q) => Free(g, q)
         /\ ~IsWaiting(h, d) /\ \A e \in Promises : IsWaiting(g, e) <=> IsWaiting(h, e) \/ e = d
<1>1. /\ IsMemory(h) /\ StateInv(h) /\ WaitingInv(h) /\ DeferredInv(h)
      /\ QueueInv(h) /\ OwnerInv(h) /\ CallbackInv(h) /\ PlacedInv(h)
  BY DEF MemoryInv, CoreInv
<1>2. h.made \in Nat /\ p \in Promises /\ d \in Promises /\ d \in Nat
  BY <1>1, FollowsMade, MaxPromisesAssumption DEF Promises
<1>3. /\ h.deferreds \in [Promises -> Seq(Promises)]
      /\ h.queue \in Seq(Promises \X Promises)
      /\ h.waiting \in [Promises -> Seq(Promises)]
      /\ \A e \in Promises : Of(h, e) \in Promises
      /\ Len(h.resolver) \in Nat /\ DOMAIN h.resolver = 1..Len(h.resolver)
      /\ \A r \in DOMAIN h.resolver : h.resolver[r].promise \in Promises
  BY <1>1, Fields
<1>4. \A q \in Promises : q \in Nat
  BY MaxPromisesAssumption DEF Promises
<1>5. \A e \in Promises : e <= h.made => e # d /\ e < d /\ e <= d
  BY <1>2, <1>4
<1>6. \A q \in Promises : \A i \in DOMAIN h.waiting[q] :
        h.waiting[q][i] \in Promises /\ h.waiting[q][i] <= h.made /\ Of(h, h.waiting[q][i]) = q
  BY <1>1, <1>3 DEF WaitingInv
<1>7. \A e \in Promises : IsWaiting(h, e) => e <= h.made /\ e # d
  BY <1>3, <1>5, <1>6 DEF IsWaiting
<1>8. /\ \A e \in Promises \ {d} : Of(g, e) = Of(h, e)
      /\ Of(g, d) = p
  BY DEF Of, IsGiven
<1>9. /\ DOMAIN g.waiting[p] = DOMAIN h.waiting[p] \cup {Len(h.waiting[p]) + 1}
      /\ g.waiting[p][Len(h.waiting[p]) + 1] = d
      /\ \A i \in DOMAIN h.waiting[p] : g.waiting[p][i] = h.waiting[p][i] /\ i < Len(h.waiting[p]) + 1
      /\ Len(g.waiting[p]) = Len(h.waiting[p]) + 1 /\ Len(h.waiting[p]) \in Nat
  <2>1. h.waiting[p] \in Seq(Promises) /\ g.waiting[p] = Append(h.waiting[p], d)
    BY <1>2, <1>3 DEF IsGiven
  <2> DEFINE w == h.waiting[p]
             n == Len(w)
  <2>2. /\ n \in Nat /\ DOMAIN w = 1..n /\ Len(Append(w, d)) = n + 1
        /\ DOMAIN Append(w, d) = 1..(n + 1) /\ Append(w, d)[n + 1] = d
        /\ \A i \in 1..n : Append(w, d)[i] = w[i]
    BY <1>2, <2>1
  <2>3. 1..(n + 1) = 1..n \cup {n + 1} /\ \A i \in 1..n : i < n + 1
    BY <2>2
  <2> QED
    BY <2>1, <2>2, <2>3
<1>10. \A e \in Promises : IsWaiting(g, e) <=> IsWaiting(h, e) \/ e = d
  <2>1. IsWaiting(g, d)
    BY <1>8, <1>9 DEF IsWaiting
  <2>2. ASSUME NEW e \in Promises \ {d} PROVE IsWaiting(g, e) <=> IsWaiting(h, e)
    <3>1. CASE Of(h, e) = p
      <4>1. IsWaiting(g, e) <=> \E i \in DOMAIN g.waiting[p] : g.waiting[p][i] = e
        BY <1>8, <3>1 DEF IsWaiting
      <4>2. IsWaiting(h, e) <=> \E i \in DOMAIN h.waiting[p] : h.waiting[p][i] = e
        BY <3>1 DEF IsWaiting
      <4>3. e # d
        OBVIOUS
      <4> QED
        BY <1>9, <4>1, <4>2, <4>3
    <3>2. CASE Of(h, e) # p
      <4>1. g.waiting[Of(h, e)] = h.waiting[Of(h, e)]
        BY <1>3, <3>2 DEF IsGiven
      <4> QED
        BY <1>8, <4>1 DEF IsWaiting
    <3> QED
      BY <3>1, <3>2
  <2> QED
    BY <2>1, <2>2
<1>11. \A q \in Promises : Root(g, q) = Root(h, q)
  <2>1. FollowAlike(h, g)
    BY DEF IsGiven, FollowAlike
  <2> QED
    BY <2>1, RootAlike
<1>12. \A q : IsASettled(g, q) <=> IsASettled(h, q)
  BY DEF IsASettled, IsGiven
<1>13. /\ \A e : IsPlaced(g, e) <=> IsPlaced(h, e)
       /\ Tasked(g) = Tasked(h)
  BY DEF IsPlaced, Tasked, IsGiven
<1>14. /\ \A q \in Promises : \A i \in DOMAIN h.deferreds[q] :
            LET e == h.deferreds[q][i]
            IN e \in Promises /\ e # d /\ IsWaiting(h, e) /\ Root(h, Of(h, e)) = q /\ e <= h.made
       /\ \A i \in DOMAIN h.queue :
            LET e == h.queue[i][2]
            IN /\ e \in Promises /\ e # d /\ IsWaiting(h, e) /\ Root(h, Of(h, e)) = h.queue[i][1]
               /\ e <= h.made
  <2>1. \A q \in Promises : \A i \in DOMAIN h.deferreds[q] : h.deferreds[q][i] \in Promises
    BY <1>3
  <2>2. \A i \in DOMAIN h.queue : h.queue[i][2] \in Promises
    BY <1>3
  <2> QED
    BY <1>1, <1>7, <2>1, <2>2 DEF DeferredInv, QueueInv
<1>15. StateInv(g)
  <2>1. 1..h.made \subseteq 1..d
    BY <1>2
  <2> QED
    BY <1>1, <1>5, <2>1 DEF StateInv, IsGiven
<1>16. WaitingInv(g)
  <2> SUFFICES /\ \A q \in Promises : \A i \in DOMAIN g.waiting[q] :
                    LET e == g.waiting[q][i]
                    IN /\ e <= g.made /\ Of(g, e) = q
                       /\ g.answer[e] = NoOutcome /\ g.state[e] = "pending"
                       /\ \A j \in DOMAIN g.waiting[q] : i < j => e < g.waiting[q][j]
               /\ \A e \in Promises : e > g.made => g.answer[e] = NoOutcome
    BY Zenon DEF WaitingInv
  <2>1. h.answer[d] = NoOutcome /\ h.state[d] = "pending"
    <3>1. d > h.made /\ ~(d <= h.made)
      BY <1>2
    <3> QED
      BY <1>1, <1>2, <3>1 DEF WaitingInv, StateInv
  <2>2. \A e \in Promises : e > g.made => g.answer[e] = NoOutcome
    <3>1. \A e \in Promises : e > d => e > h.made
      BY <1>2, <1>4
    <3> QED
      BY <1>1, <3>1 DEF WaitingInv, IsGiven
  <2>3. ASSUME NEW q \in Promises, NEW i \in DOMAIN h.waiting[q]
        PROVE  LET e == h.waiting[q][i]
               IN /\ e <= g.made /\ Of(g, e) = q /\ e < d
                  /\ g.answer[e] = NoOutcome /\ g.state[e] = "pending"
                  /\ \A j \in DOMAIN h.waiting[q] : i < j => e < h.waiting[q][j]
    <3>1. h.waiting[q][i] <= h.made /\ h.waiting[q][i] \in Promises \ {d}
      BY <1>5, <1>6
    <3> QED
      BY <1>1, <1>5, <1>8, <3>1 DEF WaitingInv, IsGiven
  <2>4. ASSUME NEW q \in Promises, NEW i \in DOMAIN g.waiting[q]
        PROVE  LET e == g.waiting[q][i]
               IN /\ e <= g.made /\ Of(g, e) = q
                  /\ g.answer[e] = NoOutcome /\ g.state[e] = "pending"
                  /\ \A j \in DOMAIN g.waiting[q] : i < j => e < g.waiting[q][j]
    <3>1. CASE q # p
      BY <2>3, <3>1 DEF IsGiven
    <3>2. CASE q = p /\ i \in DOMAIN h.waiting[p]
      <4>1. g.waiting[q][i] = h.waiting[q][i]
        BY <1>9, <3>2
      <4>2. \A j \in DOMAIN g.waiting[q] :
              \/ j \in DOMAIN h.waiting[q] /\ g.waiting[q][j] = h.waiting[q][j]
              \/ g.waiting[q][j] = d
        BY <1>9, <3>2
      <4> QED
        BY <2>3, <3>2, <4>1, <4>2
    <3>3. CASE q = p /\ i = Len(h.waiting[p]) + 1
      <4>1. g.waiting[q][i] = d /\ g.made = d /\ d <= d
        BY <1>2, <1>9, <3>3 DEF IsGiven
      <4>2. \A j \in DOMAIN g.waiting[q] : ~(i < j)
        <5>1. DOMAIN h.waiting[p] = 1..Len(h.waiting[p])
          BY <1>2, <1>3
        <5> QED
          BY <1>9, <3>3, <5>1
      <4> QED
        BY <1>8, <2>1, <3>3, <4>1, <4>2 DEF IsGiven
    <3> QED
      BY <1>9, <3>1, <3>2, <3>3
  <2> QED
    BY <2>2, <2>4
<1>17. DeferredInv(g)
  <2> SUFFICES ASSUME NEW q \in Promises
               PROVE  /\ \A i \in DOMAIN g.deferreds[q] :
                           /\ IsWaiting(g, g.deferreds[q][i])
                           /\ Root(g, Of(g, g.deferreds[q][i])) = q
                      /\ InOrder(g, g.deferreds[q])
    BY DEF DeferredInv
  <2>1. g.deferreds[q] = h.deferreds[q]
    BY DEF IsGiven
  <2>2. \A i \in DOMAIN h.deferreds[q] :
          /\ IsWaiting(g, h.deferreds[q][i]) /\ Root(g, Of(g, h.deferreds[q][i])) = q
          /\ Of(g, h.deferreds[q][i]) = Of(h, h.deferreds[q][i])
    BY <1>3, <1>8, <1>10, <1>11, <1>14
  <2>3. InOrder(h, h.deferreds[q])
    BY <1>1 DEF DeferredInv
  <2> QED
    BY <2>1, <2>2, <2>3 DEF InOrder
<1>18. QueueInv(g)
  <2>1. g.queue = h.queue
    BY DEF IsGiven
  <2>2. \A i \in DOMAIN h.queue :
          /\ IsWaiting(g, h.queue[i][2]) /\ Root(g, Of(g, h.queue[i][2])) = h.queue[i][1]
          /\ Of(g, h.queue[i][2]) = Of(h, h.queue[i][2])
    BY <1>3, <1>8, <1>10, <1>11, <1>14
  <2>3. InOrder(g, Tasked(g))
    <3>1. DOMAIN Tasked(h) = DOMAIN h.queue /\ \A i \in DOMAIN h.queue : Tasked(h)[i] = h.queue[i][2]
      BY DEF Tasked
    <3>2. InOrder(h, Tasked(h))
      BY <1>1 DEF QueueInv
    <3> QED
      BY <1>13, <2>2, <3>1, <3>2 DEF InOrder
  <2>4. \A i \in DOMAIN h.queue : IsASettled(g, h.queue[i][1])
    BY <1>1, <1>12 DEF QueueInv
  <2> QED
    BY <2>1, <2>2, <2>3, <2>4 DEF QueueInv
<1>19. OwnerInv(g)
  <2>1. \A r \in DOMAIN h.resolver : h.resolver[r].promise <= h.made /\ h.resolver[r].promise # d
    BY <1>1, <1>3, <1>5 DEF OwnerInv
  <2>2. \A r \in DOMAIN h.resolver : IsWaiting(g, h.resolver[r].promise) <=> IsWaiting(h, h.resolver[r].promise)
    BY <1>3, <1>10, <2>1
  <2>3. \A r \in DOMAIN h.resolver : h.resolver[r].promise <= d
    BY <1>3, <1>5, <2>1
  <2> QED
    BY <1>1, <2>2, <2>3 DEF OwnerInv, IsGiven
<1>20. CallbackInv(g)
  <2>1. \A cb : IsCallback(g, cb) <=> IsCallback(h, cb)
    BY DEF IsCallback, IsGiven
  <2> QED
    BY <1>1, <2>1 DEF CallbackInv, IsGiven
<1>21. Loose(g, p, <<d>>)
  <2> DEFINE ds == <<d>>
  <2>1. DOMAIN ds = {1} /\ ds[1] = d
    OBVIOUS
  <2> HIDE DEF ds
  <2>2. IsWaiting(g, d) /\ Root(g, Of(g, d)) = Root(g, p)
    BY <1>2, <1>8, <1>10
  <2>3. ASSUME NEW e \in Promises, IsPlaced(g, e) PROVE e < d
    <3>1. IsPlaced(h, e)
      BY <1>13, <2>3
    <3>2. e <= h.made
      BY <1>14, <3>1 DEF IsPlaced
    <3> QED
      BY <1>5, <3>2
  <2>4. InOrder(g, ds)
    BY <2>1 DEF InOrder
  <2>5. ~g.hung => \A e \in Promises : IsWaiting(g, e) => IsPlaced(g, e) \/ e = d
    BY <1>1, <1>10, <1>13 DEF PlacedInv, IsGiven
  <2>6. Loose(g, p, ds)
    BY <2>1, <2>2, <2>3, <2>4, <2>5 DEF Loose
  <2> QED
    BY <2>6 DEF ds
<1>22. Extends(h, g)
  <2>1. \A q \in Promises : OutcomeOf(g, q) = OutcomeOf(h, q)
    BY <1>11 DEF OutcomeOf, IsGiven
  <2>2. ASSUME NEW q \in Promises
        PROVE  /\ Len(h.waiting[q]) <= Len(g.waiting[q])
               /\ \A i \in DOMAIN h.waiting[q] : g.waiting[q][i] = h.waiting[q][i]
    <3>1. CASE q = p
      BY <1>9, <3>1
    <3>2. CASE q # p
      <4>1. g.waiting[q] = h.waiting[q] /\ Len(h.waiting[q]) \in Nat
        BY <1>3, <3>2 DEF IsGiven
      <4> QED
        BY <4>1
    <3> QED
      BY <3>1, <3>2
  <2>3. /\ h.made <= g.made /\ Len(h.resolver) <= Len(g.resolver) /\ g.answer = h.answer
        /\ g.hung = h.hung
    BY <1>2, <1>3 DEF IsGiven
  <2>4. ASSUME NEW q \in Promises
        PROVE  /\ h.state[q] = "following" => g.state[q] = "following" /\ g.value[q] = h.value[q]
               /\ IsWaiting(h, q) => IsWaiting(g, q) /\ g.handler[q] = h.handler[q]
    BY <1>7, <1>10 DEF IsGiven
  <2> QED
    BY <2>1, <2>2, <2>3, <2>4 DEF Extends
<1>23. ASSUME NEW q \in Promises, Free(h, q) PROVE Free(g, q)
  <2>1. q <= h.made /\ q # d
    BY <1>2, <1>5, <1>23 DEF Free
  <2>2. q \in 1..d /\ ~IsWaiting(g, q)
    BY <1>2, <1>10, <1>23, <2>1 DEF Free
  <2> QED
    BY <1>23, <2>2 DEF Free, IsGiven
<1>24. FlushInv(g) /\ PairsInv(g)
  BY DEF IsGiven, MemoryInv, CoreInv, FlushInv, PairsInv
<1>25. ~IsWaiting(h, d)
  BY <1>2, <1>7
<1> QED
  BY <1>10, <1>15, <1>16, <1>17, <1>18, <1>19, <1>20, <1>21, <1>22, <1>23, <1>24, <1>25 DEF CoreInv

\* What g has more than h is a handler, d, of p.
Adds(h, g, p, d, onFulfilled, onRejected) ==
  /\ g.made = d /\ g.state = h.state /\ g.value = h.value
  /\ g.resolver = h.resolver /\ g.gather = h.gather
  /\ Of(g, d) = p /\ g.handler[d].onFulfilled = onFulfilled /\ g.handler[d].onRejected = onRejected
  /\ \A e \in Promises \ {d} : g.handler[e] = h.handler[e]
  /\ ~IsWaiting(h, d) /\ \A e \in Promises : IsWaiting(g, e) <=> IsWaiting(h, e) \/ e = d

LEMMA ThenInv ==
  ASSUME NEW h, MemoryInv(h), NEW p \in 1..h.made, h.made + 1 <= MaxPromises,
         NEW onFulfilled, NEW onRejected, IsCallback(h, onFulfilled), IsCallback(h, onRejected)
  PROVE  LET g == Then(h, p, onFulfilled, onRejected)
         IN /\ \A k : (\A r : r # k => ~About(onFulfilled, r) /\ ~About(onRejected, r))
                        => Goes(h, g, k)
            /\ MemoryInv(g) /\ g.made = h.made + 1
            /\ Adds(h, g, p, h.made + 1, onFulfilled, onRejected)
<1> DEFINE d == h.made + 1
           new == [of |-> p, onFulfilled |-> onFulfilled, onRejected |-> onRejected]
           ha == [h.handler EXCEPT ![d] = new]
           wa == [h.waiting EXCEPT ![p] = Append(@, d)]
           f == [h EXCEPT !.made = d, !.handler = ha, !.waiting = wa]
           g == HandleAll(f, p, <<d>>)
<1>1. /\ IsMemory(h) /\ h.made \in Nat /\ p \in Promises /\ d \in Promises /\ d \in Nat
  BY FollowsMade, MaxPromisesAssumption DEF MemoryInv, CoreInv, Promises
<1>2. Then(h, p, onFulfilled, onRejected) = g
  BY DEF Then, Handle
<1>3. PICK V : h \in MemoryOf(V)
  BY <1>1 DEF IsMemory
<1> DEFINE W == V \cup {onFulfilled, onRejected}
           H == [of : Promises, onFulfilled : W, onRejected : W]
<1>4. h \in MemoryOf(W)
  BY <1>3, MemoryGrows
<1>5. new \in H
  BY <1>1
<1>6. h.handler \in [Promises -> H] /\ h.waiting \in [Promises -> Seq(Promises)]
  BY <1>4 DEF MemoryOf
<1>7. /\ new.of = p /\ new.onFulfilled = onFulfilled /\ new.onRejected = onRejected
  OBVIOUS
<1> HIDE DEF new, H, d
<1>8. /\ ha \in [Promises -> H] /\ ha[d] = new /\ \A e \in Promises \ {d} : ha[e] = h.handler[e]
  BY <1>1, <1>5, <1>6
<1>9. /\ wa \in [Promises -> Seq(Promises)] /\ wa[p] = Append(h.waiting[p], d)
      /\ \A q \in Promises \ {p} : wa[q] = h.waiting[q]
  <2>1. Append(h.waiting[p], d) \in Seq(Promises)
    BY <1>1, <1>6
  <2> QED
    BY <1>1, <1>6, <2>1
<1> HIDE DEF ha, wa, W
<1>10. f \in MemoryOf(W)
  BY <1>1, <1>4, <1>8, <1>9 DEF MemoryOf, H
<1>11. /\ f.made = d /\ f.state = h.state /\ f.value = h.value /\ f.deferreds = h.deferreds
       /\ f.resolver = h.resolver /\ f.queue = h.queue /\ f.hung = h.hung /\ f.answer = h.answer
       /\ f.handler = ha /\ f.waiting = wa /\ f.gather = h.gather /\ f.flush = h.flush
  BY <1>4 DEF MemoryOf
<1> HIDE DEF f
<1>12. IsMemory(f)
  BY <1>10 DEF IsMemory
<1>13. IsGiven(h, f, p, d, onFulfilled, onRejected)
  BY <1>7, <1>8, <1>9, <1>11 DEF IsGiven, Of
<1>14. d = h.made + 1 /\ d <= MaxPromises
  BY DEF d
<1>15. /\ CoreInv(f) /\ Loose(f, p, <<d>>) /\ Extends(h, f)
       /\ \A q \in Promises : Free(h, q) => Free(f, q)
       /\ ~IsWaiting(h, d) /\ \A e \in Promises : IsWaiting(f, e) <=> IsWaiting(h, e) \/ e = d
  BY <1>12, <1>13, <1>14, GivenInv
<1>16. <<d>> \in Seq(Promises)
  BY <1>1
<1>17. MemoryInv(g)
  BY <1>1, <1>15, <1>16, HandleAllInv
<1>18. Alike(f, g) /\ g.gather = f.gather /\ (f.hung => g.hung)
  <2>1. Root(f, p) \in Promises
    BY <1>1, <1>15, FollowsMade, RootType DEF CoreInv
  <2>2. Alike(f, g) /\ HandedOver(f, g, Root(f, p), <<d>>)
    BY <1>12, <1>16, <2>1, HandleAllIs
  <2> QED
    BY <2>2 DEF HandedOver
<1> HIDE DEF g
<1>19. Extends(h, g)
  BY <1>15, <1>18, ExtendsAlike
<1>20. Spares(h, f, 0) /\ 0 \notin Promises
  BY <1>15 DEF Spares, Promises
<1>21. \A q \in Promises : Free(h, q) => Free(g, q)
  <2>1. Spares(h, g, 0)
    BY <1>18, <1>20, SparesAlike
  <2> QED
    BY <1>20, <2>1 DEF Spares
<1>22. Adds(h, g, p, d, onFulfilled, onRejected)
  <2>1. \A e : IsWaiting(g, e) <=> IsWaiting(f, e)
    BY <1>18 DEF Alike, IsWaiting, Of
  <2>2. /\ g.made = d /\ g.state = h.state /\ g.value = h.value /\ g.resolver = h.resolver
        /\ g.gather = h.gather /\ g.handler = f.handler
    BY <1>11, <1>18 DEF Alike
  <2> QED
    BY <1>13, <1>15, <2>1, <2>2 DEF Adds, IsGiven, Of
<1>23. ASSUME NEW r, ~About(onFulfilled, r), ~About(onRejected, r)
       PROVE  Leaves(h, g, r)
  <2>1. ItemsOf(g, r) = ItemsOf(h, r)
    BY <1>22 DEF ItemsOf, Adds
  <2>2. ASSUME NEW e \in Promises, IsWaiting(g, e), Concerns(g, e, r)
        PROVE  IsWaiting(h, e) /\ g.handler[e] = h.handler[e]
    BY <1>22, <1>23, <2>2 DEF Adds, Concerns
  <2> QED
    BY <1>22, <2>1, <2>2 DEF Leaves, Adds
<1>24. \A k : Stays(h, g, k)
  BY <1>22 DEF Stays, ItemsOf, Adds
<1> QED
  BY <1>2, <1>14, <1>17, <1>19, <1>21, <1>22, <1>23, <1>24 DEF Goes, Passes, Adds

-----------------------------------------------------------------------------
(* all, race and done *)

LEMMA GatherField ==
  ASSUME NEW h, MemoryInv(h), NEW r \in DOMAIN h.resolver, NEW x,
         NEW ga, ga = [h.gather EXCEPT ![r] = x], NEW g, g = [h EXCEPT !.gather = ga]
  PROVE  /\ Passes(h, g, r)
         /\ ItemsOf(g, r) = ItemsOf(h, r) => Goes(h, g, r)
         /\ g.gather = ga /\ g.gather[r] = x /\ Alike(h, g) /\ g.hung = h.hung
<1>1. PICK V : h \in MemoryOf(V)
  BY DEF MemoryInv, CoreInv, IsMemory
<1> DEFINE W == V \cup {ga}
<1>2. h \in MemoryOf(W) /\ ga \in W
  BY <1>1, MemoryGrows
<1> HIDE DEF W
<1>3. g \in MemoryOf(W)
  BY <1>2 DEF MemoryOf
<1>4. /\ Alike(h, g) /\ g.deferreds = h.deferreds /\ g.queue = h.queue /\ g.hung = h.hung
      /\ g.gather = ga /\ g.flush = h.flush
  BY <1>1 DEF MemoryOf, Alike
<1>5. FlushInv(g)
  BY <1>4 DEF FlushInv, MemoryInv, CoreInv
<1>6. PairsInv(g)
  <2>1. PICK G : h.gather \in Seq(G) /\ Len(h.gather) = Len(h.resolver)
    BY DEF MemoryInv, CoreInv, PairsInv
  <2> DEFINE H == G \cup {x}
  <2>2. h.gather \in Seq(H) /\ x \in H
    BY <2>1
  <2> HIDE DEF H
  <2>3. ga \in Seq(H) /\ Len(ga) = Len(h.gather)
    BY <2>1, <2>2, ExceptSeq, Fields DEF MemoryInv, CoreInv
  <2> QED
    BY <1>4, <2>1, <2>3 DEF PairsInv, Alike
<1>7. g.gather[r] = x /\ \A k : k # r => g.gather[k] = h.gather[k]
  <2>1. PICK G : h.gather \in Seq(G) /\ Len(h.gather) = Len(h.resolver)
    BY DEF MemoryInv, CoreInv, PairsInv
  <2>2. r \in DOMAIN h.gather
    BY <2>1, Fields DEF MemoryInv, CoreInv
  <2> QED
    BY <1>4, <2>1, <2>2
<1>8. IsMemory(g)
  BY <1>3 DEF IsMemory
<1> QED
  BY <1>4, <1>5, <1>6, <1>7, <1>8, Besides

LEMMA GatherWrite ==
  ASSUME NEW h, MemoryInv(h), NEW r \in DOMAIN h.resolver, NEW x
  PROVE  LET g == [h EXCEPT !.gather = [h.gather EXCEPT ![r] = x]]
         IN /\ Passes(h, g, r)
            /\ ItemsOf(g, r) = ItemsOf(h, r) => Goes(h, g, r)
            /\ g.gather[r] = x /\ Alike(h, g) /\ g.hung = h.hung
<1> DEFINE ga == [h.gather EXCEPT ![r] = x]
           g == [h EXCEPT !.gather = ga]
<1>1. ga = [h.gather EXCEPT ![r] = x] /\ g = [h EXCEPT !.gather = ga]
  OBVIOUS
<1> HIDE DEF ga, g
<1>2. /\ Passes(h, g, r)
      /\ ItemsOf(g, r) = ItemsOf(h, r) => Goes(h, g, r)
      /\ g.gather[r] = x /\ Alike(h, g) /\ g.hung = h.hung
  BY <1>1, GatherField
<1> QED
  BY <1>2 DEF g, ga

LEMMA ThrownField ==
  ASSUME NEW h, MemoryInv(h), NEW t
  PROVE  \A k : Goes(h, [h EXCEPT !.thrown = t], k)
<1> DEFINE g == [h EXCEPT !.thrown = t]
<1>1. PICK V : h \in MemoryOf(V)
  BY DEF MemoryInv, CoreInv, IsMemory
<1>2. h \in MemoryOf(V \cup {t})
  BY <1>1, MemoryGrows
<1>3. g \in MemoryOf(V \cup {t})
  BY <1>2 DEF MemoryOf
<1>4. /\ Alike(h, g) /\ g.deferreds = h.deferreds /\ g.queue = h.queue /\ g.hung = h.hung
      /\ g.gather = h.gather /\ g.flush = h.flush
  BY <1>1 DEF MemoryOf, Alike
<1> HIDE DEF g
<1>5. IsMemory(g) /\ FlushInv(g) /\ PairsInv(g)
  BY <1>3, <1>4 DEF IsMemory, FlushInv, PairsInv, Alike, MemoryInv, CoreInv
<1>6. \A k : ItemsOf(g, k) = ItemsOf(h, k)
  BY <1>4 DEF ItemsOf, Alike
<1> QED
  BY <1>4, <1>5, <1>6, Besides DEF g

LEMMA FlushField ==
  ASSUME NEW h, MemoryInv(h), NEW s, s = "idle" => h.queue = <<>>
  PROVE  \A k : Goes(h, [h EXCEPT !.flush = s], k)
<1> DEFINE g == [h EXCEPT !.flush = s]
<1>1. PICK V : h \in MemoryOf(V)
  BY DEF MemoryInv, CoreInv, IsMemory
<1>2. h \in MemoryOf(V \cup {s})
  BY <1>1, MemoryGrows
<1>3. g \in MemoryOf(V \cup {s})
  BY <1>2 DEF MemoryOf
<1>4. /\ Alike(h, g) /\ g.deferreds = h.deferreds /\ g.queue = h.queue /\ g.hung = h.hung
      /\ g.gather = h.gather /\ g.flush = s
  BY <1>1 DEF MemoryOf, Alike
<1> HIDE DEF g
<1>5. IsMemory(g) /\ FlushInv(g) /\ PairsInv(g)
  BY <1>3, <1>4 DEF IsMemory, FlushInv, PairsInv, Alike, MemoryInv, CoreInv
<1>6. \A k : ItemsOf(g, k) = ItemsOf(h, k)
  BY <1>4 DEF ItemsOf, Alike
<1> QED
  BY <1>4, <1>5, <1>6, Besides DEF g

LEMMA HungField ==
  ASSUME NEW h, MemoryInv(h)
  PROVE  LET g == [h EXCEPT !.hung = TRUE]
         IN (\A k : Goes(h, g, k)) /\ g.made = h.made /\ Alike(h, g) /\ g.gather = h.gather /\ g.hung
<1> DEFINE g == [h EXCEPT !.hung = TRUE]
<1>1. PICK V : h \in MemoryOf(V)
  BY DEF MemoryInv, CoreInv, IsMemory
<1>2. g \in MemoryOf(V)
  BY <1>1 DEF MemoryOf
<1>3. /\ Alike(h, g) /\ g.deferreds = h.deferreds /\ g.queue = h.queue /\ g.hung = TRUE
      /\ g.gather = h.gather /\ g.flush = h.flush
  BY <1>1 DEF MemoryOf, Alike
<1> HIDE DEF g
<1>4. IsMemory(g) /\ FlushInv(g) /\ PairsInv(g)
  BY <1>2, <1>3 DEF IsMemory, FlushInv, PairsInv, Alike, MemoryInv, CoreInv
<1>5. \A k : ItemsOf(g, k) = ItemsOf(h, k)
  BY <1>3 DEF ItemsOf, Alike
<1> QED
  BY <1>3, <1>4, <1>5, Besides DEF g, Alike

LEMMA PassesHolds ==
  ASSUME NEW h, NEW g, NEW k, MemoryInv(h), Passes(h, g, k), NEW r \in DOMAIN h.resolver
  PROVE  r \in DOMAIN g.resolver
<1>1. IsMemory(h) /\ IsMemory(g) /\ Len(h.resolver) <= Len(g.resolver)
  BY DEF Passes, Extends, MemoryInv, CoreInv
<1>2. /\ DOMAIN h.resolver = 1..Len(h.resolver) /\ DOMAIN g.resolver = 1..Len(g.resolver)
      /\ Len(h.resolver) \in Nat /\ Len(g.resolver) \in Nat
  BY <1>1, Fields
<1> QED
  BY <1>1, <1>2

LEMMA PassesPossible ==
  ASSUME NEW h, NEW g, NEW k, MemoryInv(h), Passes(h, g, k), NEW x, Possible(h, x)
  PROVE  Possible(g, x)
<1>1. h.made \in Nat /\ g.made \in Nat /\ h.made <= g.made
  BY FollowsMade DEF Passes, Extends, MemoryInv, CoreInv
<1> QED
  BY <1>1 DEF Possible

LEMMA GatherInv ==
  ASSUME NEW h, MemoryInv(h), NEW r \in DOMAIN h.resolver, NEW i, NEW x
  PROVE  LET g == Gather(h, r, i, x)
         IN Goes(h, g, r) /\ g.made = h.made
<1> DEFINE k == Keeping(h.gather[r], i, x)
           g == [h EXCEPT !.gather = [h.gather EXCEPT ![r] = k]]
           y == <<"array", g.gather[r].args>>
<1>1. Goes(h, g, r) /\ g.made = h.made /\ g.resolver = h.resolver
  <2>1. k.items = h.gather[r].items
    BY DEF Keeping
  <2> HIDE DEF k
  <2>2. /\ ItemsOf(g, r) = ItemsOf(h, r) => Goes(h, g, r)
        /\ g.gather[r] = k /\ Alike(h, g)
    BY GatherWrite
  <2> HIDE DEF g
  <2> QED
    BY <2>1, <2>2 DEF ItemsOf, Alike
<1>2. Gather(h, r, i, x) = IF g.gather[r].remaining = 0 THEN CallResolve(g, r, y) ELSE g
  BY DEF Gather
<1>3. Possible(g, y)
  BY DEF Possible, IsPromise
<1> HIDE DEF g, y
<1>4. Goes(g, CallResolve(g, r, y), r) /\ CallResolve(g, r, y).made = g.made
  BY <1>1, <1>3, CallResolveInv DEF Goes, Passes
<1> QED
  BY <1>1, <1>2, <1>4, GoesTrans

\* The promise that a chain ends at was made, like the one it starts with.
LEMMA RootMade ==
  ASSUME NEW h, MemoryInv(h), NEW p \in 1..h.made
  PROVE  Root(h, p) \in 1..h.made
<1>1. FollowsPromises(h) /\ 1..h.made \subseteq Promises
  BY FollowsMade DEF MemoryInv, CoreInv
<1> DEFINE S == 1..h.made
<1>2. p \in S \cap Promises
  BY <1>1
<1>3. \A q \in S \cap Promises : h.state[q] = "following" => h.value[q][2] \in S
  BY DEF MemoryInv, CoreInv, StateInv
<1> HIDE DEF S
<1>4. Root(h, p) \in S
  BY <1>1, <1>2, <1>3, RootStays
<1> QED
  BY <1>4 DEF S

\* The chains of g lead where those of h lead, and perhaps further.
LEMMA BasinGrows ==
  ASSUME NEW h, NEW g, Extends(h, g), NEW r \in Promises
  PROVE  Basin(h, r) \subseteq Basin(g, r)
<1>1. r \in Basin(g, r) /\ Closed(g, Basin(g, r)) /\ Basin(g, r) \in SUBSET Promises
  BY BasinStart, BasinClosed DEF Basin
<1>2. Closed(h, Basin(g, r))
  BY <1>1 DEF Closed, Extends
<1> QED
  BY <1>1, <1>2 DEF Basin

\* What leads to a promise ends where that one does.
LEMMA BasinEnd ==
  ASSUME NEW h, MemoryInv(h), NEW o \in Promises, NEW p \in Basin(h, o),
         h.state[Root(h, o)] # "following"
  PROVE  Root(h, p) = Root(h, o) /\ OutcomeOf(h, p) = OutcomeOf(h, o)
<1> DEFINE r == Root(h, o)
<1>1. FollowsPromises(h)
  BY FollowsMade DEF MemoryInv, CoreInv
<1>2. r \in Promises /\ o \in Basin(h, r)
  BY <1>1, RootType, RootBasin
<1>3. Closed(h, Basin(h, r)) /\ Basin(h, r) \in SUBSET Promises
  BY BasinClosed DEF Basin
<1> HIDE DEF r
<1>4. p \in Basin(h, r)
  BY <1>2, <1>3 DEF Basin
<1>5. Root(h, p) = r
  BY <1>1, <1>2, <1>4, BasinRoot DEF r
<1> QED
  BY <1>5 DEF OutcomeOf, r

\* What an item of all comes to.
Comes(h, x) == IF IsPromise(x) THEN OutcomeOf(h, x[2]) ELSE <<"fulfilled", x>>

LEMMA ComesStays ==
  ASSUME NEW h, MemoryInv(h), NEW g, Extends(h, g), NEW x, Possible(h, x), Comes(h, x) # NoOutcome
  PROVE  Comes(g, x) = Comes(h, x)
<1>1. IsPromise(x) => x[2] \in Promises
  BY FollowsMade DEF Possible, MemoryInv, CoreInv
<1> QED
  BY <1>1 DEF Comes, Extends

\* The pair of a call of all, with items that are no foreign thenables.
IsGathering(h, r) ==
  LET items == ItemsOf(h, r)
  IN items # <<>> /\ \A i \in DOMAIN items : items[i] # Thenable

\* Only the library calls it, and its items are promises that were made, or values.
IsCallOfAll(h, r) ==
  LET items == ItemsOf(h, r)
  IN /\ Len(items) \in Nat /\ DOMAIN items = 1..Len(items)
     /\ \A i \in DOMAIN items : Possible(h, items[i])
     /\ h.resolver[r].holder = "library"

\* Its promise is settled, as its items are.
AnswersItems(h, r) ==
  LET items == ItemsOf(h, r)
      out == OutcomeOf(h, h.resolver[r].promise)
  IN \/ /\ out[1] = "fulfilled"
        /\ \A i \in DOMAIN items : Comes(h, items[i]) = <<"fulfilled", out[2][2][i]>>
     \/ out[1] = "rejected" /\ \E i \in DOMAIN items : Comes(h, items[i]) = out

\* The handler d waits for the item i.
IsFor(h, d, r, i) ==
  LET x == ItemsOf(h, r)[i]
  IN /\ h.handler[d].onFulfilled = <<"gather", r, i>> /\ h.handler[d].onRejected = <<"reject", r>>
     /\ IsPromise(x) /\ x[2] \in Basin(h, Of(h, d))

\* It has the values of the items C, those of M are in hand, and one handler
\* waits for each of the others.
IsCollecting(h, r, C, M) ==
  LET items == ItemsOf(h, r)
      kept == h.gather[r]
      others == DOMAIN items \ (C \cup M)
  IN /\ C \in SUBSET (DOMAIN items \ M)
     /\ kept = [args |-> kept.args, remaining |-> kept.remaining, items |-> items]
     /\ kept.remaining = Len(items) - Cardinality(C) /\ kept.remaining # 0
     /\ DOMAIN kept.args = DOMAIN items
     /\ \A i \in C : Comes(h, items[i]) = <<"fulfilled", kept.args[i]>>
     /\ \A d \in Promises : IsWaiting(h, d) /\ Concerns(h, d, r)
                              => \E i \in others : IsFor(h, d, r, i)
     /\ \A d, e \in Promises : \A i \in others :
          IsWaiting(h, d) /\ IsFor(h, d, r, i) /\ IsWaiting(h, e) /\ IsFor(h, e, r, i) => d = e
     /\ ~h.hung => \A i \in others : \E d \in Promises : IsWaiting(h, d) /\ IsFor(h, d, r, i)

GatherAt(h, r, M) ==
  IsGathering(h, r) =>
    /\ IsCallOfAll(h, r)
    /\ IF h.resolver[r].done THEN AnswersItems(h, r) ELSE \E C : IsCollecting(h, r, C, M)

\* What was called with the items remains so, and so does its answer.
LEMMA CallStays ==
  ASSUME NEW h, MemoryInv(h), NEW g, MemoryInv(g), Extends(h, g), NEW r \in DOMAIN h.resolver, Stays(h, g, r)
  PROVE  /\ IsGathering(g, r) <=> IsGathering(h, r)
         /\ IsCallOfAll(h, r) => IsCallOfAll(g, r)
         /\ IsCallOfAll(h, r) /\ AnswersItems(h, r) => AnswersItems(g, r)
<1>1. ItemsOf(g, r) = ItemsOf(h, r) /\ g.resolver[r].promise = h.resolver[r].promise
  BY DEF Stays
<1>2. IsGathering(g, r) <=> IsGathering(h, r)
  BY <1>1 DEF IsGathering
<1>3. \A x : Possible(h, x) => Possible(g, x)
  <2>1. h.made \in Nat /\ g.made \in Nat /\ h.made <= g.made
    BY FollowsMade DEF Extends, MemoryInv, CoreInv
  <2> QED
    BY <2>1 DEF Possible
<1>4. IsCallOfAll(h, r) => IsCallOfAll(g, r)
  BY <1>1, <1>3 DEF IsCallOfAll, Stays
<1>5. ASSUME IsCallOfAll(h, r), AnswersItems(h, r) PROVE AnswersItems(g, r)
  <2> DEFINE items == ItemsOf(h, r)
             p == h.resolver[r].promise
             out == OutcomeOf(h, p)
  <2>1. p \in Promises
    BY Fields DEF MemoryInv, CoreInv
  <2>2. out[1] \in {"fulfilled", "rejected"} /\ NoOutcome[1] = "pending"
    BY <1>5 DEF AnswersItems, NoOutcome
  <2>3. OutcomeOf(g, p) = out
    BY <2>1, <2>2 DEF Extends
  <2>4. ASSUME NEW i \in DOMAIN items, Comes(h, items[i])[1] \in {"fulfilled", "rejected"}
        PROVE  Comes(g, items[i]) = Comes(h, items[i])
    <3>1. Possible(h, items[i])
      BY <1>5 DEF IsCallOfAll
    <3>2. Comes(h, items[i]) # NoOutcome
      BY <2>2, <2>4
    <3> QED
      BY <3>1, <3>2, ComesStays
  <2>5. CASE /\ out[1] = "fulfilled"
             /\ \A i \in DOMAIN items : Comes(h, items[i]) = <<"fulfilled", out[2][2][i]>>
    <3>1. \A i \in DOMAIN items : Comes(h, items[i])[1] = "fulfilled"
      BY <2>5
    <3> HIDE DEF items, out, p
    <3>2. \A i \in DOMAIN items : Comes(g, items[i]) = <<"fulfilled", out[2][2][i]>>
      BY <2>4, <2>5, <3>1
    <3> QED
      BY <1>1, <2>3, <2>5, <3>2 DEF AnswersItems, items, p
  <2>6. CASE out[1] = "rejected" /\ \E i \in DOMAIN items : Comes(h, items[i]) = out
    <3>1. PICK i \in DOMAIN items : Comes(h, items[i]) = out
      BY <2>6
    <3> HIDE DEF items, out, p
    <3>2. Comes(g, items[i]) = out
      BY <2>4, <2>6, <3>1
    <3> QED
      BY <1>1, <2>3, <2>6, <3>1, <3>2 DEF AnswersItems, items, p
  <2> QED
    BY <1>5, <2>5, <2>6 DEF AnswersItems
<1> QED
  BY <1>2, <1>4, <1>5

\* An answered call of all is never asked again.
LEMMA AnsweredStays ==
  ASSUME NEW h, MemoryInv(h), NEW r \in DOMAIN h.resolver, NEW M, GatherAt(h, r, M), h.resolver[r].done,
         NEW g, Goes(h, g, r), NEW K
  PROVE  GatherAt(g, r, K)
<1>1. g.resolver[r].done
  BY DEF Goes, Stays
<1> QED
  BY <1>1, CallStays DEF GatherAt, Goes, Passes

\* A call of all that is answered now.
LEMMA AnswerComes ==
  ASSUME NEW h, MemoryInv(h), NEW r \in DOMAIN h.resolver, NEW M, GatherAt(h, r, M), 
         NEW g, Goes(h, g, r), g.resolver[r].done, IsGathering(g, r) => AnswersItems(g, r), NEW K
  PROVE  GatherAt(g, r, K)
BY CallStays DEF GatherAt, Goes, Passes

\* Handlers that wait for an item still do.
LEMMA IsForStays ==
  ASSUME NEW h, MemoryInv(h), NEW g, Extends(h, g), NEW r, ItemsOf(g, r) = ItemsOf(h, r),
         NEW d \in Promises, g.handler[d] = h.handler[d], NEW i
  PROVE  IsFor(h, d, r, i) => IsFor(g, d, r, i)
<1>1. Of(g, d) = Of(h, d) /\ Of(h, d) \in Promises
  BY Fields DEF Of, MemoryInv, CoreInv
<1>2. Basin(h, Of(h, d)) \subseteq Basin(g, Of(h, d))
  BY <1>1, BasinGrows
<1> QED
  BY <1>1, <1>2 DEF IsFor

\* A step that leaves the pair alone changes nothing for the call of all.
LEMMA GatherLeft ==
  ASSUME NEW h, MemoryInv(h), NEW g, MemoryInv(g), Extends(h, g),
         NEW r \in DOMAIN h.resolver, Leaves(h, g, r), NEW M, GatherAt(h, r, M)
  PROVE  GatherAt(g, r, M)
<1>1. /\ ItemsOf(g, r) = ItemsOf(h, r) /\ g.resolver[r] = h.resolver[r] /\ g.gather[r] = h.gather[r]
      /\ \A d \in Promises :
           IsWaiting(g, d) /\ Concerns(g, d, r) => IsWaiting(h, d) /\ g.handler[d] = h.handler[d]
  BY DEF Leaves
<1>2. /\ IsGathering(g, r) <=> IsGathering(h, r)
      /\ IsCallOfAll(h, r) => IsCallOfAll(g, r)
      /\ IsCallOfAll(h, r) /\ AnswersItems(h, r) => AnswersItems(g, r)
  BY CallStays, LeavesStays
<1> SUFFICES ASSUME IsCallOfAll(h, r), NEW C, IsCollecting(h, r, C, M) PROVE IsCollecting(g, r, C, M)
  BY <1>1, <1>2 DEF GatherAt
<1> DEFINE items == ItemsOf(h, r)
           others == DOMAIN items \ (C \cup M)
<1>3. \A d \in Promises : IsWaiting(h, d) => IsWaiting(g, d) /\ g.handler[d] = h.handler[d]
  BY DEF Extends
<1>4. \A d \in Promises : \A i : g.handler[d] = h.handler[d] => (IsFor(h, d, r, i) => IsFor(g, d, r, i))
  BY <1>1, IsForStays
<1>5. \A d \in Promises : \A i : IsFor(g, d, r, i) => Concerns(g, d, r)
  BY DEF IsFor, Concerns, About
<1>6. ASSUME NEW i \in C PROVE Comes(g, items[i]) = <<"fulfilled", h.gather[r].args[i]>>
  <2>1. i \in DOMAIN items /\ Comes(h, items[i]) = <<"fulfilled", h.gather[r].args[i]>>
    BY DEF IsCollecting
  <2>2. Possible(h, items[i])
    BY <2>1 DEF IsCallOfAll
  <2>3. Comes(h, items[i]) # NoOutcome
    BY <2>1 DEF NoOutcome
  <2> HIDE DEF items
  <2> QED
    BY <2>1, <2>2, <2>3, ComesStays
<1>7. ASSUME NEW d \in Promises, IsWaiting(g, d), Concerns(g, d, r)
      PROVE  \E i \in others : IsFor(h, d, r, i) /\ IsFor(g, d, r, i)
  <2>1. IsWaiting(h, d) /\ g.handler[d] = h.handler[d]
    BY <1>1, <1>7
  <2>2. Concerns(h, d, r)
    BY <1>7, <2>1 DEF Concerns
  <2>3. PICK i \in others : IsFor(h, d, r, i)
    BY <2>1, <2>2 DEF IsCollecting
  <2> QED
    BY <1>4, <2>1, <2>3
<1>8. ASSUME NEW d \in Promises, NEW e \in Promises, NEW i \in others,
             IsWaiting(g, d), IsFor(g, d, r, i), IsWaiting(g, e), IsFor(g, e, r, i)
      PROVE  d = e
  <2>1. PICK j \in others : IsFor(h, d, r, j) /\ IsFor(g, d, r, j)
    BY <1>5, <1>7, <1>8
  <2>2. PICK k \in others : IsFor(h, e, r, k) /\ IsFor(g, e, r, k)
    BY <1>5, <1>7, <1>8
  <2>3. j = i /\ k = i
    BY <1>8, <2>1, <2>2 DEF IsFor
  <2>4. IsWaiting(h, d) /\ IsWaiting(h, e)
    BY <1>1, <1>5, <1>8
  <2> QED
    BY <2>1, <2>2, <2>3, <2>4 DEF IsCollecting
<1>9. ASSUME ~g.hung, NEW i \in others PROVE \E d \in Promises : IsWaiting(g, d) /\ IsFor(g, d, r, i)
  <2>1. ~h.hung
    BY <1>9, Fields DEF Extends, MemoryInv, CoreInv
  <2>2. PICK d \in Promises : IsWaiting(h, d) /\ IsFor(h, d, r, i)
    BY <2>1 DEF IsCollecting
  <2> QED
    BY <1>3, <1>4, <2>2
<1> QED
  BY <1>1, <1>6, <1>7, <1>8, <1>9 DEF IsCollecting

\* all waits for an item with a handler of its own.
Awaits(h, r, i, p) == Then(h, p, <<"gather", r, i>>, <<"reject", r>>)

LEMMA AwaitsInv ==
  ASSUME NEW h, MemoryInv(h), NEW r \in DOMAIN h.resolver, NEW f, Goes(h, f, r), NEW i,
         NEW p \in 1..f.made, f.made + 1 <= MaxPromises
  PROVE  LET g == Awaits(f, r, i, p)
         IN Goes(h, g, r) /\ g.made = f.made + 1
<1>1. MemoryInv(f) /\ r \in DOMAIN f.resolver
  BY PassesHolds DEF Goes, Passes
<1>2. IsCallback(f, <<"gather", r, i>>) /\ IsCallback(f, <<"reject", r>>)
  BY <1>1 DEF IsCallback
<1>3. \A k : k # r => ~About(<<"gather", r, i>>, k) /\ ~About(<<"reject", r>>, k)
  BY DEF About
<1>4. Goes(f, Awaits(f, r, i, p), r) /\ Awaits(f, r, i, p).made = f.made + 1
  BY <1>1, <1>2, <1>3, ThenInv DEF Awaits
<1> QED
  BY <1>4, GoesTrans

-----------------------------------------------------------------------------
(* The items of all *)

\* What only depends on the states and values of the promises.
LEMMA SameOutcomes ==
  ASSUME NEW h, MemoryInv(h), NEW g, g.state = h.state, g.value = h.value
  PROVE  /\ \A x : Possible(h, x) => Comes(g, x) = Comes(h, x)
         /\ \A o : Basin(g, o) = Basin(h, o)
<1>1. FollowAlike(h, g)
  BY DEF FollowAlike
<1>2. \A p \in Promises : OutcomeOf(g, p) = OutcomeOf(h, p)
  BY <1>1, RootAlike DEF OutcomeOf
<1>3. \A x : Possible(h, x) /\ IsPromise(x) => x[2] \in Promises
  BY FollowsMade DEF Possible, MemoryInv, CoreInv
<1>4. \A x : Possible(h, x) => Comes(g, x) = Comes(h, x)
  BY <1>2, <1>3 DEF Comes
<1>5. \A S : Closed(g, S) <=> Closed(h, S)
  BY DEF Closed
<1>6. \A o : Basin(g, o) = Basin(h, o)
  BY <1>5 DEF Basin
<1> QED
  BY <1>4, <1>6

\* What a handler that waits for an item says of it.
LEMMA WaitedFor ==
  ASSUME NEW h, NEW r, NEW C, NEW M, IsCollecting(h, r, C, M),
         NEW d \in Promises, IsWaiting(h, d), NEW i, IsFor(h, d, r, i)
  PROVE  i \in DOMAIN ItemsOf(h, r) \ (C \cup M)
<1>1. Concerns(h, d, r)
  BY DEF IsFor, Concerns, About
<1>2. PICK j \in DOMAIN ItemsOf(h, r) \ (C \cup M) : IsFor(h, d, r, j)
  BY <1>1 DEF IsCollecting
<1>3. <<"gather", r, i>> = <<"gather", r, j>>
  BY <1>2 DEF IsFor
<1> QED
  BY <1>2, <1>3

\* A call of all that was answered, or that is none, is not concerned.
LEMMA GatherStays ==
  ASSUME NEW h, MemoryInv(h), NEW r \in DOMAIN h.resolver, NEW M, GatherAt(h, r, M),
         NEW g, Goes(h, g, r), NEW K
  PROVE  ~IsGathering(h, r) \/ h.resolver[r].done => GatherAt(g, r, K)
<1>1. CASE ~IsGathering(h, r)
  BY <1>1, CallStays DEF Goes, Passes, GatherAt
<1> QED
  BY <1>1, AnsweredStays

\* The library is in its loop from now on.
LEMMA HungStep ==
  ASSUME NEW h, MemoryInv(h), NEW r \in DOMAIN h.resolver, NEW M, GatherAt(h, r, M), NEW i
  PROVE  GatherAt([h EXCEPT !.hung = TRUE], r, M \ {i})
<1> DEFINE g == [h EXCEPT !.hung = TRUE]
<1>1. Goes(h, g, r) /\ Alike(h, g) /\ g.gather = h.gather /\ g.hung
  BY HungField
<1> HIDE DEF g
<1> SUFFICES ASSUME IsGathering(h, r), ~h.resolver[r].done PROVE GatherAt(g, r, M \ {i})
  BY <1>1, GatherStays DEF g
<1>2. PICK C : IsCollecting(h, r, C, M)
  BY DEF GatherAt
<1>3. /\ \A x : Possible(h, x) => Comes(g, x) = Comes(h, x)
      /\ \A o : Basin(g, o) = Basin(h, o)
  BY <1>1, SameOutcomes DEF Alike
<1>4. /\ ItemsOf(g, r) = ItemsOf(h, r)
      /\ \A d : IsWaiting(g, d) <=> IsWaiting(h, d)
      /\ \A d : Concerns(g, d, r) <=> Concerns(h, d, r)
  BY <1>1 DEF Alike, ItemsOf, IsWaiting, Of, Concerns
<1>5. \A d, j : IsFor(g, d, r, j) <=> IsFor(h, d, r, j)
  BY <1>1, <1>3, <1>4 DEF Alike, IsFor, Of
<1> DEFINE items == ItemsOf(h, r)
           others == DOMAIN items \ (C \cup M)
           now == DOMAIN items \ (C \cup (M \ {i}))
<1>6. \A j \in C : j \in DOMAIN items /\ Possible(h, items[j])
  BY <1>2 DEF GatherAt, IsCallOfAll, IsCollecting
<1>7. \A j \in C : Comes(g, items[j]) = <<"fulfilled", g.gather[r].args[j]>>
  BY <1>1, <1>2, <1>3, <1>6 DEF IsCollecting
<1>8. \A d \in Promises : IsWaiting(g, d) /\ Concerns(g, d, r) => \E j \in now : IsFor(g, d, r, j)
  BY <1>2, <1>4, <1>5 DEF IsCollecting
<1>9. ASSUME NEW d \in Promises, NEW e \in Promises, NEW j \in now,
             IsWaiting(g, d), IsFor(g, d, r, j), IsWaiting(g, e), IsFor(g, e, r, j)
      PROVE  d = e
  <2>1. j \in others
    BY <1>2, <1>4, <1>5, <1>9, WaitedFor
  <2> QED
    BY <1>2, <1>4, <1>5, <1>9, <2>1 DEF IsCollecting
<1>10. IsCollecting(g, r, C, M \ {i})
  BY <1>1, <1>2, <1>4, <1>7, <1>8, <1>9 DEF IsCollecting
<1>11. IsCallOfAll(g, r) /\ ~g.resolver[r].done
  BY <1>1, CallStays DEF GatherAt, Goes, Passes, Alike
<1> QED
  BY <1>10, <1>11 DEF GatherAt

\* An item is rejected, and all passes it on.
LEMMA RejectStep ==
  ASSUME NEW h, MemoryInv(h), NEW r \in DOMAIN h.resolver, NEW M, GatherAt(h, r, M),
         NEW x, Possible(h, x),
         IsGathering(h, r) =>
           \E i \in DOMAIN ItemsOf(h, r) : Comes(h, ItemsOf(h, r)[i]) = <<"rejected", x>>,
         NEW K
  PROVE  GatherAt(CallReject(h, r, x), r, K) /\ CallReject(h, r, x).resolver[r].done
<1> DEFINE g == CallReject(h, r, x)
           p == h.resolver[r].promise
<1>1. /\ Goes(h, g, r)
      /\ ~h.resolver[r].done => g.resolver[r].done /\ OutcomeOf(g, p) = <<"rejected", x>>
  BY CallRejectInv
<1> HIDE DEF g
<1>2. g.resolver[r].done /\ g.resolver[r].promise = p /\ ItemsOf(g, r) = ItemsOf(h, r)
  BY <1>1 DEF Goes, Stays
<1> SUFFICES ASSUME IsGathering(h, r), ~h.resolver[r].done PROVE GatherAt(g, r, K)
  BY <1>1, <1>2, GatherStays DEF g
<1>3. PICK i \in DOMAIN ItemsOf(h, r) : Comes(h, ItemsOf(h, r)[i]) = <<"rejected", x>>
  OBVIOUS
<1>4. Possible(h, ItemsOf(h, r)[i]) /\ Comes(h, ItemsOf(h, r)[i]) # NoOutcome
  BY <1>3 DEF GatherAt, IsCallOfAll, NoOutcome
<1>5. Comes(g, ItemsOf(h, r)[i]) = <<"rejected", x>>
  BY <1>1, <1>3, <1>4, ComesStays DEF Goes, Passes
<1>6. AnswersItems(g, r)
  BY <1>1, <1>2, <1>5 DEF AnswersItems
<1> QED
  BY <1>1, <1>2, <1>6, AnswerComes

\* all waits for an item that is pending, or follows one that is.
LEMMA ThenStep ==
  ASSUME NEW h, MemoryInv(h), NEW r \in DOMAIN h.resolver, NEW M, GatherAt(h, r, M),
         NEW i \in M, NEW p \in 1..h.made, h.made + 1 <= MaxPromises,
         IsGathering(h, r) =>
           LET x == ItemsOf(h, r)[i]
           IN i \in DOMAIN ItemsOf(h, r) /\ IsPromise(x) /\ x[2] \in Basin(h, p)
  PROVE  GatherAt(Awaits(h, r, i, p), r, M \ {i})
<1> DEFINE g == Awaits(h, r, i, p)
           d == h.made + 1
           items == ItemsOf(h, r)
           others(C) == DOMAIN items \ (C \cup M)
           now(C) == DOMAIN items \ (C \cup (M \ {i}))
<1>1. Goes(h, g, r)
  BY GoesSelf, AwaitsInv
<1>2. Adds(h, g, p, d, <<"gather", r, i>>, <<"reject", r>>)
  <2>1. IsCallback(h, <<"gather", r, i>>) /\ IsCallback(h, <<"reject", r>>)
    BY DEF IsCallback
  <2> QED
    BY <2>1, ThenInv DEF Awaits
<1>3. d \in Promises
  BY FollowsMade, MaxPromisesAssumption DEF MemoryInv, CoreInv, Promises
<1> HIDE DEF g, d
<1> SUFFICES ASSUME IsGathering(h, r), ~h.resolver[r].done PROVE GatherAt(g, r, M \ {i})
  BY <1>1, GatherStays DEF g
<1>4. PICK C : IsCollecting(h, r, C, M)
  BY DEF GatherAt
<1>5. /\ \A x : Possible(h, x) => Comes(g, x) = Comes(h, x)
      /\ \A o : Basin(g, o) = Basin(h, o)
  BY <1>2, SameOutcomes DEF Adds
<1>6. ItemsOf(g, r) = items
  BY <1>2 DEF Adds, ItemsOf
<1>7. now(C) = others(C) \cup {i} /\ i \notin others(C)
  BY <1>4 DEF IsCollecting
<1>8. IsFor(g, d, r, i)
  BY <1>2, <1>5, <1>6 DEF IsFor, Adds
<1>9. ASSUME NEW e \in Promises \ {d}
      PROVE  /\ IsWaiting(g, e) <=> IsWaiting(h, e)
             /\ Concerns(g, e, r) <=> Concerns(h, e, r)
             /\ \A j : IsFor(g, e, r, j) <=> IsFor(h, e, r, j)
  <2>1. g.handler[e] = h.handler[e]
    BY <1>2 DEF Adds
  <2> QED
    BY <1>2, <1>5, <1>6, <2>1 DEF Adds, Concerns, IsFor, Of
<1>10. \A j : IsFor(g, d, r, j) => j = i
  <2> SUFFICES ASSUME NEW j, IsFor(g, d, r, j) PROVE j = i
    OBVIOUS
  <2>1. <<"gather", r, j>> = <<"gather", r, i>>
    BY <1>8 DEF IsFor
  <2> QED
    BY <2>1
<1> HIDE DEF items
<1>11. \A j \in C : Comes(g, items[j]) = <<"fulfilled", g.gather[r].args[j]>>
  <2>1. \A j \in C : j \in DOMAIN items /\ Possible(h, items[j])
    BY <1>4 DEF GatherAt, IsCallOfAll, IsCollecting, items
  <2> QED
    BY <1>2, <1>4, <1>5, <2>1 DEF IsCollecting, Adds, items
<1>12. \A e \in Promises : IsWaiting(g, e) /\ Concerns(g, e, r) => \E j \in now(C) : IsFor(g, e, r, j)
  <2> SUFFICES ASSUME NEW e \in Promises, IsWaiting(g, e), Concerns(g, e, r)
               PROVE  \E j \in now(C) : IsFor(g, e, r, j)
    OBVIOUS
  <2>1. CASE e = d
    BY <1>7, <1>8, <2>1
  <2>2. CASE e # d
    BY <1>4, <1>7, <1>9, <2>2 DEF IsCollecting, items
  <2> QED
    BY <2>1, <2>2
<1>13. ASSUME NEW a \in Promises, NEW b \in Promises, NEW j \in now(C),
              IsWaiting(g, a), IsFor(g, a, r, j), IsWaiting(g, b), IsFor(g, b, r, j)
       PROVE  a = b
  <2>1. \A e \in Promises \ {d} : IsWaiting(g, e) /\ IsFor(g, e, r, j) => j \in others(C)
    BY <1>4, <1>9, WaitedFor DEF items
  <2>2. CASE j = i
    BY <1>7, <1>13, <2>1, <2>2
  <2>3. CASE j # i
    BY <1>4, <1>7, <1>9, <1>10, <1>13, <2>3 DEF IsCollecting, items
  <2> QED
    BY <2>2, <2>3
<1>14. ASSUME ~g.hung, NEW j \in now(C) PROVE \E e \in Promises : IsWaiting(g, e) /\ IsFor(g, e, r, j)
  <2>1. CASE j = i
    BY <1>2, <1>3, <1>8, <2>1 DEF Adds
  <2>2. CASE j # i
    <3>1. ~h.hung
      BY <1>1, <1>14, Fields DEF Goes, Passes, Extends, MemoryInv, CoreInv
    <3>2. PICK e \in Promises : IsWaiting(h, e) /\ IsFor(h, e, r, j)
      BY <1>4, <1>7, <2>2, <3>1 DEF IsCollecting, items
    <3>3. e # d
      BY <1>2, <3>2 DEF Adds
    <3> QED
      BY <1>9, <3>2, <3>3
  <2> QED
    BY <2>1, <2>2
<1>15. g.gather = h.gather /\ g.resolver = h.resolver
  BY <1>2 DEF Adds
<1>16. IsCollecting(g, r, C, M \ {i})
  BY <1>4, <1>6, <1>7, <1>11, <1>12, <1>13, <1>14, <1>15 DEF IsCollecting, items
<1>17. IsCallOfAll(g, r) /\ ~g.resolver[r].done
  BY <1>1, <1>15, CallStays DEF GatherAt, Goes, Passes
<1> QED
  BY <1>16, <1>17 DEF GatherAt

LEMMA KeepingIs ==
  ASSUME NEW kept, NEW a, NEW n, NEW items, kept = [args |-> a, remaining |-> n, items |-> items],
         NEW i, NEW x
  PROVE  Keeping(kept, i, x) = [args |-> [a EXCEPT ![i] = x], remaining |-> n - 1, items |-> items]
<1> DEFINE b == [kept.args EXCEPT ![i] = x]
           c == kept.remaining - 1
<1>1. Keeping(kept, i, x) = [kept EXCEPT !.args = b, !.remaining = c]
  BY DEF Keeping
<1>2. b = [a EXCEPT ![i] = x] /\ c = n - 1
  OBVIOUS
<1> HIDE DEF b, c
<1> DEFINE e == [kept EXCEPT !.args = b]
<1>3. e = [args |-> b, remaining |-> n, items |-> items]
  OBVIOUS
<1>4. Keeping(kept, i, x) = [e EXCEPT !.remaining = c]
  BY <1>1
<1> HIDE DEF e
<1>5. [e EXCEPT !.remaining = c] = [args |-> b, remaining |-> c, items |-> items]
  BY <1>3
<1> QED
  BY <1>2, <1>4, <1>5

\* all gets the value of an item: the last one fulfills its promise.
LEMMA GatherStep ==
  ASSUME NEW h, MemoryInv(h), NEW r \in DOMAIN h.resolver, NEW M, GatherAt(h, r, M),
         NEW i \in M, NEW x,
         IsGathering(h, r) =>
           i \in DOMAIN ItemsOf(h, r) /\ Comes(h, ItemsOf(h, r)[i]) = <<"fulfilled", x>>
  PROVE  GatherAt(Gather(h, r, i, x), r, M \ {i})
<1> DEFINE last == Gather(h, r, i, x)
           items == ItemsOf(h, r)
           kept == h.gather[r]
           k == Keeping(kept, i, x)
           ga == [h.gather EXCEPT ![r] = k]
           g == [h EXCEPT !.gather = ga]
           y == <<"array", g.gather[r].args>>
<1>1. Goes(h, last, r)
  BY GatherInv
<1> SUFFICES ASSUME IsGathering(h, r), ~h.resolver[r].done PROVE GatherAt(last, r, M \ {i})
  <2> HIDE DEF last
  <2> QED
    BY <1>1, GatherStays DEF last
<1>2. last = IF g.gather[r].remaining = 0 THEN CallResolve(g, r, y) ELSE g
  BY DEF Gather
<1>3. PICK C : IsCollecting(h, r, C, M)
  BY DEF GatherAt
<1>4. /\ Len(items) \in Nat /\ DOMAIN items = 1..Len(items) /\ \A j \in DOMAIN items : Possible(h, items[j])
  BY DEF GatherAt, IsCallOfAll
<1>5. /\ C \subseteq DOMAIN items /\ i \notin C /\ i \in DOMAIN items
      /\ kept = [args |-> kept.args, remaining |-> kept.remaining, items |-> items]
      /\ kept.remaining = Len(items) - Cardinality(C) /\ DOMAIN kept.args = DOMAIN items
      /\ \A j \in C : Comes(h, items[j]) = <<"fulfilled", kept.args[j]>>
  BY <1>3 DEF IsCollecting
<1> HIDE DEF kept, items, last
<1> DEFINE D == C \cup {i}
<1>6. /\ k.items = items /\ k.remaining = kept.remaining - 1 /\ DOMAIN k.args = DOMAIN items
      /\ k = [args |-> k.args, remaining |-> k.remaining, items |-> items]
      /\ k.args[i] = x /\ \A j \in C : k.args[j] = kept.args[j]
  <2> DEFINE a == [kept.args EXCEPT ![i] = x]
  <2>1. k = [args |-> a, remaining |-> kept.remaining - 1, items |-> items]
    BY <1>5, KeepingIs
  <2>2. DOMAIN a = DOMAIN items /\ a[i] = x /\ \A j \in C : a[j] = kept.args[j]
    BY <1>5
  <2> HIDE DEF a, k
  <2> QED
    BY <2>1, <2>2
<1>7. IsFiniteSet(C) /\ Cardinality(D) = Cardinality(C) + 1 /\ Cardinality(C) \in Nat
  <2>1. IsFiniteSet(1..Len(items))
    BY <1>4, FS_Interval
  <2>2. IsFiniteSet(C)
    BY <1>4, <1>5, <2>1, FS_Subset
  <2> QED
    BY <1>5, <2>2, FS_AddElement, FS_CardinalityType
<1> HIDE DEF k
<1>8. Passes(h, g, r) /\ Alike(h, g) /\ g.gather[r] = k /\ g.hung = h.hung
  BY GatherWrite
<1> HIDE DEF ga, g
<1>9. ItemsOf(g, r) = items
  BY <1>6, <1>8 DEF ItemsOf, Alike, items
<1>10. /\ \A z : Possible(h, z) => Comes(g, z) = Comes(h, z)
       /\ \A o : Basin(g, o) = Basin(h, o)
  BY <1>8, SameOutcomes DEF Alike
<1>11. \A j \in D : Comes(h, items[j]) = <<"fulfilled", k.args[j]>>
  BY <1>5, <1>6 DEF items
<1>12. CASE k.remaining # 0
  <2>1. last = g
    BY <1>2, <1>8, <1>12
  <2>2. /\ \A d : IsWaiting(g, d) <=> IsWaiting(h, d)
        /\ \A d : Concerns(g, d, r) <=> Concerns(h, d, r)
    BY <1>8 DEF Alike, IsWaiting, Of, Concerns
  <2>3. \A d, j : IsFor(g, d, r, j) <=> IsFor(h, d, r, j)
    BY <1>8, <1>9, <1>10 DEF Alike, IsFor, Of, items
  <2>4. DOMAIN items \ (D \cup (M \ {i})) = DOMAIN items \ (C \cup M)
    OBVIOUS
  <2>5. \A j \in D : Comes(g, items[j]) = <<"fulfilled", k.args[j]>>
    BY <1>4, <1>5, <1>10, <1>11
  <2>6. D \in SUBSET (DOMAIN items \ (M \ {i}))
    BY <1>3, <1>5 DEF IsCollecting, items
  <2>7. k.remaining = Len(items) - Cardinality(D)
    BY <1>4, <1>5, <1>6, <1>7
  <2> HIDE DEF D
  <2>8. IsCollecting(g, r, D, M \ {i})
    BY <1>3, <1>6, <1>8, <1>9, <1>12, <2>2, <2>3, <2>4, <2>5, <2>6, <2>7 DEF IsCollecting, items
  <2>9. IsCallOfAll(g, r) /\ ~g.resolver[r].done
    BY <1>1, <1>8, <2>1, CallStays DEF GatherAt, Goes, Passes, Alike
  <2> QED
    BY <2>1, <2>8, <2>9 DEF GatherAt
<1>13. CASE k.remaining = 0
  <2> DEFINE p == h.resolver[r].promise
  <2>1. D = DOMAIN items
    <3>1. Cardinality(D) = Len(items) /\ D \subseteq 1..Len(items)
      BY <1>4, <1>5, <1>6, <1>7, <1>13
    <3>2. IsFiniteSet(1..Len(items)) /\ Cardinality(1..Len(items)) = Len(items)
      BY <1>4, Interval
    <3> QED
      BY <1>4, <3>1, <3>2, FS_Subset
  <2>2. last = CallResolve(g, r, y) /\ y = <<"array", k.args>>
    BY <1>2, <1>8, <1>13
  <2>3. ~IsPromise(y) /\ y # Thenable /\ Possible(g, y)
    BY DEF IsPromise, Thenable, Possible
  <2>4. MemoryInv(g) /\ g.resolver = h.resolver
    BY <1>8 DEF Passes, Alike
  <2> HIDE DEF y
  <2>5. last.resolver[r].done /\ OutcomeOf(last, p) = <<"fulfilled", y>>
    BY <2>2, <2>3, <2>4, CallResolveInv
  <2>6. \A j \in DOMAIN items : Comes(last, items[j]) = <<"fulfilled", k.args[j]>>
    <3> SUFFICES ASSUME NEW j \in DOMAIN items PROVE Comes(last, items[j]) = <<"fulfilled", k.args[j]>>
      OBVIOUS
    <3>1. Possible(h, items[j]) /\ Comes(h, items[j]) = <<"fulfilled", k.args[j]>>
      BY <1>4, <1>11, <2>1
    <3>2. Comes(h, items[j]) # NoOutcome
      BY <3>1 DEF NoOutcome
    <3> QED
      BY <1>1, <3>1, <3>2, ComesStays DEF Goes, Passes
  <2>7. last.resolver[r].promise = p /\ ItemsOf(last, r) = items
    BY <1>1 DEF Goes, Stays, items
  <2> DEFINE out == OutcomeOf(last, last.resolver[r].promise)
  <2>8. AnswersItems(last, r)
    <3>1. out = <<"fulfilled", <<"array", k.args>>>>
      BY <2>2, <2>5, <2>7
    <3>2. out[1] = "fulfilled" /\ out[2][2] = k.args
      BY <3>1
    <3> HIDE DEF out, last, k, items
    <3>3. \A j \in DOMAIN items : Comes(last, items[j]) = <<"fulfilled", out[2][2][j]>>
      BY <2>6, <3>2
    <3> QED
      BY <2>7, <3>2, <3>3 DEF AnswersItems, out
  <2> QED
    BY <1>1, <2>5, <2>8, AnswerComes
<1> QED
  BY <1>12, <1>13

-----------------------------------------------------------------------------
(* Their calls *)

LEMMA AwaitInv ==
  ASSUME NEW h, MemoryInv(h), NEW r \in DOMAIN h.resolver, NEW i, NEW x, Possible(h, x),
         h.made + 2 <= MaxPromises
  PROVE  Goes(h, Await(h, r, i, x), r) /\ Await(h, r, i, x).made <= h.made + 2
<1>1. h.made \in Nat /\ IsMemory(h) /\ h.made + 1 <= MaxPromises
  BY FollowsMade, MaxPromisesAssumption DEF MemoryInv, CoreInv
<1>2. CASE IsPromise(x)
  <2> DEFINE p == Root(h, x[2])
  <2>1. p \in 1..h.made /\ p \in Promises
    BY <1>1, <1>2, RootMade, FollowsMade DEF Possible, MemoryInv, CoreInv
  <2>2. Await(h, r, i, x) =
          CASE h.state[p] = "following" -> [h EXCEPT !.hung = TRUE]
            [] h.state[p] = "fulfilled" -> Gather(h, r, i, h.value[p])
            [] h.state[p] = "rejected" -> Awaits(CallReject(h, r, h.value[p]), r, i, p)
            [] OTHER -> Awaits(h, r, i, p)
    BY <1>2 DEF Await, Awaits
  <2> HIDE DEF p
  <2>3. CASE h.state[p] = "following"
    <3> DEFINE g == [h EXCEPT !.hung = TRUE]
    <3>1. Goes(h, g, r) /\ g.made = h.made
      BY HungField
    <3>2. Await(h, r, i, x) = g
      BY <2>2, <2>3
    <3> HIDE DEF g
    <3> QED
      BY <1>1, <3>1, <3>2
  <2>4. CASE h.state[p] = "fulfilled"
    BY <1>1, <2>2, <2>4, GatherInv
  <2>5. CASE h.state[p] = "rejected"
    <3> DEFINE f == CallReject(h, r, h.value[p])
    <3>1. Possible(h, h.value[p])
      BY <2>1 DEF Possible, MemoryInv, CoreInv, StateInv
    <3>2. Goes(h, f, r) /\ f.made = h.made
      BY <3>1, CallRejectInv
    <3>3. Await(h, r, i, x) = Awaits(f, r, i, p)
      BY <2>2, <2>5
    <3> HIDE DEF f
    <3>4. Goes(h, Awaits(f, r, i, p), r) /\ Awaits(f, r, i, p).made = f.made + 1
      BY <1>1, <2>1, <3>2, AwaitsInv
    <3> QED
      BY <1>1, <3>2, <3>3, <3>4
  <2>6. CASE h.state[p] \notin {"following", "fulfilled", "rejected"}
    <3>1. Await(h, r, i, x) = Awaits(h, r, i, p)
      BY <2>2, <2>6
    <3>2. Goes(h, Awaits(h, r, i, p), r) /\ Awaits(h, r, i, p).made = h.made + 1
      BY <1>1, <2>1, GoesSelf, AwaitsInv
    <3> QED
      BY <1>1, <3>1, <3>2
  <2> QED
    BY <2>3, <2>4, <2>5, <2>6
<1>3. CASE ~IsPromise(x) /\ x = Thenable
  <2> DEFINE f == NewPromise(h, "script")
  <2>1. Goes(h, f, r) /\ f.made = h.made + 1
    BY <1>1, NewPromiseInv
  <2>2. Await(h, r, i, x) = Awaits(f, r, i, h.made + 1)
    BY <1>3 DEF Await, Awaits
  <2>3. h.made + 1 \in 1..(h.made + 1) /\ (h.made + 1) + 1 = h.made + 2
    BY <1>1
  <2> HIDE DEF f
  <2>4. /\ Goes(h, Awaits(f, r, i, h.made + 1), r)
        /\ Awaits(f, r, i, h.made + 1).made = f.made + 1
    BY <2>1, <2>3, AwaitsInv
  <2> QED
    BY <1>1, <2>1, <2>2, <2>3, <2>4
<1>4. CASE ~IsPromise(x) /\ x # Thenable
  <2>1. Await(h, r, i, x) = Gather(h, r, i, x)
    BY <1>4 DEF Await
  <2> QED
    BY <1>1, <2>1, GatherInv
<1> QED
  BY <1>2, <1>3, <1>4

\* all takes the item i in hand: it has its value, waits for it, or is rejected.
LEMMA AwaitStep ==
  ASSUME NEW h, MemoryInv(h), NEW r \in DOMAIN h.resolver, NEW M, GatherAt(h, r, M),
         NEW i \in M, NEW x, Possible(h, x), h.made + 2 <= MaxPromises,
         IsGathering(h, r) => i \in DOMAIN ItemsOf(h, r) /\ ItemsOf(h, r)[i] = x
  PROVE  GatherAt(Await(h, r, i, x), r, M \ {i})
<1> DEFINE g == Await(h, r, i, x)
<1>1. Goes(h, g, r)
  BY AwaitInv
<1> SUFFICES ASSUME IsGathering(h, r) PROVE GatherAt(g, r, M \ {i})
  <2> HIDE DEF g
  <2> QED
    BY <1>1, GatherStays DEF g
<1>2. i \in DOMAIN ItemsOf(h, r) /\ ItemsOf(h, r)[i] = x /\ x # Thenable
  BY DEF IsGathering
<1>3. h.made \in Nat /\ IsMemory(h) /\ h.made + 1 <= MaxPromises /\ FollowsPromises(h)
  BY FollowsMade, MaxPromisesAssumption DEF MemoryInv, CoreInv
<1>4. CASE IsPromise(x)
  <2> DEFINE p == Root(h, x[2])
             out == OutcomeOf(h, x[2])
  <2>1. p \in 1..h.made /\ x[2] \in Promises
    BY <1>3, <1>4, RootMade, FollowsMade DEF Possible, MemoryInv, CoreInv
  <2>2. Await(h, r, i, x) =
          CASE h.state[p] = "following" -> [h EXCEPT !.hung = TRUE]
            [] h.state[p] = "fulfilled" -> Gather(h, r, i, h.value[p])
            [] h.state[p] = "rejected" -> Awaits(CallReject(h, r, h.value[p]), r, i, p)
            [] OTHER -> Awaits(h, r, i, p)
    BY <1>4 DEF Await, Awaits
  <2>3. /\ h.state[p] \in {"fulfilled", "rejected"} => Comes(h, x) = <<h.state[p], h.value[p]>>
        /\ h.state[p] # "following" => x[2] \in Basin(h, p)
    BY <1>3, <1>4, <2>1, RootBasin DEF Comes, OutcomeOf
  <2> HIDE DEF p, g
  <2>4. CASE h.state[p] = "following"
    <3>1. g = [h EXCEPT !.hung = TRUE]
      BY <2>2, <2>4 DEF g
    <3> QED
      BY <3>1, HungStep
  <2>5. CASE h.state[p] = "fulfilled"
    <3>1. g = Gather(h, r, i, h.value[p])
      BY <2>2, <2>5 DEF g
    <3> QED
      BY <1>2, <2>3, <2>5, <3>1, GatherStep
  <2>6. CASE h.state[p] = "rejected"
    <3> DEFINE f == CallReject(h, r, h.value[p])
    <3>1. Possible(h, h.value[p])
      BY <2>1, <1>3, FollowsMade DEF Possible, MemoryInv, CoreInv, StateInv
    <3>2. Goes(h, f, r) /\ f.made = h.made
      BY <3>1, CallRejectInv
    <3>3. Comes(h, ItemsOf(h, r)[i]) = <<"rejected", h.value[p]>>
      BY <1>2, <2>3, <2>6
    <3>4. GatherAt(f, r, M) /\ f.resolver[r].done
      BY <1>2, <3>1, <3>3, RejectStep
    <3>5. g = Awaits(f, r, i, p)
      BY <2>2, <2>6 DEF g
    <3> HIDE DEF f
    <3>6. MemoryInv(f) /\ r \in DOMAIN f.resolver /\ Goes(f, f, r)
      BY <3>2, PassesHolds, GoesSelf DEF Goes, Passes
    <3>7. Goes(f, g, r)
      BY <1>3, <2>1, <3>2, <3>5, <3>6, AwaitsInv
    <3> QED
      BY <3>4, <3>6, <3>7, AnsweredStays
  <2>7. CASE h.state[p] \notin {"following", "fulfilled", "rejected"}
    <3>1. g = Awaits(h, r, i, p)
      BY <2>2, <2>7 DEF g
    <3> QED
      BY <1>2, <1>3, <1>4, <2>1, <2>3, <2>7, <3>1, ThenStep
  <2> QED
    BY <2>4, <2>5, <2>6, <2>7
<1>5. CASE ~IsPromise(x)
  <2>1. g = Gather(h, r, i, x)
    BY <1>2, <1>5 DEF Await
  <2>2. Comes(h, x) = <<"fulfilled", x>>
    BY <1>5 DEF Comes
  <2> HIDE DEF g
  <2> QED
    BY <1>2, <2>1, <2>2, GatherStep
<1> QED
  BY <1>4, <1>5

LEMMA EntersInv ==
  ASSUME NEW h, MemoryInv(h), NEW r \in DOMAIN h.resolver, NEW x, Possible(h, x),
         h.made + 2 <= MaxPromises
  PROVE  Goes(h, Enters(h, r, x), r) /\ Enters(h, r, x).made <= h.made + 2
<1> DEFINE res == ResolvedPromise(h, x)
           f == res[1]
           p == res[2]
<1>1. h.made \in Nat /\ h.made + 1 <= MaxPromises
  BY FollowsMade, MaxPromisesAssumption DEF MemoryInv, CoreInv
<1>2. (\A k : Goes(h, f, k)) /\ p \in 1..f.made /\ f.made <= h.made + 1
  BY <1>1, ResolvedPromiseInv
<1>3. Enters(h, r, x) = Then(f, p, <<"resolve", r>>, <<"reject", r>>)
  BY DEF Enters
<1> HIDE DEF f, p
<1>4. MemoryInv(f) /\ r \in DOMAIN f.resolver /\ f.made \in Nat
  BY <1>2, PassesHolds, FollowsMade DEF Goes, Passes, MemoryInv, CoreInv
<1>5. IsCallback(f, <<"resolve", r>>) /\ IsCallback(f, <<"reject", r>>)
  BY <1>4 DEF IsCallback
<1>6. f.made + 1 <= MaxPromises /\ f.made + 1 <= h.made + 2
  BY <1>1, <1>2, <1>4, MaxPromisesAssumption
<1> DEFINE g == Then(f, p, <<"resolve", r>>, <<"reject", r>>)
<1>7. Goes(f, g, r) /\ g.made = f.made + 1
  <2>1. \A k : k # r => ~About(<<"resolve", r>>, k) /\ ~About(<<"reject", r>>, k)
    BY DEF About
  <2> QED
    BY <1>2, <1>4, <1>5, <1>6, <2>1, ThenInv
<1> HIDE DEF g
<1>8. Goes(h, g, r)
  BY <1>2, <1>7, GoesTrans
<1> QED
  BY <1>3, <1>6, <1>7, <1>8 DEF g

\* One turn of the loop of all, or of race.
Turn(of, h, r, i, x) == IF of = "all" THEN Await(h, r, i, x) ELSE Enters(h, r, x)

LEMMA TurnInv ==
  ASSUME NEW of, NEW h, MemoryInv(h), NEW r \in DOMAIN h.resolver, NEW i, NEW x, Possible(h, x),
         h.made + 2 <= MaxPromises
  PROVE  /\ Goes(h, Turn(of, h, r, i, x), r) /\ Turn(of, h, r, i, x).made <= h.made + 2
         /\ \A M : of = "all" /\ GatherAt(h, r, M) /\ i \in M
                   /\ (IsGathering(h, r) => i \in DOMAIN ItemsOf(h, r) /\ ItemsOf(h, r)[i] = x)
                   => GatherAt(Turn(of, h, r, i, x), r, M \ {i})
BY AwaitInv, AwaitStep, EntersInv DEF Turn

IsTurns(loop, of, h, r, items) ==
  loop = [n \in 0..Len(items) |-> IF n = 0 THEN h ELSE Turn(of, loop[n - 1], r, n, items[n])]

LEMMA TurnsExist ==
  ASSUME NEW of, NEW h, NEW r, NEW items, Len(items) \in Nat
  PROVE  \E loop : IsTurns(loop, of, h, r, items)
<1> DEFINE Upto(k, f) == /\ f = [n \in 0..k |-> f[n]]
                         /\ f[0] = h
                         /\ \A n \in 1..k : f[n] = Turn(of, f[n - 1], r, n, items[n])
           S == {k \in Nat : \E f : Upto(k, f)}
<1>1. 0 \in S
  <2>1. Upto(0, [n \in 0..0 |-> h])
    OBVIOUS
  <2> QED
    BY <2>1
<1>2. ASSUME NEW k \in Nat, k \in S
      PROVE  k + 1 \in S
  <2>1. PICK f : Upto(k, f)
    BY <1>2
  <2> DEFINE g == [n \in 0..(k + 1) |->
                     IF n = k + 1 THEN Turn(of, f[k], r, k + 1, items[k + 1]) ELSE f[n]]
  <2>2. \A n \in 0..k : g[n] = f[n]
    OBVIOUS
  <2>3. g[k + 1] = Turn(of, f[k], r, k + 1, items[k + 1])
    OBVIOUS
  <2>4. g = [n \in 0..(k + 1) |-> g[n]]
    OBVIOUS
  <2> HIDE DEF g
  <2>5. g[0] = h
    BY <2>1, <2>2
  <2>6. ASSUME NEW n \in 1..(k + 1) PROVE g[n] = Turn(of, g[n - 1], r, n, items[n])
    <3>1. CASE n = k + 1
      <4>1. n - 1 = k /\ k \in 0..k
        BY <3>1
      <4> QED
        BY <2>2, <2>3, <3>1, <4>1
    <3>2. CASE n # k + 1
      <4>1. n \in 1..k /\ n - 1 \in 0..k /\ n \in 0..k
        BY <3>2
      <4> QED
        BY <2>1, <2>2, <4>1
    <3> QED
      BY <3>1, <3>2
  <2>7. Upto(k + 1, g)
    BY <2>4, <2>5, <2>6
  <2> HIDE DEF Upto
  <2> QED
    BY <2>7
<1> HIDE DEF S
<1>3. Len(items) \in S
  BY <1>1, <1>2, NatSet
<1>4. PICK f : Upto(Len(items), f)
  BY <1>3 DEF S
<1>5. IsTurns(f, of, h, r, items)
  BY <1>4 DEF IsTurns
<1> QED
  BY <1>5

\* What a loop over the items of a call does.
LEMMA TwoMore ==
  ASSUME NEW a \in Nat, NEW b \in Nat, NEW n \in Nat, NEW N \in Nat,
         a <= b + 2 * n, n + 1 <= N, b + 2 * N <= MaxPromises
  PROVE  a + 2 <= MaxPromises /\ a + 2 <= b + 2 * (n + 1)
BY MaxPromisesAssumption

LEMMA TurnsInv ==
  ASSUME NEW of, NEW h, MemoryInv(h), NEW r \in DOMAIN h.resolver, NEW items, Len(items) \in Nat,
         \A i \in 1..Len(items) : Possible(h, items[i]),
         h.made + 2 * Len(items) <= MaxPromises,
         NEW loop, IsTurns(loop, of, h, r, items)
  PROVE  /\ Goes(h, loop[Len(items)], r)
         /\ of = "all" /\ GatherAt(h, r, 1..Len(items)) /\ ItemsOf(h, r) = items
              => GatherAt(loop[Len(items)], r, {})
<1> DEFINE N == Len(items)
           gathers == of = "all" /\ GatherAt(h, r, 1..N) /\ ItemsOf(h, r) = items
           U == {n \in Nat :
                   n <= N => /\ Goes(h, loop[n], r) /\ loop[n].made <= h.made + 2 * n
                             /\ gathers => GatherAt(loop[n], r, (n + 1)..N)}
<1>1. /\ loop[0] = h
      /\ \A n \in 1..N : loop[n] = Turn(of, loop[n - 1], r, n, items[n])
  BY DEF IsTurns
<1>2. h.made \in Nat
  BY FollowsMade DEF MemoryInv, CoreInv
<1>3. 0 \in U
  BY <1>1, <1>2, GoesSelf
<1> HIDE DEF gathers
<1>4. ASSUME NEW n \in Nat, n \in U, n + 1 <= N
      PROVE  /\ Goes(h, loop[n + 1], r) /\ loop[n + 1].made <= h.made + 2 * (n + 1)
             /\ gathers => GatherAt(loop[n + 1], r, ((n + 1) + 1)..N)
  <2> DEFINE f == loop[n]
             g == loop[n + 1]
  <2>1. /\ Goes(h, f, r) /\ f.made <= h.made + 2 * n
        /\ gathers => GatherAt(f, r, (n + 1)..N)
    BY <1>4
  <2>2. Passes(h, f, r)
    BY <2>1 DEF Goes
  <2>3. g = Turn(of, f, r, n + 1, items[n + 1]) /\ n + 1 \in 1..N
    <3>1. n + 1 \in 1..N /\ (n + 1) - 1 = n
      BY <1>4
    <3> QED
      BY <1>1, <3>1
  <2> HIDE DEF f, g
  <2>4. MemoryInv(f) /\ r \in DOMAIN f.resolver /\ Possible(f, items[n + 1]) /\ f.made \in Nat
    <3>1. MemoryInv(f) /\ r \in DOMAIN f.resolver
      BY <2>2, PassesHolds DEF Passes
    <3>2. Possible(f, items[n + 1])
      <4>1. Possible(h, items[n + 1])
        BY <2>3
      <4> QED
        BY <2>2, <4>1, PassesPossible
    <3> QED
      BY <3>1, <3>2, FollowsMade DEF MemoryInv, CoreInv
  <2>5. f.made + 2 <= MaxPromises /\ f.made + 2 <= h.made + 2 * (n + 1)
    <3>1. /\ f.made \in Nat /\ h.made \in Nat /\ N \in Nat /\ f.made <= h.made + 2 * n
          /\ n + 1 <= N /\ h.made + 2 * N <= MaxPromises
      BY <1>2, <1>4, <2>1, <2>4
    <3> HIDE DEF N, U
    <3> QED
      BY <3>1, TwoMore
  <2>6. Goes(f, g, r) /\ g.made <= f.made + 2
    BY <2>3, <2>4, <2>5, TurnInv
  <2> DEFINE M == (n + 1)..N
  <2>7. ASSUME gathers PROVE GatherAt(g, r, M \ {n + 1})
    <3>1. of = "all" /\ GatherAt(f, r, M) /\ ItemsOf(f, r) = items /\ n + 1 \in M
      BY <1>4, <2>1, <2>7 DEF Goes, Stays, gathers
    <3>2. IsGathering(f, r) => n + 1 \in DOMAIN items
      <4>1. GatherAt(f, r, M) /\ IsGathering(f, r) => DOMAIN items = 1..N
        BY <3>1 DEF GatherAt, IsCallOfAll
      <4> QED
        BY <2>3, <3>1, <4>1
    <3> HIDE DEF M
    <3> QED
      BY <2>3, <2>4, <2>5, <3>1, <3>2, TurnInv
  <2>8. M \ {n + 1} = ((n + 1) + 1)..N
    BY <1>4
  <2>9. Goes(h, g, r) /\ g.made \in Nat
    BY <2>1, <2>6, GoesTrans, FollowsMade DEF Goes, Passes, MemoryInv, CoreInv
  <2>10. g.made <= h.made + 2 * (n + 1)
    BY <1>2, <2>4, <2>5, <2>6, <2>9
  <2> QED
    BY <2>9, <2>10, <2>7, <2>8 DEF g
<1>5. \A n \in Nat : n \in U => n + 1 \in U
  BY <1>4
<1> HIDE DEF U
<1>6. \A n \in Nat : n \in U
  BY <1>3, <1>5, NatSet
<1>7. N \in U /\ (N + 1)..N = {}
  BY <1>6
<1> QED
  BY <1>7 DEF U, gathers

AllTurns(h, r, items) ==
  CHOOSE loop : loop = [n \in 0..Len(items) |-> IF n = 0 THEN h
                                                ELSE Await(loop[n - 1], r, n, items[n])]

RaceTurns(h, r, items) ==
  CHOOSE loop : loop = [n \in 0..Len(items) |-> IF n = 0 THEN h
                                                ELSE Enters(loop[n - 1], r, items[n])]

LEMMA TurnsAre ==
  ASSUME NEW h, NEW r, NEW items, Len(items) \in Nat
  PROVE  /\ IsTurns(AllTurns(h, r, items), "all", h, r, items)
         /\ IsTurns(RaceTurns(h, r, items), "race", h, r, items)
<1> DEFINE a == AllTurns(h, r, items)
           b == RaceTurns(h, r, items)
<1>1. \A f, n, x : Turn("all", f, r, n, x) = Await(f, r, n, x) /\ Turn("race", f, r, n, x) = Enters(f, r, x)
  BY DEF Turn
<1>2. \A loop : IsTurns(loop, "all", h, r, items)
                  <=> loop = [n \in 0..Len(items) |-> IF n = 0 THEN h
                                                      ELSE Await(loop[n - 1], r, n, items[n])]
  BY <1>1 DEF IsTurns
<1>3. \A loop : IsTurns(loop, "race", h, r, items)
                  <=> loop = [n \in 0..Len(items) |-> IF n = 0 THEN h
                                                      ELSE Enters(loop[n - 1], r, items[n])]
  BY <1>1 DEF IsTurns
<1>4. a = [n \in 0..Len(items) |-> IF n = 0 THEN h ELSE Await(a[n - 1], r, n, items[n])]
  BY <1>2, TurnsExist DEF AllTurns
<1>5. b = [n \in 0..Len(items) |-> IF n = 0 THEN h ELSE Enters(b[n - 1], r, items[n])]
  BY <1>3, TurnsExist DEF RaceTurns
<1> QED
  BY <1>2, <1>3, <1>4, <1>5

LEMMA NewPromiseHandlers ==
  ASSUME NEW h, MemoryInv(h), NEW holder
  PROVE  NewPromise(h, holder).handler = h.handler
<1> DEFINE f == [h EXCEPT !.made = @ + 1]
<1>1. PICK V : h \in MemoryOf(V)
  BY DEF MemoryInv, CoreInv, IsMemory
<1>2. f.handler = h.handler /\ DOMAIN f = DOMAIN h
  BY <1>1 DEF MemoryOf
<1>3. NewPromise(h, holder) =
        [f EXCEPT !.resolver = Append(f.resolver, [promise |-> h.made + 1, done |-> FALSE, holder |-> holder]),
                  !.gather = Append(f.gather, [args |-> <<>>, remaining |-> 0, items |-> <<>>])]
  BY DEF NewPromise, NewResolver
<1> HIDE DEF f
<1>4. "handler" \in DOMAIN f /\ "handler" # "resolver" /\ "handler" # "gather"
  BY <1>1, <1>2 DEF MemoryOf
<1> QED
  BY <1>2, <1>3, <1>4

LEMMA ItemsKept ==
  ASSUME NEW h, MemoryInv(h), NEW r \in DOMAIN h.resolver, NEW items
  PROVE  LET kept == [args |-> items, remaining |-> Len(items), items |-> items]
             g == [h EXCEPT !.gather = [h.gather EXCEPT ![r] = kept]]
         IN Passes(h, g, r) /\ Alike(h, g) /\ g.gather[r] = kept
<1> DEFINE kept == [args |-> items, remaining |-> Len(items), items |-> items]
           g == [h EXCEPT !.gather = [h.gather EXCEPT ![r] = kept]]
<1> HIDE DEF kept
<1>1. Passes(h, g, r) /\ Alike(h, g) /\ g.gather[r] = kept
  BY GatherWrite
<1> QED
  BY <1>1 DEF kept

\* A call of all starts with all its items in hand.
LEMMA GatherStarts ==
  ASSUME NEW g, MemoryInv(g), NEW r \in DOMAIN g.resolver,
         NEW items \in Seq(Items), \A i \in 1..Len(items) : Possible(g, items[i]),
         g.resolver[r].holder = "library", ~g.resolver[r].done,
         g.gather[r] = [args |-> items, remaining |-> Len(items), items |-> items],
         \A d \in Promises : ~Concerns(g, d, r)
  PROVE  GatherAt(g, r, 1..Len(items))
<1> SUFFICES ASSUME IsGathering(g, r) PROVE GatherAt(g, r, 1..Len(items))
  BY DEF GatherAt
<1>1. ItemsOf(g, r) = items
  BY DEF ItemsOf
<1>2. Len(items) \in Nat /\ DOMAIN items = 1..Len(items) /\ Len(items) # 0
  BY <1>1 DEF IsGathering
<1>3. IsCallOfAll(g, r)
  BY <1>1, <1>2 DEF IsCallOfAll
<1>4. Cardinality({}) = 0
  BY FS_EmptySet
<1>5. /\ g.gather[r].args = items /\ g.gather[r].remaining = Len(items)
      /\ g.gather[r] = [args |-> g.gather[r].args, remaining |-> g.gather[r].remaining, items |-> items]
  OBVIOUS
<1>6. \A d \in Promises : \A i : ~IsFor(g, d, r, i)
  BY DEF IsFor, Concerns, About
<1>7. DOMAIN items \ ({} \cup 1..Len(items)) = {} /\ Len(items) = Len(items) - 0
  BY <1>2
<1>8. IsCollecting(g, r, {}, 1..Len(items))
  BY <1>1, <1>2, <1>4, <1>5, <1>6, <1>7 DEF IsCollecting
<1> QED
  BY <1>3, <1>8 DEF GatherAt

LEMMA AllInv ==
  ASSUME NEW h, MemoryInv(h), NEW items \in Seq(Items),
         \A i \in 1..Len(items) : Possible(h, items[i]),
         h.made + 1 + 2 * Len(items) <= MaxPromises
  PROVE  LET r == Len(h.resolver) + 1
         IN Passes(h, All(h, items), r) /\ GatherAt(All(h, items), r, {})
<1> DEFINE r == Len(h.resolver) + 1
           f == NewPromise(h, "library")
           kept == [args |-> items, remaining |-> Len(items), items |-> items]
           g == [f EXCEPT !.gather = [f.gather EXCEPT ![r] = kept]]
           none == <<"array", <<>>>>
           loop == AllTurns(g, r, items)
           all == All(h, items)
<1>1. /\ h.made \in Nat /\ Len(h.resolver) \in Nat /\ h.made + 1 <= MaxPromises
      /\ DOMAIN h.resolver = 1..Len(h.resolver) /\ Len(items) \in Nat
  BY FollowsMade, Fields, MaxPromisesAssumption DEF MemoryInv, CoreInv
<1>2. all = IF items = <<>> THEN CallResolve(g, r, none) ELSE loop[Len(items)]
  BY DEF All, AllTurns
<1>3. /\ \A k : Goes(h, f, k)
      /\ f.made = h.made + 1 /\ IsNewPair(f, r, h.made + 1, "library")
  BY <1>1, NewPromiseInv
<1>4. f.handler = h.handler
  BY NewPromiseHandlers
<1> HIDE DEF f, kept
<1>5. MemoryInv(f) /\ r \in DOMAIN f.resolver /\ Passes(h, f, r)
  <2>1. MemoryInv(f)
    BY <1>3 DEF Goes, Passes
  <2> QED
    BY <1>1, <1>3, <2>1, Fields DEF Goes, IsNewPair, MemoryInv, CoreInv
<1>6. Passes(f, g, r) /\ Alike(f, g) /\ g.gather[r] = kept
  <2> HIDE DEF r
  <2> QED
    BY <1>5, ItemsKept DEF kept
<1> HIDE DEF g, all
<1>7. Passes(h, g, r) /\ MemoryInv(g) /\ r \in DOMAIN g.resolver
  <2> HIDE DEF r
  <2>1. Passes(h, g, r)
    BY <1>5, <1>6, PassesTrans
  <2> QED
    BY <1>5, <1>6, <2>1 DEF Passes, Alike
<1>8. Possible(g, none) /\ \A i \in 1..Len(items) : Possible(g, items[i])
  BY <1>7, PassesPossible DEF Possible, IsPromise
<1>9. g.made + 2 * Len(items) <= MaxPromises
  BY <1>1, <1>3, <1>6 DEF Alike
<1>10. \A d \in Promises : ~Concerns(g, d, r)
  <2>1. r \notin DOMAIN h.resolver /\ g.handler = h.handler
    BY <1>1, <1>4, <1>6 DEF Alike
  <2>2. None[1] = "none" /\ Script[1] = "script"
    BY DEF None, Script
  <2> HIDE DEF r
  <2>3. \A cb : IsCallback(h, cb) => ~About(cb, r)
    BY <2>1, <2>2 DEF IsCallback, About
  <2> QED
    BY <2>1, <2>3 DEF Concerns, MemoryInv, CoreInv, CallbackInv
<1>11. GatherAt(g, r, 1..Len(items)) /\ ItemsOf(g, r) = items
  <2>1. g.resolver[r].holder = "library" /\ ~g.resolver[r].done
    BY <1>3, <1>6 DEF IsNewPair, Alike
  <2>2. ItemsOf(g, r) = items
    BY <1>6, <1>7 DEF ItemsOf, kept
  <2> HIDE DEF r
  <2> QED
    BY <1>6, <1>7, <1>8, <1>10, <2>1, <2>2, GatherStarts DEF kept
<1> HIDE DEF r, none
<1>12. CASE items = <<>>
  <2>1. all = CallResolve(g, r, none)
    BY <1>2, <1>12
  <2>2. Goes(g, all, r)
    BY <1>7, <1>8, <2>1, CallResolveInv
  <2>3. ~IsGathering(all, r)
    BY <1>11, <1>12, <2>2 DEF Goes, Stays, IsGathering
  <2>4. Passes(h, all, r)
    BY <1>7, <2>2, PassesTrans DEF Goes
  <2> QED
    BY <2>3, <2>4 DEF GatherAt, all, r
<1>13. CASE items # <<>>
  <2>1. all = loop[Len(items)] /\ IsTurns(loop, "all", g, r, items)
    BY <1>1, <1>2, <1>13, TurnsAre
  <2> HIDE DEF loop
  <2>2. Goes(g, all, r) /\ GatherAt(all, r, {})
    BY <1>1, <1>7, <1>8, <1>9, <1>11, <2>1, TurnsInv
  <2>3. Passes(h, all, r)
    BY <1>7, <2>2, PassesTrans DEF Goes
  <2> QED
    BY <2>2, <2>3 DEF all, r
<1> QED
  BY <1>12, <1>13

LEMMA RaceInv ==
  ASSUME NEW h, MemoryInv(h), NEW items \in Seq(Items),
         \A i \in 1..Len(items) : Possible(h, items[i]),
         h.made + 1 + 2 * Len(items) <= MaxPromises
  PROVE  LET r == Len(h.resolver) + 1
         IN Passes(h, Race(h, items), r) /\ GatherAt(Race(h, items), r, {})
<1> DEFINE r == Len(h.resolver) + 1
           g == NewPromise(h, "library")
           loop == RaceTurns(g, r, items)
           race == Race(h, items)
<1>1. /\ h.made \in Nat /\ Len(h.resolver) \in Nat /\ h.made + 1 <= MaxPromises
      /\ Len(items) \in Nat
  BY FollowsMade, Fields, MaxPromisesAssumption DEF MemoryInv, CoreInv
<1>2. race = loop[Len(items)]
  BY DEF Race, RaceTurns
<1>3. /\ \A k : Goes(h, g, k)
      /\ g.made = h.made + 1 /\ IsNewPair(g, r, h.made + 1, "library")
  BY <1>1, NewPromiseInv
<1> HIDE DEF g, race
<1>4. MemoryInv(g) /\ Passes(h, g, r)
  BY <1>3 DEF Goes, Passes
<1>5. r \in DOMAIN g.resolver
  BY <1>1, <1>3, <1>4, Fields DEF MemoryInv, CoreInv, IsNewPair
<1>6. \A i \in 1..Len(items) : Possible(g, items[i])
  BY <1>4, PassesPossible
<1>7. g.made + 2 * Len(items) <= MaxPromises
  BY <1>1, <1>3
<1>8. IsTurns(loop, "race", g, r, items)
  BY <1>1, TurnsAre
<1> HIDE DEF loop, r
<1>9. Goes(g, race, r)
  BY <1>1, <1>2, <1>4, <1>5, <1>6, <1>7, <1>8, TurnsInv
<1>10. ~IsGathering(race, r)
  BY <1>3, <1>9 DEF Goes, Stays, IsGathering, IsNewPair
<1>11. Passes(h, race, r)
  BY <1>4, <1>9, PassesTrans DEF Goes
<1> QED
  BY <1>10, <1>11 DEF GatherAt, race, r

\* A callback of the library, in the task of a handler.
LEMMA CallsInv ==
  ASSUME NEW h, MemoryInv(h), NEW cb, IsCallback(h, cb), cb \notin {None, Script},
         NEW x, Possible(h, x)
  PROVE  /\ cb[1] = "throw" => \A k : Goes(h, Calls(h, cb, x), k)
         /\ cb[1] # "throw" => cb[2] \in DOMAIN h.resolver /\ Goes(h, Calls(h, cb, x), cb[2])
<1>1. CASE cb[1] = "throw"
  <2>1. Calls(h, cb, x) = [h EXCEPT !.thrown = h.thrown \cup {x}]
    BY <1>1 DEF Calls
  <2> QED
    BY <1>1, <2>1, ThrownField
<1>2. CASE cb[1] = "gather" /\ cb[2] \in DOMAIN h.resolver
  <2>1. Calls(h, cb, x) = Gather(h, cb[2], cb[3], x)
    BY <1>2 DEF Calls
  <2> QED
    BY <1>2, <2>1, GatherInv
<1>3. CASE cb[1] = "resolve" /\ cb[2] \in DOMAIN h.resolver
  <2>1. Calls(h, cb, x) = CallResolve(h, cb[2], x)
    BY <1>3 DEF Calls
  <2> QED
    BY <1>3, <2>1, CallResolveInv
<1>4. CASE cb[1] = "reject" /\ cb[2] \in DOMAIN h.resolver
  <2>1. Calls(h, cb, x) = CallReject(h, cb[2], x)
    BY <1>4 DEF Calls
  <2> QED
    BY <1>4, <2>1, CallRejectInv
<1> QED
  BY <1>1, <1>2, <1>3, <1>4 DEF IsCallback

-----------------------------------------------------------------------------
(* The turns *)

\* Every call of all whose items are no thenables has the values that came,
\* and a handler for each of the others, or is answered as its items are.
GathersInv(h) == \A r \in DOMAIN h.resolver : GatherAt(h, r, {})

LEMMA GathersKept ==
  ASSUME NEW h, MemoryInv(h), NEW g, MemoryInv(g), Extends(h, g), NEW k,
         \A r \in DOMAIN h.resolver \ {k} : GatherAt(h, r, {}),
         \A r : r # k => Leaves(h, g, r), k \in DOMAIN g.resolver => GatherAt(g, k, {})
  PROVE  GathersInv(g)
<1> SUFFICES ASSUME NEW r \in DOMAIN g.resolver, r # k PROVE GatherAt(g, r, {})
  BY DEF GathersInv
<1>1. Leaves(h, g, r)
  OBVIOUS
<1>2. CASE r \in DOMAIN h.resolver
  BY <1>1, <1>2, GatherLeft
<1>3. CASE r \notin DOMAIN h.resolver
  BY <1>1, <1>3 DEF Leaves, ItemsOf, GatherAt, IsGathering
<1> QED
  BY <1>2, <1>3

\* From m to g, no pair was called but perhaps k, and all keeps count of its items.
GoesOn(g) ==
  \E k : /\ Passes(m, g, k)
         /\ GathersInv(m) => (k \in DOMAIN g.resolver => GatherAt(g, k, {}))

LEMMA GoesOnFreely ==
  ASSUME MemoryInv(m), NEW g, \A k : Goes(m, g, k)
  PROVE  GoesOn(g)
<1>1. Passes(m, g, 0)
  BY DEF Goes
<1>2. 0 \notin DOMAIN g.resolver
  BY <1>1, Fields DEF Passes, MemoryInv, CoreInv
<1> QED
  BY <1>1, <1>2 DEF GoesOn

\* A call of a script.
LEMMA AfterInv ==
  ASSUME MemoryInv(m), NEW call \in Call, CanCall(call)
  PROVE  GoesOn(After(call))
<1> DEFINE thens == [of : {"then"}, promise : Promises, onFulfilled : {None, Script}, onRejected : {None, Script}]
           gathers == [of : {"all", "race"}, items : Seq(Items)]
<1>1. CASE call.of = "new"
  <2>1. m.made + 1 <= MaxPromises /\ After(call) = NewPromise(m, "script")
    BY <1>1 DEF CanCall, After
  <2> QED
    BY <2>1, NewPromiseInv, GoesOnFreely
<1>2. \A p : Has(Ref(p)) => p \in 1..m.made
  BY DEF Has, IsPromise, Ref
<1>3. \A cb \in {None, Script, <<"throw">>} : IsCallback(m, cb) /\ \A r : ~About(cb, r)
  BY DEF IsCallback, About, None, Script
<1>4. CASE call.of = "then"
  <2>1. call \in thens
    BY <1>4 DEF Call
  <2>2. call.onFulfilled \in {None, Script} /\ call.onRejected \in {None, Script}
    BY <2>1
  <2>3. Has(Ref(call.promise)) /\ m.made + 1 <= MaxPromises
    BY <1>4 DEF CanCall
  <2>4. After(call) = Then(m, call.promise, call.onFulfilled, call.onRejected)
    BY <1>4 DEF After
  <2> QED
    BY <1>2, <1>3, <2>2, <2>3, <2>4, ThenInv, GoesOnFreely
<1>5. CASE call.of = "done"
  <2>1. Has(Ref(call.promise)) /\ m.made + 1 <= MaxPromises
    BY <1>5 DEF CanCall
  <2>2. After(call) = Then(m, call.promise, None, <<"throw">>)
    BY <1>5 DEF After, Done
  <2> QED
    BY <1>2, <1>3, <2>1, <2>2, ThenInv, GoesOnFreely
<1>6. CASE call.of \in {"all", "race"}
  <2>1. call \in gathers
    BY <1>6 DEF Call
  <2>2. call.items \in Seq(Items)
    BY <2>1
  <2>3. DOMAIN call.items = 1..Len(call.items)
    BY <2>2
  <2>4. /\ \A i \in DOMAIN call.items : Has(call.items[i])
        /\ m.made + 1 + 2 * Len(call.items) <= MaxPromises
    BY <1>6 DEF CanCall
  <2>5. \A i \in 1..Len(call.items) : Possible(m, call.items[i])
    BY <2>3, <2>4 DEF Possible, Has
  <2>6. After(call) = IF call.of = "all" THEN All(m, call.items) ELSE Race(m, call.items)
    BY <1>6 DEF After
  <2>7. LET r == Len(m.resolver) + 1
        IN Passes(m, After(call), r) /\ GatherAt(After(call), r, {})
    BY <2>2, <2>4, <2>5, <2>6, AllInv, RaceInv
  <2> QED
    BY <2>7 DEF GoesOn
<1> QED
  BY <1>1, <1>4, <1>5, <1>6 DEF Call

LEMMA WithoutFirst ==
  ASSUME NEW S, NEW w \in Seq(S), NEW d, w # <<>>, Head(w) = d,
         \A i \in DOMAIN w : w[i] = d => i = 1
  PROVE  Without(w, d) = Tail(w)
<1>1. Len(w) \in Nat \ {0} /\ DOMAIN w = 1..Len(w) /\ w[1] = d
  OBVIOUS
<1> DEFINE i == CHOOSE k \in DOMAIN w : w[k] = d
<1>2. i \in DOMAIN w /\ w[i] = d
  BY <1>1
<1>3. i = 1
  BY <1>2
<1>4. Without(w, d) = SubSeq(w, 1, i - 1) \o SubSeq(w, i + 1, Len(w))
  BY DEF Without
<1> HIDE DEF i
<1>5. Without(w, d) = SubSeq(w, 1, 0) \o SubSeq(w, 2, Len(w))
  BY <1>3, <1>4
<1>6. SubSeq(w, 1, 0) = <<>> /\ SubSeq(w, 2, Len(w)) = Tail(w)
  BY <1>1
<1>7. Tail(w) \in Seq(S)
  BY <1>1
<1> QED
  BY <1>5, <1>6, <1>7

\* g is h with the first task taken off the queue, and its handler answered.
IsAnswered(h, g, d) ==
  /\ g.made = h.made /\ g.state = h.state /\ g.value = h.value /\ g.deferreds = h.deferreds
  /\ g.handler = h.handler /\ g.resolver = h.resolver /\ g.hung = h.hung
  /\ g.queue = Tail(h.queue)
  /\ g.waiting[Of(h, d)] = Tail(h.waiting[Of(h, d)])
  /\ \A q \in Promises \ {Of(h, d)} : g.waiting[q] = h.waiting[q]
  /\ \A e \in Promises \ {d} : g.answer[e] = h.answer[e]
  /\ g.gather = h.gather /\ g.flush = h.flush

\* The handler d of the first task is the first that waits for its promise, and
\* is in no other place.
IsNext(h, d) ==
  /\ d \in Promises /\ IsWaiting(h, d) /\ IsASettled(h, h.queue[1][1])
  /\ h.queue[1][1] \in Promises /\ Root(h, Of(h, d)) = h.queue[1][1]
  /\ h.waiting[Of(h, d)] # <<>> /\ Head(h.waiting[Of(h, d)]) = d
  /\ \A i \in DOMAIN h.waiting[Of(h, d)] : h.waiting[Of(h, d)][i] = d => i = 1
  /\ \A j \in DOMAIN h.queue : h.queue[j][2] = d => j = 1
  /\ \A q \in Promises : \A j \in DOMAIN h.deferreds[q] : h.deferreds[q][j] # d

LEMMA FirstWaits ==
  ASSUME NEW h, MemoryInv(h), ~h.hung, h.queue # <<>>
  PROVE  IsNext(h, h.queue[1][2])
<1> DEFINE d == h.queue[1][2]
           p == h.queue[1][1]
           w == h.waiting[Of(h, d)]
<1>1. /\ IsMemory(h) /\ StateInv(h) /\ WaitingInv(h) /\ DeferredInv(h) /\ QueueInv(h) /\ PlacedInv(h)
  BY DEF MemoryInv, CoreInv
<1>2. /\ h.queue \in Seq(Promises \X Promises) /\ h.deferreds \in [Promises -> Seq(Promises)]
      /\ h.waiting \in [Promises -> Seq(Promises)]
      /\ \A e \in Promises : Of(h, e) \in Promises
      /\ \A q \in Promises : q \in Nat
  <2>1. \A q \in Promises : q \in Nat
    BY MaxPromisesAssumption DEF Promises
  <2> QED
    BY <1>1, <2>1, Fields
<1>3. 1 \in DOMAIN h.queue /\ DOMAIN h.queue = 1..Len(h.queue) /\ Len(h.queue) \in Nat
  BY <1>2
<1>4. \A j \in DOMAIN h.queue : h.queue[j][1] \in Promises /\ h.queue[j][2] \in Promises
  <2>1. \A j \in DOMAIN h.queue : h.queue[j] \in Promises \X Promises
    BY <1>2
  <2> QED
    BY <2>1
<1>5. d \in Promises /\ p \in Promises
  BY <1>3, <1>4
<1>6. IsWaiting(h, d) /\ IsASettled(h, p) /\ Root(h, Of(h, d)) = p
  BY <1>1, <1>3 DEF QueueInv
<1>7. w \in Seq(Promises) /\ DOMAIN w = 1..Len(w) /\ Len(w) \in Nat
  <2>1. Of(h, d) \in Promises
    BY <1>2, <1>5
  <2>2. w \in Seq(Promises)
    BY <1>2, <2>1
  <2> QED
    BY <2>2
<1>8. \A j \in DOMAIN h.queue : j # 1 /\ Of(h, h.queue[j][2]) = Of(h, d) => d < h.queue[j][2]
  <2>1. InOrder(h, Tasked(h))
    BY <1>1 DEF QueueInv
  <2>2. DOMAIN Tasked(h) = DOMAIN h.queue /\ \A j \in DOMAIN h.queue : Tasked(h)[j] = h.queue[j][2]
    BY DEF Tasked
  <2>3. \A j \in DOMAIN h.queue : j # 1 => 1 < j
    BY <1>3
  <2> QED
    BY <1>3, <2>1, <2>2, <2>3 DEF InOrder
<1>9. \A q \in Promises : \A j \in DOMAIN h.deferreds[q] : Of(h, h.deferreds[q][j]) # Of(h, d)
  <2>1. \A q \in Promises : \A j \in DOMAIN h.deferreds[q] :
          Root(h, Of(h, h.deferreds[q][j])) = q /\ h.state[q] = "pending"
    <3>1. \A q \in Promises : h.state[q] # "pending" => DOMAIN h.deferreds[q] = {}
      BY <1>1 DEF StateInv
    <3> QED
      BY <1>1, <3>1 DEF DeferredInv
  <2> QED
    BY <1>6, <2>1 DEF IsASettled
<1>10. PICK i \in DOMAIN w : w[i] = d
  BY <1>6 DEF IsWaiting
<1>11. i = 1
  <2> SUFFICES ASSUME i # 1 PROVE FALSE
    OBVIOUS
  <2> DEFINE e == w[1]
  <2>1. 1 \in DOMAIN w /\ 1 < i /\ e \in Promises
    BY <1>7
  <2>2. e < d /\ Of(h, e) = Of(h, d)
    <3>1. Of(h, d) \in Promises
      BY <1>2, <1>5
    <3> QED
      BY <1>1, <1>10, <2>1, <3>1 DEF WaitingInv
  <2>3. IsWaiting(h, e)
    BY <2>1, <2>2 DEF IsWaiting
  <2> HIDE DEF e
  <2>4. PICK j \in DOMAIN h.queue : h.queue[j][2] = e
    BY <1>1, <1>9, <2>1, <2>2, <2>3 DEF PlacedInv, IsPlaced
  <2>5. e \in Nat /\ d \in Nat
    BY <1>2, <1>5, <2>1
  <2>6. e = d \/ d < e
    BY <1>8, <2>2, <2>4
  <2> QED
    BY <2>2, <2>5, <2>6
<1>12. w # <<>> /\ Head(w) = d
  BY <1>7, <1>10, <1>11
<1>13. \A k \in DOMAIN w : w[k] = d => k = 1
  <2> SUFFICES ASSUME NEW k \in DOMAIN w, w[k] = d, k # 1 PROVE FALSE
    OBVIOUS
  <2>1. 1 < k
    BY <1>7
  <2>2. w[1] < w[k]
    <3>1. Of(h, d) \in Promises
      BY <1>2, <1>5
    <3> QED
      BY <1>1, <1>10, <1>11, <2>1, <3>1 DEF WaitingInv
  <2>3. w[1] = d
    BY <1>10, <1>11
  <2>4. ~(d < d)
    BY <1>2, <1>5
  <2> HIDE DEF w, d
  <2> QED
    BY <2>2, <2>3, <2>4
<1>14. \A j \in DOMAIN h.queue : h.queue[j][2] = d => j = 1
  <2>1. ~(d < d)
    BY <1>2, <1>5
  <2> QED
    BY <1>8, <2>1
<1> QED
  BY <1>5, <1>6, <1>9, <1>12, <1>13, <1>14 DEF IsNext

\* t is s without its first.
IsTail(t, s) ==
  /\ \A i \in DOMAIN t : i + 1 \in DOMAIN s /\ i + 1 # 1 /\ t[i] = s[i + 1]
  /\ \A i \in DOMAIN s : i # 1 => i - 1 \in DOMAIN t /\ t[i - 1] = s[i]
  /\ DOMAIN t \subseteq Int

LEMMA TailIs ==
  ASSUME NEW S, NEW s \in Seq(S), s # <<>>
  PROVE  IsTail(Tail(s), s)
<1>1. Len(s) \in Nat \ {0} /\ DOMAIN s = 1..Len(s)
  OBVIOUS
<1>2. /\ Tail(s) \in Seq(S) /\ DOMAIN Tail(s) = 1..(Len(s) - 1) /\ Len(Tail(s)) = Len(s) - 1
      /\ \A i \in 1..(Len(s) - 1) : Tail(s)[i] = s[i + 1]
  BY <1>1
<1> DEFINE t == Tail(s)
<1>3. /\ DOMAIN t = 1..(Len(s) - 1) /\ \A i \in 1..(Len(s) - 1) : t[i] = s[i + 1]
  BY <1>2
<1> HIDE DEF t
<1>4. \A i \in DOMAIN t : i + 1 \in DOMAIN s /\ i + 1 # 1 /\ t[i] = s[i + 1]
  BY <1>1, <1>3
<1>5. ASSUME NEW i \in DOMAIN s, i # 1 PROVE i - 1 \in DOMAIN t /\ t[i - 1] = s[i]
  <2>1. i - 1 \in 1..(Len(s) - 1) /\ (i - 1) + 1 = i
    BY <1>1, <1>5
  <2> QED
    BY <1>3, <2>1
<1> QED
  BY <1>1, <1>3, <1>4, <1>5 DEF t, IsTail

\* An answer leaves what others wait for, and frees the promise of the handler.
LEMMA AnsweredInv ==
  ASSUME NEW h, MemoryInv(h), ~h.hung, h.queue # <<>>, NEW d, d = h.queue[1][2],
         NEW g, IsMemory(g), IsAnswered(h, g, d)
  PROVE  /\ MemoryInv(g) /\ Free(g, d)
         /\ \A q \in Promises : OutcomeOf(g, q) = OutcomeOf(h, q)
         /\ \A e \in Promises : IsWaiting(g, e) <=> IsWaiting(h, e) /\ e # d
<1> DEFINE o == Of(h, d)
           w == h.waiting[o]
           v == g.waiting[o]
<1>1. /\ IsMemory(h) /\ StateInv(h) /\ WaitingInv(h) /\ DeferredInv(h) /\ QueueInv(h)
      /\ OwnerInv(h) /\ CallbackInv(h) /\ PlacedInv(h)
  BY DEF MemoryInv, CoreInv
<1>2. /\ d \in Promises /\ IsWaiting(h, d) /\ IsASettled(h, h.queue[1][1])
      /\ w # <<>> /\ Head(w) = d
      /\ \A i \in DOMAIN w : w[i] = d => i = 1
      /\ \A j \in DOMAIN h.queue : h.queue[j][2] = d => j = 1
      /\ \A q \in Promises : \A j \in DOMAIN h.deferreds[q] : h.deferreds[q][j] # d
  <2>1. IsNext(h, d)
    BY FirstWaits
  <2> QED
    BY <2>1 DEF IsNext
<1>3. /\ h.queue \in Seq(Promises \X Promises) /\ h.deferreds \in [Promises -> Seq(Promises)]
      /\ h.waiting \in [Promises -> Seq(Promises)]
      /\ \A e \in Promises : Of(h, e) \in Promises
      /\ \A r \in DOMAIN h.resolver : h.resolver[r].promise \in Promises
  BY <1>1, Fields
<1>4. o \in Promises /\ w \in Seq(Promises) /\ v = Tail(w)
  BY <1>2, <1>3 DEF IsAnswered
<1>5. /\ \A i \in DOMAIN v : i + 1 \in DOMAIN w /\ i + 1 # 1 /\ v[i] = w[i + 1]
      /\ \A i \in DOMAIN w : i # 1 => i - 1 \in DOMAIN v /\ v[i - 1] = w[i]
      /\ DOMAIN v \subseteq Int
  <2>1. IsTail(v, w)
    BY <1>2, <1>4, TailIs
  <2> HIDE DEF v, w
  <2> QED
    BY <2>1 DEF IsTail
<1>6. /\ \A i \in DOMAIN g.queue : i + 1 \in DOMAIN h.queue /\ i + 1 # 1 /\ g.queue[i] = h.queue[i + 1]
      /\ \A i \in DOMAIN h.queue : i # 1 => i - 1 \in DOMAIN g.queue /\ g.queue[i - 1] = h.queue[i]
      /\ DOMAIN g.queue \subseteq Int
  <2>1. IsTail(Tail(h.queue), h.queue) /\ g.queue = Tail(h.queue)
    BY <1>3, TailIs DEF IsAnswered
  <2> QED
    BY <2>1 DEF IsTail
<1>7. w[1] = d
  BY <1>2, <1>4
<1>8. \A e : Of(g, e) = Of(h, e)
  BY DEF Of, IsAnswered
<1>9. \A q \in Promises : q # o => g.waiting[q] = h.waiting[q]
  BY DEF IsAnswered
<1> HIDE DEF v, w, o
<1>10. ASSUME NEW e \in Promises PROVE IsWaiting(g, e) <=> IsWaiting(h, e) /\ e # d
  <2>1. CASE Of(h, e) = o
    <3>1. IsWaiting(g, e) <=> \E i \in DOMAIN v : v[i] = e
      BY <1>8, <2>1 DEF IsWaiting, v
    <3>2. IsWaiting(h, e) <=> \E i \in DOMAIN w : w[i] = e
      BY <2>1 DEF IsWaiting, w
    <3>3. ASSUME NEW i \in DOMAIN v, v[i] = e PROVE IsWaiting(h, e) /\ e # d
      BY <1>2, <1>5, <3>2, <3>3
    <3>4. ASSUME NEW i \in DOMAIN w, w[i] = e, e # d PROVE IsWaiting(g, e)
      <4>1. i # 1
        BY <1>7, <3>4
      <4> QED
        BY <1>5, <3>1, <3>4, <4>1
    <3> QED
      BY <3>1, <3>2, <3>3, <3>4
  <2>2. CASE Of(h, e) # o
    <3>1. e # d
      BY <2>2 DEF o
    <3>2. g.waiting[Of(h, e)] = h.waiting[Of(h, e)]
      BY <1>3, <1>9, <2>2
    <3> QED
      BY <1>8, <3>1, <3>2 DEF IsWaiting
  <2> QED
    BY <2>1, <2>2
<1>11. \A q \in Promises : Root(g, q) = Root(h, q)
  <2>1. FollowAlike(h, g)
    BY DEF IsAnswered, FollowAlike
  <2> QED
    BY <2>1, RootAlike
<1>12. \A q : IsASettled(g, q) <=> IsASettled(h, q)
  BY DEF IsASettled, IsAnswered
<1>13. \A es : InOrder(g, es) <=> InOrder(h, es)
  BY <1>8 DEF InOrder
<1>14. /\ \A q \in Promises : \A i \in DOMAIN h.deferreds[q] : h.deferreds[q][i] \in Promises
       /\ \A i \in DOMAIN h.queue : h.queue[i][2] \in Promises
  <2>1. \A i \in DOMAIN h.queue : h.queue[i] \in Promises \X Promises
    BY <1>3
  <2>2. \A i \in DOMAIN h.queue : h.queue[i][2] \in Promises
    BY <2>1
  <2>3. \A q \in Promises : \A i \in DOMAIN h.deferreds[q] : h.deferreds[q][i] \in Promises
    BY <1>3
  <2> QED
    BY <2>2, <2>3
<1>15. StateInv(g)
  BY <1>1 DEF StateInv, IsAnswered
<1>16. d <= h.made /\ h.state[d] = "pending"
  <2>1. PICK i \in DOMAIN w : w[i] = d
    BY <1>2 DEF IsWaiting, w, o
  <2>2. \A j \in DOMAIN h.waiting[o] :
          h.waiting[o][j] <= h.made /\ h.state[h.waiting[o][j]] = "pending"
    BY <1>1, <1>4 DEF WaitingInv
  <2> QED
    BY <2>1, <2>2 DEF w
<1>17. WaitingInv(g)
  <2> SUFFICES /\ \A q \in Promises : \A i \in DOMAIN g.waiting[q] :
                    LET e == g.waiting[q][i]
                    IN /\ e <= g.made /\ Of(g, e) = q
                       /\ g.answer[e] = NoOutcome /\ g.state[e] = "pending"
                       /\ \A j \in DOMAIN g.waiting[q] : i < j => e < g.waiting[q][j]
               /\ \A e \in Promises : e > g.made => g.answer[e] = NoOutcome
    BY Zenon DEF WaitingInv
  <2>1. ASSUME NEW q \in Promises, NEW i \in DOMAIN h.waiting[q]
        PROVE  LET e == h.waiting[q][i]
               IN /\ e \in Promises /\ e <= h.made /\ Of(h, e) = q
                  /\ h.answer[e] = NoOutcome /\ h.state[e] = "pending"
                  /\ \A j \in DOMAIN h.waiting[q] : i < j => e < h.waiting[q][j]
    BY <1>1, <1>3 DEF WaitingInv
  <2>2. ASSUME NEW q \in Promises, NEW i \in DOMAIN h.waiting[q], h.waiting[q][i] # d
        PROVE  LET e == h.waiting[q][i]
               IN /\ e <= g.made /\ Of(g, e) = q
                  /\ g.answer[e] = NoOutcome /\ g.state[e] = "pending"
    BY <1>8, <2>1, <2>2 DEF IsAnswered
  <2>3. ASSUME NEW q \in Promises, NEW i \in DOMAIN g.waiting[q]
        PROVE  LET e == g.waiting[q][i]
               IN /\ e <= g.made /\ Of(g, e) = q
                  /\ g.answer[e] = NoOutcome /\ g.state[e] = "pending"
                  /\ \A j \in DOMAIN g.waiting[q] : i < j => e < g.waiting[q][j]
    <3>1. CASE q # o
      <4>1. g.waiting[q] = h.waiting[q]
        BY <1>9, <3>1
      <4>2. h.waiting[q][i] # d
        BY <2>1, <3>1, <4>1 DEF o
      <4> QED
        BY <2>1, <2>2, <4>1, <4>2
    <3>2. CASE q = o
      <4>1. g.waiting[q] = v /\ h.waiting[q] = w
        BY <3>2 DEF v, w
      <4>2. i + 1 \in DOMAIN w /\ v[i] = w[i + 1] /\ w[i + 1] # d
        BY <1>2, <1>5, <4>1
      <4>3. ASSUME NEW j \in DOMAIN v, i < j PROVE v[i] < v[j]
        <5>1. j + 1 \in DOMAIN w /\ v[j] = w[j + 1] /\ i + 1 < j + 1
          BY <1>5, <4>1, <4>3
        <5> QED
          BY <2>1, <4>1, <4>2, <5>1
      <4> QED
        BY <2>2, <4>1, <4>2, <4>3
    <3> QED
      BY <3>1, <3>2
  <2>4. \A e \in Promises : e > g.made => g.answer[e] = NoOutcome
    <3>1. ~(d > h.made)
      BY <1>1, <1>16, FollowsMade, <1>2, MaxPromisesAssumption DEF Promises
    <3> QED
      BY <1>1, <3>1 DEF WaitingInv, IsAnswered
  <2> QED
    BY <2>3, <2>4
<1>18. DeferredInv(g)
  <2>1. g.deferreds = h.deferreds
    BY DEF IsAnswered
  <2>2. ASSUME NEW q \in Promises, NEW i \in DOMAIN h.deferreds[q]
        PROVE  IsWaiting(g, h.deferreds[q][i]) /\ Root(g, Of(g, h.deferreds[q][i])) = q
    <3>1. /\ IsWaiting(h, h.deferreds[q][i]) /\ Root(h, Of(h, h.deferreds[q][i])) = q
          /\ h.deferreds[q][i] \in Promises /\ h.deferreds[q][i] # d
      BY <1>1, <1>2, <1>14 DEF DeferredInv
    <3> QED
      BY <1>3, <1>8, <1>10, <1>11, <3>1
  <2> QED
    BY <1>1, <1>13, <2>1, <2>2 DEF DeferredInv
<1>19. QueueInv(g)
  <2>1. ASSUME NEW i \in DOMAIN g.queue
        PROVE  /\ IsASettled(g, g.queue[i][1]) /\ IsWaiting(g, g.queue[i][2])
               /\ Root(g, Of(g, g.queue[i][2])) = g.queue[i][1]
    <3>1. i + 1 \in DOMAIN h.queue /\ i + 1 # 1 /\ g.queue[i] = h.queue[i + 1]
      BY <1>6
    <3>2. /\ IsASettled(h, g.queue[i][1]) /\ IsWaiting(h, g.queue[i][2])
          /\ Root(h, Of(h, g.queue[i][2])) = g.queue[i][1]
          /\ g.queue[i][2] \in Promises /\ g.queue[i][2] # d
      BY <1>1, <1>2, <1>14, <3>1 DEF QueueInv
    <3> QED
      BY <1>3, <1>8, <1>10, <1>11, <1>12, <3>2
  <2>2. InOrder(h, Tasked(g))
    <3> SUFFICES ASSUME NEW i \in DOMAIN g.queue, NEW j \in DOMAIN g.queue, i < j,
                        Of(h, g.queue[i][2]) = Of(h, g.queue[j][2])
                 PROVE  g.queue[i][2] < g.queue[j][2]
      BY DEF InOrder, Tasked
    <3>1. /\ i + 1 \in DOMAIN h.queue /\ g.queue[i] = h.queue[i + 1]
          /\ j + 1 \in DOMAIN h.queue /\ g.queue[j] = h.queue[j + 1] /\ i + 1 < j + 1
      BY <1>6
    <3>2. InOrder(h, Tasked(h))
      BY <1>1 DEF QueueInv
    <3>3. DOMAIN Tasked(h) = DOMAIN h.queue /\ \A k \in DOMAIN h.queue : Tasked(h)[k] = h.queue[k][2]
      BY DEF Tasked
    <3> QED
      BY <3>1, <3>2, <3>3 DEF InOrder
  <2> QED
    BY <1>13, <2>1, <2>2 DEF QueueInv
<1>20. OwnerInv(g)
  BY <1>1, <1>3, <1>10 DEF OwnerInv, IsAnswered
<1>21. CallbackInv(g)
  BY <1>1 DEF CallbackInv, IsCallback, IsAnswered
<1>22. PlacedInv(g)
  <2> SUFFICES ASSUME NEW e \in Promises, IsWaiting(g, e) PROVE IsPlaced(g, e)
    BY DEF PlacedInv
  <2>1. IsPlaced(h, e) /\ e # d
    BY <1>1, <1>10 DEF PlacedInv
  <2>2. ASSUME NEW j \in DOMAIN h.queue, h.queue[j][2] = e PROVE IsPlaced(g, e)
    <3>1. j # 1
      BY <2>1, <2>2
    <3>2. j - 1 \in DOMAIN g.queue /\ g.queue[j - 1][2] = e
      BY <1>6, <2>2, <3>1
    <3> QED
      BY <3>2 DEF IsPlaced
  <2>3. g.deferreds = h.deferreds
    BY DEF IsAnswered
  <2> QED
    BY <2>1, <2>2, <2>3 DEF IsPlaced
<1>23. Free(g, d)
  <2>1. d \in 1..g.made /\ g.state[d] = "pending"
    BY <1>1, <1>2, <1>16, FollowsMade, MaxPromisesAssumption DEF IsAnswered, Promises
  <2>2. \A r \in DOMAIN h.resolver : h.resolver[r].promise = d => h.resolver[r].done
    BY <1>1, <1>2 DEF OwnerInv
  <2> QED
    BY <1>2, <1>10, <2>1, <2>2 DEF Free, IsAnswered
<1>24. \A q \in Promises : OutcomeOf(g, q) = OutcomeOf(h, q)
  BY <1>11 DEF OutcomeOf, IsAnswered
<1>25. FlushInv(g) /\ PairsInv(g)
  BY DEF FlushInv, PairsInv, IsAnswered, MemoryInv, CoreInv
<1> QED
  BY <1>10, <1>15, <1>17, <1>18, <1>19, <1>20, <1>21, <1>22, <1>23, <1>24, <1>25 DEF MemoryInv, CoreInv

\* h after the task d was taken: its handler was called with the outcome of the promise.
Taken(h, d) ==
  [h EXCEPT !.queue = Tail(@),
            !.answer[d] = <<h.state[h.queue[1][1]], h.value[h.queue[1][1]]>>,
            !.waiting[h.handler[d].of] = Without(@, d)]

LEMMA TakenIs ==
  ASSUME NEW h, MemoryInv(h), ~h.hung, h.queue # <<>>, NEW d, d = h.queue[1][2]
  PROVE  /\ IsMemory(Taken(h, d)) /\ IsAnswered(h, Taken(h, d), d)
         /\ Taken(h, d).answer = [h.answer EXCEPT ![d] = OutcomeOf(h, Of(h, d))]
         /\ OutcomeOf(h, Of(h, d)) # NoOutcome
<1> DEFINE p == h.queue[1][1]
           o == Of(h, d)
           x == <<h.state[p], h.value[p]>>
           qu == Tail(h.queue)
           an == [h.answer EXCEPT ![d] = x]
           wa == [h.waiting EXCEPT ![o] = Tail(h.waiting[o])]
           g == [h EXCEPT !.queue = qu, !.answer = an, !.waiting = wa]
<1>1. IsNext(h, d)
  BY FirstWaits
<1>2. /\ d \in Promises /\ IsASettled(h, p) /\ Root(h, o) = p
      /\ h.waiting[o] # <<>> /\ Head(h.waiting[o]) = d
      /\ \A i \in DOMAIN h.waiting[o] : h.waiting[o][i] = d => i = 1
  BY <1>1 DEF IsNext
<1>3. PICK V : h \in MemoryOf(V)
  BY DEF MemoryInv, CoreInv, IsMemory
<1>4. h \in MemoryOf(V \cup {x})
  BY <1>3, MemoryGrows
<1>5. /\ h.queue \in Seq(Promises \X Promises) /\ h.waiting \in [Promises -> Seq(Promises)]
      /\ o \in Promises
  BY <1>2, Fields DEF MemoryInv, CoreInv
<1>6. h.answer \in [Promises -> V \cup {x}]
  BY <1>4 DEF MemoryOf
<1>7. Without(h.waiting[o], d) = Tail(h.waiting[o])
  BY <1>2, <1>5, WithoutFirst
<1>8. Taken(h, d) = g
  <2>1. Taken(h, d) = [h EXCEPT !.queue = qu, !.answer = an,
                                !.waiting = [h.waiting EXCEPT ![o] = Without(h.waiting[o], d)]]
    BY DEF Taken, Of
  <2> QED
    BY <1>7, <2>1
<1>9. x = OutcomeOf(h, o) /\ x # NoOutcome
  <2>1. x = OutcomeOf(h, o)
    BY <1>2 DEF OutcomeOf, IsASettled
  <2>2. x[1] \in {"fulfilled", "rejected"} /\ NoOutcome[1] = "pending"
    BY <1>2 DEF IsASettled, NoOutcome
  <2> QED
    BY <2>1, <2>2
<1> HIDE DEF x, o, p
<1>10. qu \in Seq(Promises \X Promises)
  BY <1>5
<1>11. an \in [Promises -> V \cup {x}] /\ \A e \in Promises \ {d} : an[e] = h.answer[e]
  BY <1>2, <1>6
<1>12. /\ wa \in [Promises -> Seq(Promises)] /\ wa[o] = Tail(h.waiting[o])
       /\ \A q \in Promises \ {o} : wa[q] = h.waiting[q]
  <2>1. Tail(h.waiting[o]) \in Seq(Promises)
    BY <1>2, <1>5
  <2> QED
    BY <1>5, <2>1
<1>13. qu = Tail(h.queue) /\ an = [h.answer EXCEPT ![d] = x]
  OBVIOUS
<1> HIDE DEF qu, an, wa
<1>14. g \in MemoryOf(V \cup {x})
  BY <1>4, <1>10, <1>11, <1>12 DEF MemoryOf
<1>15. /\ g.made = h.made /\ g.state = h.state /\ g.value = h.value /\ g.deferreds = h.deferreds
       /\ g.handler = h.handler /\ g.resolver = h.resolver /\ g.hung = h.hung
       /\ g.queue = qu /\ g.answer = an /\ g.waiting = wa
       /\ g.gather = h.gather /\ g.flush = h.flush
  BY <1>3 DEF MemoryOf
<1> HIDE DEF g
<1>16. IsMemory(g)
  BY <1>14 DEF IsMemory
<1>17. IsAnswered(h, g, d)
  BY <1>11, <1>12, <1>13, <1>15 DEF IsAnswered, o
<1> QED
  BY <1>8, <1>9, <1>13, <1>15, <1>16, <1>17 DEF o

LEMMA InputsPossible ==
  ASSUME MemoryInv(m), NEW n
  PROVE  \A x \in Inputs(n) : Possible(m, x)
<1>1. ~IsPromise(Plain(n)) /\ ~IsPromise(Thenable)
  BY DEF IsPromise, Plain, Thenable
<1>2. \A p \in Passed \cap 1..m.made : Possible(m, Ref(p))
  BY DEF Possible, Ref
<1> QED
  BY <1>1, <1>2 DEF Inputs, Possible

LEMMA ReasonPossible ==
  ASSUME NEW h, NEW e \in Reason
  PROVE  Possible(h, e)
BY DEF Reason, Possible, IsPromise

\* The function that the first task calls, what with, and the memory after it.
Callback(h) ==
  IF h.state[h.queue[1][1]] = "fulfilled" THEN h.handler[h.queue[1][2]].onFulfilled
  ELSE h.handler[h.queue[1][2]].onRejected

Input(h) == h.value[h.queue[1][1]]

Called(h) ==
  LET f == Taken(h, h.queue[1][2])
  IN IF Callback(h) \in {None, Script} THEN f ELSE Calls(f, Callback(h), Input(h))

\* The task answers its handler, calls its function, and settles its promise.
LEMMA TaskIs ==
  ASSUME MemoryInv(m), ~m.hung, RunTask
  PROVE  LET d == m.queue[1][2]
             h == Taken(m, d)
         IN /\ m.queue # <<>> /\ d \in Promises
            /\ MemoryInv(h) /\ Free(h, d) /\ IsAnswered(m, h, d)
            /\ IsCallback(h, Callback(m)) /\ Possible(h, Input(m))
            /\ Free(Called(m), d) /\ Keeps(Called(m), m', d)
            /\ \E k : Goes(h, Called(m), k)
<1> DEFINE p == m.queue[1][1]
           d == m.queue[1][2]
           x == Input(m)
           cb == Callback(m)
           h == Taken(m, d)
           f == Called(m)
<1>1. m.queue # <<>>
  BY DEF RunTask
<1>2. (CASE cb = None ->
              m' = IF m.state[p] = "fulfilled" THEN Resolve(h, d, x) ELSE Reject(h, d, x)
         [] cb = Script ->
              \/ \E e \in Reason : m' = Reject(h, d, e)
              \/ \E y \in Inputs(0) : Fits(y) /\ m' = Resolve(h, d, y)
         [] OTHER -> m' = Resolve(Calls(h, cb, x), d, Undefined))
  BY DEF RunTask, Taken, Callback, Input
<1>3. d \in Promises /\ p \in Promises
  BY <1>1, FirstWaits DEF IsNext
<1>4. IsMemory(h) /\ IsAnswered(m, h, d)
  BY <1>1, TakenIs
<1>5. IsCallback(m, cb)
  BY <1>3 DEF MemoryInv, CoreInv, CallbackInv, Callback
<1>6. Possible(m, x)
  BY <1>3 DEF MemoryInv, CoreInv, StateInv, Possible, Input
<1>7. f = IF cb \in {None, Script} THEN h ELSE Calls(h, cb, x)
  BY DEF Called
<1> HIDE DEF h, f
<1>8. MemoryInv(h) /\ Free(h, d)
  BY <1>1, <1>4, AnsweredInv
<1>9. IsCallback(h, cb) /\ Possible(h, x) /\ \A y \in Inputs(0) : Possible(h, y)
  <2>1. h.made = m.made /\ h.resolver = m.resolver
    BY <1>4 DEF IsAnswered
  <2> HIDE DEF cb, x
  <2> QED
    BY <1>5, <1>6, <2>1, InputsPossible DEF Possible, IsCallback
<1> HIDE DEF d, x, cb
<1>10. ASSUME cb \in {None, Script} PROVE Free(f, d) /\ Keeps(f, m', d) /\ \E k : Goes(h, f, k)
  <2>1. None # Script /\ f = h
    BY <1>7, <1>10 DEF None, Script
  <2>2. \E y : Possible(h, y) /\ (m' = Resolve(h, d, y) \/ m' = Reject(h, d, y))
    BY <1>2, <1>9, <1>10, <2>1, ReasonPossible
  <2>3. Keeps(h, m', d)
    BY <1>8, <2>2, ResolveInv, RejectInv
  <2> QED
    BY <1>8, <2>1, <2>3, GoesSelf
<1>11. ASSUME cb \notin {None, Script} PROVE Free(f, d) /\ Keeps(f, m', d) /\ \E k : Goes(h, f, k)
  <2>1. m' = Resolve(f, d, Undefined) /\ f = Calls(h, cb, x)
    BY <1>2, <1>7, <1>11
  <2>2. PICK k : Goes(h, f, k)
    BY <1>8, <1>9, <1>11, <2>1, CallsInv
  <2>3. MemoryInv(f) /\ Free(f, d)
    BY <1>3, <1>8, <2>2 DEF Goes, Passes, d
  <2>4. Possible(f, Undefined)
    BY DEF Possible, IsPromise, Undefined
  <2>5. Keeps(f, m', d)
    BY <2>1, <2>3, <2>4, ResolveInv
  <2> QED
    BY <2>2, <2>3, <2>5
<1> QED
  BY <1>1, <1>3, <1>4, <1>8, <1>9, <1>10, <1>11 DEF d, h, f, x, cb

LEMMA RunTaskInv ==
  ASSUME MemoryInv(m), ~m.hung, RunTask
  PROVE  /\ MemoryInv(m') /\ Extends(Taken(m, m.queue[1][2]), m')
         /\ m.queue # <<>>
<1> DEFINE d == m.queue[1][2]
           h == Taken(m, d)
           f == Called(m)
<1>1. m.queue # <<>> /\ MemoryInv(h) /\ Keeps(f, m', d)
  BY TaskIs
<1>2. PICK k : Goes(h, f, k)
  BY TaskIs
<1> HIDE DEF d, h, f
<1>3. MemoryInv(m') /\ Extends(h, m')
  BY <1>1, <1>2, GoesKeeps
<1> QED
  BY <1>1, <1>3 DEF d, h

\* The item a handler waited for is in hand when it is taken out of the queue.
LEMMA TakenStep ==
  ASSUME NEW h, MemoryInv(h), NEW d \in Promises, IsWaiting(h, d),
         NEW g, MemoryInv(g), IsAnswered(h, g, d),
         \A e \in Promises : IsWaiting(g, e) <=> IsWaiting(h, e) /\ e # d,
         NEW r \in DOMAIN h.resolver, GatherAt(h, r, {})
  PROVE  GatherAt(g, r, {i \in DOMAIN ItemsOf(h, r) : IsFor(h, d, r, i)})
<1> DEFINE items == ItemsOf(h, r)
           K == {i \in DOMAIN items : IsFor(h, d, r, i)}
<1>1. /\ g.state = h.state /\ g.value = h.value /\ g.made = h.made /\ g.handler = h.handler
      /\ g.resolver = h.resolver /\ g.gather = h.gather /\ g.hung = h.hung
  BY DEF IsAnswered
<1>2. /\ \A x : Possible(h, x) => Comes(g, x) = Comes(h, x)
      /\ \A o : Basin(g, o) = Basin(h, o)
  BY <1>1, SameOutcomes
<1>3. ItemsOf(g, r) = items /\ (IsGathering(g, r) <=> IsGathering(h, r))
  BY <1>1 DEF ItemsOf, IsGathering
<1>4. \A e, i : IsFor(g, e, r, i) <=> IsFor(h, e, r, i)
  BY <1>1, <1>2, <1>3 DEF IsFor, Of
<1>5. \A e : Concerns(g, e, r) <=> Concerns(h, e, r)
  BY <1>1 DEF Concerns
<1> SUFFICES ASSUME IsGathering(h, r) PROVE GatherAt(g, r, K)
  BY <1>3 DEF GatherAt
<1>6. IsCallOfAll(h, r) /\ IsCallOfAll(g, r)
  BY <1>1, <1>3 DEF GatherAt, IsCallOfAll, Possible
<1>7. CASE h.resolver[r].done
  <2>1. AnswersItems(h, r)
    BY <1>7 DEF GatherAt
  <2>2. OutcomeOf(g, h.resolver[r].promise) = OutcomeOf(h, h.resolver[r].promise)
    <3>1. FollowAlike(h, g) /\ h.resolver[r].promise \in Promises
      BY <1>1, Fields DEF FollowAlike, MemoryInv, CoreInv
    <3> QED
      BY <1>1, <3>1, RootAlike DEF OutcomeOf
  <2>3. \A i \in DOMAIN items : Comes(g, items[i]) = Comes(h, items[i])
    BY <1>2, <1>6 DEF IsCallOfAll
  <2> HIDE DEF items
  <2>4. AnswersItems(g, r)
    BY <1>1, <1>3, <2>1, <2>2, <2>3 DEF AnswersItems, items
  <2> QED
    BY <1>1, <1>6, <1>7, <2>4 DEF GatherAt
<1>8. CASE ~h.resolver[r].done
  <2>1. PICK C : IsCollecting(h, r, C, {})
    BY <1>8 DEF GatherAt
  <2> DEFINE others == DOMAIN items \ (C \cup {})
             now == DOMAIN items \ (C \cup K)
  <2>2. \A i \in K : i \in others
    BY <2>1, WaitedFor
  <2>3. C \in SUBSET (DOMAIN items \ K)
    BY <2>1, <2>2 DEF IsCollecting
  <2>4. \A i \in C : Comes(g, items[i]) = <<"fulfilled", g.gather[r].args[i]>>
    <3>1. \A i \in C : i \in DOMAIN items /\ Comes(h, items[i]) = <<"fulfilled", h.gather[r].args[i]>>
      BY <2>1 DEF IsCollecting
    <3>2. \A i \in C : Possible(h, items[i])
      BY <1>6, <3>1 DEF IsCallOfAll
    <3> HIDE DEF items
    <3> QED
      BY <1>1, <1>2, <3>1, <3>2
  <2>5. ASSUME NEW e \in Promises, IsWaiting(g, e), Concerns(g, e, r)
        PROVE  \E i \in now : IsFor(g, e, r, i)
    <3>1. IsWaiting(h, e) /\ e # d /\ Concerns(h, e, r)
      BY <1>5, <2>5
    <3>2. PICK i \in others : IsFor(h, e, r, i)
      BY <2>1, <3>1 DEF IsCollecting
    <3>3. i \notin K
      BY <2>1, <3>1, <3>2 DEF IsCollecting
    <3> QED
      BY <1>4, <3>2, <3>3
  <2>6. \A c, e \in Promises : \A i \in now :
          IsWaiting(g, c) /\ IsFor(g, c, r, i) /\ IsWaiting(g, e) /\ IsFor(g, e, r, i) => c = e
    BY <1>4, <2>1 DEF IsCollecting
  <2>7. ASSUME ~g.hung, NEW i \in now PROVE \E e \in Promises : IsWaiting(g, e) /\ IsFor(g, e, r, i)
    <3>1. i \in others
      OBVIOUS
    <3>2. PICK e \in Promises : IsWaiting(h, e) /\ IsFor(h, e, r, i)
      BY <1>1, <2>1, <2>7, <3>1 DEF IsCollecting
    <3> QED
      BY <1>4, <3>1, <3>2
  <2> HIDE DEF K
  <2>8. IsCollecting(g, r, C, K)
    BY <1>1, <1>3, <2>1, <2>3, <2>4, <2>5, <2>6, <2>7 DEF IsCollecting
  <2> QED
    BY <1>1, <1>6, <1>8, <2>8 DEF GatherAt
<1> QED
  BY <1>7, <1>8

\* The handler of an item that settled calls all with what the item came to.
LEMMA FirstItem ==
  ASSUME NEW h, MemoryInv(h), IsNext(h, h.queue[1][2]), NEW r, NEW i,
         IsFor(h, h.queue[1][2], r, i)
  PROVE  /\ Comes(h, ItemsOf(h, r)[i]) = <<h.state[h.queue[1][1]], Input(h)>>
         /\ \/ h.state[h.queue[1][1]] = "fulfilled" /\ Callback(h) = <<"gather", r, i>>
            \/ h.state[h.queue[1][1]] = "rejected" /\ Callback(h) = <<"reject", r>>
<1> DEFINE d == h.queue[1][2]
           p == h.queue[1][1]
           o == Of(h, d)
           x == ItemsOf(h, r)[i]
<1>1. d \in Promises /\ IsASettled(h, p) /\ Root(h, o) = p
  BY DEF IsNext
<1>2. o \in Promises
  BY <1>1, Fields DEF MemoryInv, CoreInv
<1>3. IsPromise(x) /\ x[2] \in Basin(h, o)
  BY DEF IsFor
<1>4. OutcomeOf(h, x[2]) = OutcomeOf(h, o)
  BY <1>1, <1>2, <1>3, BasinEnd DEF IsASettled
<1>5. OutcomeOf(h, o) = <<h.state[p], Input(h)>>
  BY <1>1 DEF OutcomeOf, IsASettled, Input
<1>6. Comes(h, x) = <<h.state[p], Input(h)>>
  BY <1>3, <1>4, <1>5 DEF Comes
<1>7. \/ h.state[p] = "fulfilled" /\ Callback(h) = <<"gather", r, i>>
      \/ h.state[p] = "rejected" /\ Callback(h) = <<"reject", r>>
  BY <1>1 DEF IsASettled, Callback, IsFor
<1> QED
  BY <1>6, <1>7

\* The library answers an item that it waited for: it is kept, or all is rejected.
LEMMA CalledGathers ==
  ASSUME MemoryInv(m), ~m.hung, RunTask, GathersInv(m)
  PROVE  GathersInv(Called(m)) /\ MemoryInv(Called(m))
<1> DEFINE d == m.queue[1][2]
           p == m.queue[1][1]
           h == Taken(m, d)
           f == Called(m)
           cb == Callback(m)
           x == Input(m)
           K(r) == {i \in DOMAIN ItemsOf(m, r) : IsFor(m, d, r, i)}
<1>1. /\ m.queue # <<>> /\ d \in Promises /\ MemoryInv(h) /\ IsAnswered(m, h, d)
      /\ IsCallback(h, cb) /\ Possible(h, x)
  BY TaskIs
<1>2. f = IF cb \in {None, Script} THEN h ELSE Calls(h, cb, x)
  BY DEF Called
<1>3. IsNext(m, d)
  BY <1>1, FirstWaits
<1>4. \A e \in Promises : IsWaiting(h, e) <=> IsWaiting(m, e) /\ e # d
  BY <1>1, AnsweredInv DEF MemoryInv, CoreInv
<1>5. DOMAIN h.resolver = DOMAIN m.resolver
  BY <1>1 DEF IsAnswered
<1>6. \A r, i : IsFor(m, d, r, i) => /\ cb[1] \in {"gather", "reject"} /\ cb[2] = r
                                     /\ Comes(m, ItemsOf(m, r)[i]) = <<m.state[p], x>>
                                     /\ \/ m.state[p] = "fulfilled" /\ cb = <<"gather", r, i>>
                                        \/ m.state[p] = "rejected" /\ cb = <<"reject", r>>
  <2> SUFFICES ASSUME NEW r, NEW i, IsFor(m, d, r, i)
               PROVE  /\ cb[1] \in {"gather", "reject"} /\ cb[2] = r
                      /\ Comes(m, ItemsOf(m, r)[i]) = <<m.state[p], x>>
                      /\ \/ m.state[p] = "fulfilled" /\ cb = <<"gather", r, i>>
                         \/ m.state[p] = "rejected" /\ cb = <<"reject", r>>
    OBVIOUS
  <2>1. /\ Comes(m, ItemsOf(m, r)[i]) = <<m.state[p], x>>
        /\ \/ m.state[p] = "fulfilled" /\ cb = <<"gather", r, i>>
           \/ m.state[p] = "rejected" /\ cb = <<"reject", r>>
    BY <1>3, FirstItem
  <2>2. cb[1] \in {"gather", "reject"} /\ cb[2] = r
    <3> HIDE DEF cb, p, x
    <3> QED
      BY <2>1
  <2> QED
    BY <2>1, <2>2
<1> HIDE DEF h, f, cb, x
<1>7. ASSUME NEW r \in DOMAIN m.resolver PROVE GatherAt(h, r, K(r))
  BY <1>1, <1>3, <1>4, <1>7, TakenStep DEF GathersInv, IsNext
<1>8. ASSUME NEW r \in DOMAIN m.resolver, ~(cb[1] \in {"gather", "reject"} /\ cb[2] = r)
      PROVE  GatherAt(h, r, {})
  <2>1. K(r) = {}
    BY <1>6, <1>8
  <2> QED
    BY <1>7, <2>1
<1>9. CASE cb \in {None, Script}
  <2>1. f = h /\ cb[1] \notin {"gather", "reject"}
    BY <1>2, <1>9 DEF None, Script
  <2> QED
    BY <1>1, <1>5, <1>8, <2>1 DEF GathersInv, f
<1>10. CASE cb \notin {None, Script} /\ cb[1] = "throw"
  <2>1. Goes(h, f, 0)
    BY <1>1, <1>2, <1>10, CallsInv
  <2>2. 0 \notin DOMAIN f.resolver
    BY <2>1, Fields DEF Goes, Passes, MemoryInv, CoreInv
  <2>3. GathersInv(f)
    BY <1>1, <1>5, <1>8, <1>10, <2>1, <2>2, GathersKept DEF Goes, Passes
  <2> QED
    BY <2>1, <2>3 DEF Goes, Passes, f
<1>11. CASE cb \notin {None, Script} /\ cb[1] # "throw"
  <2> DEFINE k == cb[2]
  <2>1. k \in DOMAIN h.resolver /\ Goes(h, f, k) /\ f = Calls(h, cb, x)
    BY <1>1, <1>2, <1>11, CallsInv
  <2>2. cb[1] \in {"gather", "resolve", "reject"}
    BY <1>1, <1>11 DEF IsCallback
  <2>3. GatherAt(h, k, K(k))
    BY <1>5, <1>7, <2>1
  <2>4. GatherAt(f, k, {})
    <3>1. CASE ~IsGathering(h, k) \/ h.resolver[k].done
      BY <1>1, <2>1, <2>3, <3>1, GatherStays
    <3>2. CASE IsGathering(h, k) /\ ~h.resolver[k].done
      <4>1. IsGathering(m, k) /\ ~m.resolver[k].done /\ k \in DOMAIN m.resolver
        BY <1>1, <1>5, <2>1, <3>2 DEF IsAnswered, IsGathering, ItemsOf
      <4>2. PICK C : IsCollecting(m, k, C, {})
        BY <4>1 DEF GathersInv, GatherAt
      <4>3. Concerns(m, d, k) /\ IsWaiting(m, d)
        BY <1>3, <2>2 DEF Concerns, About, cb, Callback, IsNext
      <4>4. PICK i \in DOMAIN ItemsOf(m, k) : IsFor(m, d, k, i)
        BY <1>1, <4>2, <4>3 DEF IsCollecting
      <4>5. /\ Comes(m, ItemsOf(m, k)[i]) = <<m.state[p], x>>
            /\ \/ m.state[p] = "fulfilled" /\ cb = <<"gather", k, i>>
               \/ m.state[p] = "rejected" /\ cb = <<"reject", k>>
        BY <1>6, <4>4
      <4>6. ItemsOf(h, k) = ItemsOf(m, k)
        BY <1>1 DEF IsAnswered, ItemsOf
      <4>7. Comes(h, ItemsOf(h, k)[i]) = <<m.state[p], x>>
        <5>1. Possible(m, ItemsOf(m, k)[i])
          BY <4>1, <4>4 DEF GathersInv, GatherAt, IsCallOfAll
        <5>2. h.state = m.state /\ h.value = m.value
          BY <1>1 DEF IsAnswered
        <5> QED
          BY <4>5, <4>6, <5>1, <5>2, SameOutcomes
      <4>8. CASE m.state[p] = "fulfilled" /\ cb = <<"gather", k, i>>
        <5>1. ASSUME NEW j \in K(k) PROVE j = i
          <6>1. m.handler[d].onFulfilled = <<"gather", k, j>>
            BY DEF IsFor
          <6>2. m.handler[d].onFulfilled = <<"gather", k, i>>
            BY <4>4 DEF IsFor
          <6> HIDE DEF k, K
          <6>3. <<"gather", k, j>>[3] = j /\ <<"gather", k, i>>[3] = i
            OBVIOUS
          <6> QED
            BY <6>1, <6>2, <6>3, Zenon
        <5>2. i \in K(k) /\ K(k) \ {i} = {}
          BY <4>4, <5>1
        <5>3. f = Gather(h, k, i, x)
          <6>1. cb[1] = "gather" /\ cb[2] = k /\ cb[3] = i
            BY <4>8
          <6> HIDE DEF k
          <6> QED
            BY <2>1, <6>1 DEF Calls
        <5> HIDE DEF k, K
        <5>4. GatherAt(Gather(h, k, i, x), k, K(k) \ {i})
          BY <1>1, <2>1, <2>3, <4>4, <4>6, <4>7, <4>8, <5>2, GatherStep
        <5> QED
          BY <5>2, <5>3, <5>4
      <4>9. CASE m.state[p] = "rejected" /\ cb = <<"reject", k>>
        <5>1. f = CallReject(h, k, x)
          <6>1. cb[1] = "reject" /\ cb[2] = k
            BY <4>9
          <6> HIDE DEF k
          <6> QED
            BY <2>1, <6>1 DEF Calls
        <5> HIDE DEF k, K
        <5> QED
          BY <1>1, <2>1, <2>3, <4>4, <4>6, <4>7, <4>9, <5>1, RejectStep
      <4> QED
        BY <4>5, <4>8, <4>9
    <3> QED
      BY <3>1, <3>2
  <2> HIDE DEF k
  <2>5. \A r \in DOMAIN h.resolver \ {k} : GatherAt(h, r, {})
    BY <1>5, <1>8 DEF k
  <2>6. MemoryInv(f) /\ Extends(h, f) /\ \A r : r # k => Leaves(h, f, r)
    BY <2>1 DEF Goes, Passes
  <2>7. GathersInv(f)
    BY <1>1, <2>4, <2>5, <2>6, GathersKept
  <2> QED
    BY <2>6, <2>7 DEF f
<1> QED
  BY <1>9, <1>10, <1>11

LEMMA RunTaskGathers ==
  ASSUME MemoryInv(m), ~m.hung, RunTask, GathersInv(m)
  PROVE  GathersInv(m')
<1> DEFINE d == m.queue[1][2]
           f == Called(m)
<1>1. GathersInv(f) /\ MemoryInv(f) /\ Keeps(f, m', d)
  BY CalledGathers, TaskIs
<1> HIDE DEF d, f
<1>2. MemoryInv(m') /\ Extends(f, m') /\ \A r : Leaves(f, m', r)
  BY <1>1 DEF Keeps
<1>3. 0 \notin DOMAIN m'.resolver
  BY <1>2, Fields DEF MemoryInv, CoreInv
<1> QED
  BY <1>1, <1>2, <1>3, GathersKept DEF GathersInv

\* The memory is sound, and scripts make calls.
IInv == MemoryInv(m) /\ script \in Seq(Call)

LEMMA InitInv ==
  Init => IInv
<1> SUFFICES ASSUME Init PROVE IInv
  OBVIOUS
<1> DEFINE V == {Undefined, None, <<>>, "idle", {}, <<"pending">>}
           none == [p \in Promises |-> <<>>]
           ha == [p \in Promises |-> [of |-> p, onFulfilled |-> None, onRejected |-> None]]
<1>1. /\ m.made = 0 /\ m.state = [p \in Promises |-> "pending"]
      /\ m.value = [p \in Promises |-> Undefined]
      /\ m.deferreds = none /\ m.handler = ha /\ m.resolver = <<>> /\ m.queue = <<>>
      /\ m.waiting = none /\ m.answer = [p \in Promises |-> NoOutcome] /\ m.gather = <<>>
  BY DEF Init, NoOutcome
<1>2. m \in MemoryOf(V)
  <2>1. none \in [Promises -> Seq(Promises)]
    OBVIOUS
  <2>2. ha \in [Promises -> [of : Promises, onFulfilled : V, onRejected : V]]
    OBVIOUS
  <2>3. m = [made |-> 0, state |-> [p \in Promises |-> "pending"],
             value |-> [p \in Promises |-> Undefined], deferreds |-> none, handler |-> ha,
             resolver |-> <<>>, gather |-> <<>>, queue |-> <<>>, flush |-> "idle", thrown |-> {},
             hung |-> FALSE, waiting |-> none, answer |-> [p \in Promises |-> <<"pending">>]]
    BY DEF Init
  <2> HIDE DEF none, ha
  <2> QED
    BY <2>1, <2>2, <2>3 DEF MemoryOf, State
<1>3. IsMemory(m)
  BY <1>2 DEF IsMemory
<1>4. StateInv(m)
  BY <1>1, MaxPromisesAssumption DEF StateInv, IsPromise, Undefined
<1>5. \A d \in Promises : ~IsWaiting(m, d)
  BY <1>1 DEF IsWaiting, Of
<1>6. WaitingInv(m)
  BY <1>1 DEF WaitingInv
<1>7. DeferredInv(m)
  BY <1>1 DEF DeferredInv, InOrder
<1>8. QueueInv(m)
  BY <1>1 DEF QueueInv, InOrder, Tasked
<1>9. OwnerInv(m) /\ PlacedInv(m)
  BY <1>1, <1>5 DEF OwnerInv, PlacedInv
<1>10. CallbackInv(m)
  BY <1>1 DEF CallbackInv, IsCallback
<1>11. script \in Seq(Call)
  BY ScriptsAssumption DEF Init
<1>12. FlushInv(m) /\ PairsInv(m)
  BY <1>1 DEF FlushInv, PairsInv
<1> QED
  BY <1>3, <1>4, <1>6, <1>7, <1>8, <1>9, <1>10, <1>11, <1>12 DEF IInv, MemoryInv, CoreInv

\* A pair that is not of the library is none of a call of all.
LEMMA CallerStays ==
  ASSUME MemoryInv(m), NEW r \in Held, NEW g, Goes(m, g, r)
  PROVE  GoesOn(g)
<1>1. r \in DOMAIN m.resolver /\ m.resolver[r].holder = "script"
  BY Fields DEF Held, MemoryInv, CoreInv
<1>2. ASSUME GathersInv(m) PROVE GatherAt(g, r, {})
  <2>1. GatherAt(m, r, {})
    BY <1>1, <1>2 DEF GathersInv
  <2>2. ~IsGathering(m, r)
    BY <1>1, <2>1 DEF GatherAt, IsCallOfAll
  <2> QED
    BY <1>1, <2>1, <2>2, GatherStays
<1> QED
  BY <1>2 DEF GoesOn, Goes

\* Every step but the task of a handler only goes on.
LEMMA NextGoes ==
  ASSUME IInv, Next
  PROVE  RunTask \/ GoesOn(m')
<1>1. MemoryInv(m) /\ script \in Seq(Call) /\ ~m.hung
  BY DEF IInv, Next
<1>2. CASE ScriptCalls
  <2>1. Head(script) \in Call /\ CanCall(Head(script)) /\ m' = After(Head(script))
    BY <1>1, <1>2 DEF ScriptCalls
  <2> QED
    BY <1>1, <2>1, AfterInv
<1>3. ASSUME NEW r \in Held, Resolves(r) PROVE GoesOn(m')
  <2>1. r \in DOMAIN m.resolver
    BY <1>1, Fields DEF Held, MemoryInv, CoreInv
  <2>2. PICK x : Possible(m, x) /\ m' = CallResolve(m, r, x)
    <3>1. Possible(m, Plain(r))
      BY DEF Possible, IsPromise, Plain
    <3> QED
      BY <1>1, <1>3, <3>1, InputsPossible DEF Resolves
  <2>3. Goes(m, m', r)
    BY <1>1, <2>1, <2>2, CallResolveInv
  <2> QED
    BY <1>1, <2>3, CallerStays
<1>4. ASSUME NEW r \in Held, Rejects(r) PROVE GoesOn(m')
  <2>1. r \in DOMAIN m.resolver
    BY <1>1, Fields DEF Held, MemoryInv, CoreInv
  <2>2. PICK e \in Reason : m' = CallReject(m, r, e)
    BY <1>4 DEF Rejects
  <2>3. Goes(m, m', r)
    BY <1>1, <2>1, <2>2, ReasonPossible, CallRejectInv
  <2> QED
    BY <1>1, <2>3, CallerStays
<1>5. CASE FlushStarts
  <2>1. m' = [m EXCEPT !.flush = "running"]
    BY <1>5 DEF FlushStarts
  <2> QED
    BY <1>1, <2>1, FlushField, GoesOnFreely
<1>6. CASE FlushEnds
  <2>1. m' = [m EXCEPT !.flush = "idle"] /\ m.queue = <<>>
    BY <1>6 DEF FlushEnds
  <2> QED
    BY <1>1, <2>1, FlushField, GoesOnFreely
<1> QED
  BY <1>2, <1>3, <1>4, <1>5, <1>6 DEF Next, ScriptTurn, Flush

LEMMA NextInv ==
  IInv /\ [Next]_vars => IInv'
<1> SUFFICES ASSUME IInv, [Next]_vars PROVE IInv'
  OBVIOUS
<1>1. MemoryInv(m')
  <2>1. CASE Next
    BY <2>1, NextGoes, RunTaskInv DEF GoesOn, Passes, IInv, Next
  <2>2. CASE UNCHANGED vars
    BY <2>2 DEF IInv, vars
  <2> QED
    BY <2>1, <2>2
<1>2. script' \in Seq(Call)
  <2>1. CASE ScriptCalls
    BY <2>1 DEF ScriptCalls, IInv
  <2>2. CASE ~ScriptCalls
    BY <2>2 DEF Next, ScriptTurn, Flush, Resolves, Rejects, FlushStarts, RunTask, FlushEnds, vars, IInv
  <2> QED
    BY <2>1, <2>2
<1> QED
  BY <1>1, <1>2 DEF IInv

\* The memory of the library stays sound, whatever scripts do: what has settled
\* holds no handler, who may settle a promise has not, and no handler is lost.
THEOREM MemoryIsSound == Spec => []IInv
<1>1. Init => IInv
  BY InitInv
<1>2. IInv /\ [Next]_vars => IInv'
  BY NextInv
<1> QED
  BY <1>1, <1>2, PTL DEF Spec

-----------------------------------------------------------------------------
(* The answers of all *)

AInv == IInv /\ GathersInv(m)

LEMMA GathersGo ==
  ASSUME AInv, [Next]_vars
  PROVE  GathersInv(m')
<1>1. CASE RunTask
  <2>1. ~m.hung \/ m' = m
    BY DEF Next, vars
  <2> QED
    BY <1>1, <2>1, RunTaskGathers DEF AInv, IInv
<1>2. CASE GoesOn(m')
  <2>1. PICK k : Passes(m, m', k) /\ (k \in DOMAIN m'.resolver => GatherAt(m', k, {}))
    BY <1>2 DEF GoesOn, AInv
  <2> QED
    BY <2>1, GathersKept DEF Passes, GathersInv, AInv, IInv
<1>3. CASE UNCHANGED vars
  BY <1>3 DEF vars, AInv
<1> QED
  BY <1>1, <1>2, <1>3, NextGoes DEF AInv

LEMMA GathersAlways ==
  Spec => []AInv
<1>1. Init => AInv
  BY InitInv DEF AInv, GathersInv, Init
<1>2. AInv /\ [Next]_vars => AInv'
  BY NextInv, GathersGo DEF AInv
<1> QED
  BY <1>1, <1>2, PTL DEF Spec

\* A call of all that scripts see is one that the invariant speaks of.
LEMMA GatheringIs ==
  ASSUME AInv, NEW r \in Gatherings
  PROVE  /\ r \in DOMAIN m.resolver /\ IsGathering(m, r) /\ GatherAt(m, r, {})
         /\ m.gather[r].items = ItemsOf(m, r) /\ m.resolver[r].promise \in Promises
<1>1. r \in DOMAIN m.resolver /\ m.resolver[r].promise \in Promises
  BY Fields DEF Gatherings, AInv, IInv, MemoryInv, CoreInv
<1>2. m.gather[r].items = ItemsOf(m, r)
  BY <1>1 DEF ItemsOf
<1>3. IsGathering(m, r)
  BY <1>2 DEF Gatherings, IsGathering
<1> QED
  BY <1>1, <1>2, <1>3 DEF AInv, GathersInv

LEMMA Pending ==
  ASSUME MemoryInv(m), NEW r \in DOMAIN m.resolver, ~m.resolver[r].done
  PROVE  OutcomeOf(m, m.resolver[r].promise) = NoOutcome
<1>1. m.resolver[r].promise \in Promises /\ m.state[m.resolver[r].promise] = "pending"
  BY Fields DEF MemoryInv, CoreInv, OwnerInv
<1> QED
  BY <1>1, RootIs DEF OutcomeOf

LEMMA ItemsAnswered ==
  AInv => AllAnswersItsItems
<1> SUFFICES ASSUME AInv, NEW r \in Gatherings
             PROVE  LET out == Outcome(m.resolver[r].promise)
                        items == m.gather[r].items
                    IN /\ out[1] = "fulfilled" =>
                            \A i \in DOMAIN items : ItemOutcome(items[i]) = <<"fulfilled", out[2][2][i]>>
                       /\ out[1] = "rejected" => \E i \in DOMAIN items : ItemOutcome(items[i]) = out
  BY DEF AllAnswersItsItems
<1> DEFINE p == m.resolver[r].promise
           items == m.gather[r].items
<1>1. /\ r \in DOMAIN m.resolver /\ IsGathering(m, r) /\ GatherAt(m, r, {})
      /\ items = ItemsOf(m, r)
  BY GatheringIs
<1>2. Outcome(p) = OutcomeOf(m, p) /\ \A x : ItemOutcome(x) = Comes(m, x)
  BY DEF Outcome, ItemOutcome, Comes
<1>3. CASE ~m.resolver[r].done
  <2>1. Outcome(p) = NoOutcome
    BY <1>1, <1>2, <1>3, Pending DEF AInv, IInv
  <2>2. Outcome(p)[1] = "pending"
    BY <2>1 DEF NoOutcome
  <2> QED
    BY <2>2
<1>4. CASE m.resolver[r].done
  <2>1. AnswersItems(m, r)
    BY <1>1, <1>4 DEF GatherAt
  <2> HIDE DEF items
  <2> QED
    BY <1>1, <1>2, <2>1 DEF AnswersItems, items
<1> QED
  BY <1>3, <1>4

\* An item that is missing has not settled: its handler waits behind a pending promise.
LEMMA MissingItem ==
  ASSUME MemoryInv(m), m.flush = "idle", ~m.hung, NEW d \in Promises, IsWaiting(m, d),
         NEW r, NEW i, IsFor(m, d, r, i)
  PROVE  Comes(m, ItemsOf(m, r)[i]) = NoOutcome
<1> DEFINE x == ItemsOf(m, r)[i]
           o == Of(m, d)
<1>1. m.queue = <<>>
  BY DEF MemoryInv, CoreInv, FlushInv
<1>2. PICK q \in Promises : \E j \in DOMAIN m.deferreds[q] : m.deferreds[q][j] = d
  BY <1>1 DEF MemoryInv, PlacedInv, IsPlaced
<1>3. Root(m, o) = q /\ m.state[q] = "pending"
  BY <1>2 DEF MemoryInv, CoreInv, DeferredInv, StateInv
<1>4. IsPromise(x) /\ x[2] \in Basin(m, o) /\ o \in Promises
  BY Fields DEF IsFor, MemoryInv, CoreInv
<1>5. OutcomeOf(m, x[2]) = OutcomeOf(m, o)
  BY <1>3, <1>4, BasinEnd
<1> QED
  BY <1>3, <1>4, <1>5 DEF Comes, OutcomeOf

LEMMA ItemsSettle ==
  AInv => AllSettlesWithItsItems
<1> SUFFICES ASSUME AInv, m.flush = "idle", ~m.hung, NEW r \in Gatherings,
                    \A i \in DOMAIN m.gather[r].items : ItemOutcome(m.gather[r].items[i]) # NoOutcome
             PROVE  Outcome(m.resolver[r].promise) # NoOutcome
  BY DEF AllSettlesWithItsItems
<1> DEFINE items == ItemsOf(m, r)
<1>1. /\ r \in DOMAIN m.resolver /\ IsGathering(m, r) /\ GatherAt(m, r, {})
      /\ m.gather[r].items = items
  BY GatheringIs
<1>2. \A i \in DOMAIN items : Comes(m, items[i]) # NoOutcome
  BY <1>1 DEF ItemOutcome, Outcome, Comes
<1>3. CASE m.resolver[r].done
  <2>1. AnswersItems(m, r)
    BY <1>1, <1>3 DEF GatherAt
  <2>2. Outcome(m.resolver[r].promise)[1] \in {"fulfilled", "rejected"}
    BY <2>1 DEF AnswersItems, Outcome
  <2> QED
    BY <2>2 DEF NoOutcome
<1>4. CASE ~m.resolver[r].done
  <2>1. PICK C : IsCollecting(m, r, C, {})
    BY <1>1, <1>4 DEF GatherAt
  <2>2. /\ C \in SUBSET DOMAIN items /\ Len(items) - Cardinality(C) # 0
        /\ Len(items) \in Nat /\ DOMAIN items = 1..Len(items)
    BY <1>1, <2>1 DEF IsCollecting, GatherAt, IsCallOfAll
  <2> HIDE DEF items
  <2>3. C # DOMAIN items
    <3>1. Cardinality(DOMAIN items) = Len(items)
      BY <2>2, Interval
    <3> QED
      BY <2>2, <3>1
  <2>4. PICK i \in DOMAIN items : i \notin C
    BY <2>2, <2>3
  <2>5. PICK d \in Promises : IsWaiting(m, d) /\ IsFor(m, d, r, i)
    BY <2>1, <2>4 DEF IsCollecting, items
  <2>6. Comes(m, items[i]) = NoOutcome
    BY <2>5, MissingItem DEF AInv, IInv, items
  <2> QED
    BY <1>2, <2>4, <2>6
<1> QED
  BY <1>3, <1>4

\* all of promises.js: what it is fulfilled with are the values of its items, each at
\* the place of its item, and what it is rejected with, one of them was rejected with,
\* in whatever order the items come and whatever they follow.
THEOREM GathersAnswer == Spec => []AllAnswersItsItems
BY GathersAlways, ItemsAnswered, PTL

\* all of promises.js: once no handler is due and its items have settled, so has it;
\* no item is counted twice and none is forgotten.
THEOREM GathersSettle == Spec => []AllSettlesWithItsItems
BY GathersAlways, ItemsSettle, PTL

-----------------------------------------------------------------------------
(* The refinement *)

LEMMA WaitOnce ==
  ASSUME NEW h, MemoryInv(h)
  PROVE  /\ h.waiting \in [Promises -> Seq(Promises)] /\ DOMAIN h.answer = Promises
         /\ \A p \in Promises : \A i \in 1..Len(h.waiting[p]) :
              /\ h.answer[h.waiting[p][i]] = NoOutcome
              /\ \A q \in Promises : \A j \in 1..Len(h.waiting[q]) :
                   h.waiting[p][i] = h.waiting[q][j] => p = q /\ i = j
<1>1. /\ h.waiting \in [Promises -> Seq(Promises)] /\ DOMAIN h.answer = Promises
      /\ WaitingInv(h)
  BY Fields DEF MemoryInv, CoreInv
<1>2. \A p \in Promises : DOMAIN h.waiting[p] = 1..Len(h.waiting[p])
  BY <1>1
<1>3. ASSUME NEW p \in Promises, NEW i \in DOMAIN h.waiting[p]
      PROVE  /\ h.answer[h.waiting[p][i]] = NoOutcome /\ Of(h, h.waiting[p][i]) = p
             /\ h.waiting[p][i] \in Nat
             /\ \A j \in DOMAIN h.waiting[p] : i < j => h.waiting[p][i] < h.waiting[p][j]
  <2>1. h.waiting[p][i] \in Promises
    BY <1>1
  <2>2. h.waiting[p][i] \in Nat
    BY <2>1, MaxPromisesAssumption DEF Promises
  <2> QED
    BY <1>1, <2>2 DEF WaitingInv
<1>4. ASSUME NEW p \in Promises, NEW i \in DOMAIN h.waiting[p],
             NEW q \in Promises, NEW j \in DOMAIN h.waiting[q],
             h.waiting[p][i] = h.waiting[q][j]
      PROVE  p = q /\ i = j
  <2>1. p = q
    BY <1>3, <1>4
  <2>2. ~(i < j) /\ ~(j < i)
    BY <1>3, <1>4, <2>1
  <2>3. i \in Int /\ j \in Int
    BY <1>2
  <2> QED
    BY <2>1, <2>2, <2>3
<1> QED
  BY <1>1, <1>2, <1>3, <1>4

LEMMA PrefixIs ==
  ASSUME NEW S, NEW s \in Seq(S), NEW t \in Seq(S), Len(s) <= Len(t),
         \A i \in DOMAIN s : t[i] = s[i]
  PROVE  SubSeq(t, 1, Len(s)) = s
<1>1. /\ Len(s) \in Nat /\ DOMAIN s = 1..Len(s) /\ Len(t) \in Nat /\ DOMAIN t = 1..Len(t)
  OBVIOUS
<1> DEFINE u == SubSeq(t, 1, Len(s))
<1>2. u \in Seq(S) /\ Len(u) = Len(s) /\ \A i \in 1..Len(s) : u[i] = t[i]
  BY <1>1
<1> HIDE DEF u
<1>3. u = s
  BY <1>1, <1>2
<1> QED
  BY <1>3 DEF u

\* What the abstract specification asks of the states before and after a step.
Sees(h, g) ==
  /\ \A p \in Promises : OutcomeOf(h, p) # NoOutcome => OutcomeOf(g, p) = OutcomeOf(h, p)
  /\ \A p \in Promises : /\ Len(h.waiting[p]) <= Len(g.waiting[p])
                         /\ SubSeq(g.waiting[p], 1, Len(h.waiting[p])) = h.waiting[p]
  /\ g.answer = h.answer

LEMMA SeesExtends ==
  ASSUME NEW h, NEW g, IsMemory(h), IsMemory(g), Extends(h, g)
  PROVE  Sees(h, g)
<1>1. h.waiting \in [Promises -> Seq(Promises)] /\ g.waiting \in [Promises -> Seq(Promises)]
  BY Fields
<1>2. ASSUME NEW p \in Promises
      PROVE  SubSeq(g.waiting[p], 1, Len(h.waiting[p])) = h.waiting[p]
  <2>1. h.waiting[p] \in Seq(Promises) /\ g.waiting[p] \in Seq(Promises)
    BY <1>1
  <2> QED
    BY <2>1, PrefixIs DEF Extends
<1> QED
  BY <1>2 DEF Sees, Extends

LEMMA AbstractStep ==
  IInv /\ [Next]_vars => [Abstract!Next]_(Abstract!vars)
<1> SUFFICES ASSUME IInv, [Next]_vars PROVE [Abstract!Next]_(Abstract!vars)
  OBVIOUS
<1>1. CASE UNCHANGED vars
  BY <1>1 DEF vars, Abstract!vars, Outcome
<1>2. CASE Next
  <2>1. MemoryInv(m) /\ MemoryInv(m')
    BY NextInv DEF IInv
  <2>2. Abstract!TypeOK' /\ Abstract!WaitsOnce'
    BY <2>1, WaitOnce DEF Abstract!TypeOK, Abstract!WaitsOnce
  <2>3. CASE RunTask
    <3> DEFINE d == m.queue[1][2]
               o == Of(m, d)
               h == Taken(m, d)
    <3>1. ~m.hung /\ m.queue # <<>> /\ Extends(h, m')
      BY <1>2, <2>1, <2>3, RunTaskInv DEF Next
    <3>2. /\ IsMemory(h) /\ IsAnswered(m, h, d) /\ h.answer = [m.answer EXCEPT ![d] = OutcomeOf(m, o)]
          /\ OutcomeOf(m, o) # NoOutcome
      BY <2>1, <3>1, TakenIs
    <3>3. \A p \in Promises : OutcomeOf(h, p) = OutcomeOf(m, p)
      BY <2>1, <3>1, <3>2, AnsweredInv
    <3>4. d \in Promises /\ o \in Promises /\ m.waiting[o] # <<>> /\ Head(m.waiting[o]) = d
      BY <2>1, <3>1, FirstWaits, Fields DEF IsNext, MemoryInv, CoreInv
    <3>5. Sees(h, m')
      BY <2>1, <3>1, <3>2, SeesExtends DEF MemoryInv, CoreInv
    <3>6. /\ h.waiting[o] = Tail(m.waiting[o])
          /\ \A q \in Promises \ {o} : h.waiting[q] = m.waiting[q]
      BY <3>2 DEF IsAnswered
    <3> HIDE DEF d, o, h
    <3>7. Abstract!Settles
      BY <3>3, <3>5 DEF Abstract!Settles, Sees, Outcome
    <3>8. Abstract!Answer(o)
      <4>1. m'.answer = [m.answer EXCEPT ![d] = OutcomeOf(m, o)]
        BY <3>2, <3>5 DEF Sees
      <4>2. /\ Len(Tail(m.waiting[o])) <= Len(m'.waiting[o])
            /\ SubSeq(m'.waiting[o], 1, Len(Tail(m.waiting[o]))) = Tail(m.waiting[o])
        BY <3>4, <3>5, <3>6 DEF Sees
      <4>3. \A q \in Promises \ {o} :
              /\ Len(m.waiting[q]) <= Len(m'.waiting[q])
              /\ SubSeq(m'.waiting[q], 1, Len(m.waiting[q])) = m.waiting[q]
        BY <3>5, <3>6 DEF Sees
      <4> QED
        BY <3>2, <3>4, <4>1, <4>2, <4>3 DEF Abstract!Answer, Abstract!Observes, Outcome
    <3> QED
      BY <2>2, <3>4, <3>7, <3>8 DEF Abstract!Next
  <2>4. CASE ~RunTask
    <3>1. Extends(m, m')
      BY <1>2, <2>4, NextGoes DEF GoesOn, Passes
    <3>2. Sees(m, m')
      BY <2>1, <3>1, SeesExtends DEF MemoryInv, CoreInv
    <3>3. Abstract!Settles
      BY <3>2 DEF Abstract!Settles, Sees, Outcome
    <3>4. Abstract!Observe
      BY <3>2 DEF Abstract!Observe, Abstract!Observes, Sees
    <3> QED
      BY <2>2, <3>3, <3>4 DEF Abstract!Next
  <2> QED
    BY <2>3, <2>4
<1> QED
  BY <1>1, <1>2

\* promises.js is what a promise promises (PromiseSpec): promises settle once and keep
\* their outcome, and every handler is called at most once, in a later turn, with the
\* outcome of its promise, in the order of the calls of then, through any chains of
\* promises that follow one another and any use of all, race and done.
THEOREM PromisesAreKept == Spec => KeepsItsPromises
<1>1. Init => Abstract!Init
  <2> SUFFICES ASSUME Init PROVE Abstract!Init
    OBVIOUS
  <2>1. \A p \in Promises : OutcomeOf(m, p) = NoOutcome
    <3>1. \A p \in Promises : m.state[p] = "pending"
      BY DEF Init
    <3> QED
      BY <3>1, RootIs DEF OutcomeOf
  <2> QED
    BY <2>1 DEF Init, Abstract!Init, Outcome, NoOutcome
<1>2. IInv /\ [Next]_vars => [Abstract!Next]_(Abstract!vars)
  BY AbstractStep
<1> QED
  BY <1>1, <1>2, MemoryIsSound, PTL DEF Spec, KeepsItsPromises, Abstract!Spec

=============================================================================
