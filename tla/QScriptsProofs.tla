---------------------------- MODULE QScriptsProofs ----------------------------
(***************************************************************************)
(* q.js keeps its promises, for any scripts and any number of promises.    *)
(***************************************************************************)
EXTENDS QScripts, WellFoundedInduction, SequenceTheorems, TLAPS

-----------------------------------------------------------------------------
(* Numbers and sequences *)

\* A set of numbers that holds 0, and the next of each of its own, holds all.
LEMMA NatSet ==
  ASSUME NEW S, 0 \in S, \A n \in Nat : n \in S => n + 1 \in S
  PROVE  \A n \in Nat : n \in S
<1> DEFINE T == Nat \ S
           R == OpToRel(<, Nat)
<1> SUFFICES ASSUME T # {} PROVE FALSE
  OBVIOUS
<1>1. IsWellFoundedOn(R, Nat)
  BY NatLessThanWellFounded
<1>2. T \subseteq Nat
  OBVIOUS
<1> HIDE DEF T, R
<1>3. PICK x \in T : \A y \in T : ~(<<y, x>> \in R)
  BY <1>1, <1>2, WFMin
<1>4. x \in Nat /\ x \notin S /\ x # 0
  BY DEF T
<1>5. x - 1 \in Nat /\ <<x - 1, x>> \in R
  BY <1>4 DEF R, OpToRel
<1>6. x - 1 \in S
  BY <1>3, <1>5 DEF T
<1> QED
  BY <1>4, <1>5, <1>6

IsSeq(s) == \E V : s \in Seq(V)

LEMMA SeqIs ==
  ASSUME NEW s, IsSeq(s)
  PROVE  Len(s) \in Nat /\ DOMAIN s = 1..Len(s)
BY LenProperties DEF IsSeq

LEMMA IsSeqIs ==
  ASSUME NEW n \in Nat, NEW s, DOMAIN s = 1..n, s = [i \in DOMAIN s |-> s[i]]
  PROVE  IsSeq(s) /\ Len(s) = n
<1> DEFINE V == {s[i] : i \in 1..n}
<1>1. s \in [1..n -> V]
  OBVIOUS
<1> HIDE DEF V
<1>2. s \in Seq(V) /\ Len(s) = n
  BY <1>1
<1> QED
  BY <1>2 DEF IsSeq

LEMMA AppendIs ==
  ASSUME NEW s, IsSeq(s), NEW x
  PROVE  /\ IsSeq(Append(s, x)) /\ Len(Append(s, x)) = Len(s) + 1
         /\ DOMAIN Append(s, x) = 1..(Len(s) + 1)
         /\ \A i \in DOMAIN s : Append(s, x)[i] = s[i]
         /\ Append(s, x)[Len(s) + 1] = x
<1>1. PICK V : s \in Seq(V)
  BY DEF IsSeq
<1> DEFINE W == V \cup {x}
<1>2. s \in Seq(W) /\ x \in W
  BY <1>1
<1> HIDE DEF W
<1>3. Append(s, x) \in Seq(W)
  BY <1>2
<1>4. /\ Len(Append(s, x)) = Len(s) + 1
      /\ \A i \in 1..Len(s) : Append(s, x)[i] = s[i]
      /\ Append(s, x)[Len(s) + 1] = x
  BY <1>2, AppendProperties
<1>5. DOMAIN Append(s, x) = 1..(Len(s) + 1)
  BY <1>3, <1>4, LenProperties
<1> QED
  BY <1>3, <1>4, <1>5, SeqIs DEF IsSeq

LEMMA ConcatIs ==
  ASSUME NEW s, IsSeq(s), NEW t, IsSeq(t)
  PROVE  /\ IsSeq(s \o t) /\ Len(s \o t) = Len(s) + Len(t)
         /\ DOMAIN (s \o t) = 1..(Len(s) + Len(t))
         /\ \A i \in 1..Len(s) : (s \o t)[i] = s[i]
         /\ \A i \in 1..Len(t) : (s \o t)[Len(s) + i] = t[i]
         /\ \A k \in DOMAIN (s \o t) :
              \/ k \in 1..Len(s)
              \/ k - Len(s) \in 1..Len(t) /\ k = Len(s) + (k - Len(s))
<1>1. PICK V, W : s \in Seq(V) /\ t \in Seq(W)
  BY DEF IsSeq
<1> DEFINE X == V \cup W
<1>2. s \in Seq(X) /\ t \in Seq(X)
  BY <1>1
<1> HIDE DEF X
<1>3. /\ s \o t \in Seq(X) /\ Len(s \o t) = Len(s) + Len(t)
      /\ \A i \in 1..(Len(s) + Len(t)) :
           (s \o t)[i] = IF i <= Len(s) THEN s[i] ELSE t[i - Len(s)]
  BY <1>2, ConcatProperties
<1>4. Len(s) \in Nat /\ Len(t) \in Nat
  BY SeqIs
<1>5. DOMAIN (s \o t) = 1..(Len(s) + Len(t))
  BY <1>3, LenProperties
<1> DEFINE u == s \o t
<1>6. \A i \in 1..(Len(s) + Len(t)) : u[i] = IF i <= Len(s) THEN s[i] ELSE t[i - Len(s)]
  BY <1>3
<1>7. IsSeq(u)
  BY <1>3 DEF IsSeq
<1> HIDE DEF u
<1>8. \A i \in 1..Len(s) : u[i] = s[i]
  BY <1>4, <1>6
<1>9. ASSUME NEW i \in 1..Len(t) PROVE u[Len(s) + i] = t[i]
  <2>1. Len(s) + i \in 1..(Len(s) + Len(t)) /\ ~(Len(s) + i <= Len(s)) /\ (Len(s) + i) - Len(s) = i
    BY <1>4
  <2> QED
    BY <1>6, <2>1
<1>10. \A k \in 1..(Len(s) + Len(t)) :
         \/ k \in 1..Len(s)
         \/ k - Len(s) \in 1..Len(t) /\ k = Len(s) + (k - Len(s))
  BY <1>4
<1> QED
  BY <1>3, <1>5, <1>7, <1>8, <1>9, <1>10 DEF u

LEMMA TailIs ==
  ASSUME NEW s, IsSeq(s), s # <<>>
  PROVE  /\ IsSeq(Tail(s)) /\ Len(s) \in Nat \ {0} /\ Len(Tail(s)) = Len(s) - 1
         /\ DOMAIN Tail(s) = 1..(Len(s) - 1)
         /\ \A i \in 1..(Len(s) - 1) : Tail(s)[i] = s[i + 1]
         /\ Head(s) = s[1]
<1>1. PICK V : s \in Seq(V)
  BY DEF IsSeq
<1>2. /\ Tail(s) \in Seq(V) /\ Len(Tail(s)) = Len(s) - 1
      /\ \A i \in 1..(Len(s) - 1) : Tail(s)[i] = s[i + 1]
      /\ Head(s) = s[1]
  BY <1>1, HeadTailProperties
<1>3. Len(s) # 0 /\ Len(s) \in Nat
  BY <1>1, EmptySeq
<1>4. DOMAIN Tail(s) = 1..(Len(s) - 1)
  BY <1>2, LenProperties
<1> QED
  BY <1>2, <1>3, <1>4 DEF IsSeq

-----------------------------------------------------------------------------
(* Chains of promises *)

Target(h, d) == h.deferred[d].target

\* What a deferred may be resolved with: a source with a later source, any other
\* with a source or with a later one.
Before(d, e) == IF d <= Sources THEN d < e /\ e <= Sources ELSE e <= Sources \/ d < e

TargetsInv(h) ==
  /\ IsSeq(h.deferred) /\ Len(h.deferred) >= Sources
  /\ \A d \in DOMAIN h.deferred :
       LET t == Target(h, d)
       IN /\ t = None \/ IsPromise(t)
          /\ t[1] = "deferred" => /\ t = Deferred(t[2])
                                  /\ t[2] \in DOMAIN h.deferred /\ Before(d, t[2])

Closed(h, S) ==
  \A d \in DOMAIN h.deferred : Deferred(d) \in S /\ IsResolved(h, d) => Target(h, d) \in S

\* y is in the chain of promises that starts with x.
Along(h, x, y) == \A S : x \in S /\ Closed(h, S) => y \in S

IsEnd(h, x) == \A d \in DOMAIN h.deferred : x = Deferred(d) => ~IsResolved(h, d)

\* It no longer changes.
Final(x) == IsPromise(x) /\ x[1] # "deferred"

LEMMA DeferredIs ==
  \A d : Deferred(d)[1] = "deferred" /\ Deferred(d)[2] = d
BY DEF Deferred

LEMMA DeferredsDiffer ==
  \A d, e : Deferred(d) = Deferred(e) => d = e
<1> SUFFICES ASSUME NEW d, NEW e, Deferred(d) = Deferred(e) PROVE d = e
  OBVIOUS
<1>1. Deferred(d)[2] = Deferred(e)[2]
  OBVIOUS
<1> QED
  BY <1>1, DeferredIs

LEMMA FinalEnds ==
  ASSUME NEW h, NEW x, Final(x)
  PROVE  IsEnd(h, x) /\ \A d : x # Deferred(d)
BY DeferredIs DEF IsEnd, Final

LEMMA DomainIs ==
  ASSUME NEW h, TargetsInv(h)
  PROVE  /\ Len(h.deferred) \in Nat /\ DOMAIN h.deferred = 1..Len(h.deferred)
         /\ Sources \in Nat /\ Sources <= Len(h.deferred)
         /\ 1..Sources \subseteq DOMAIN h.deferred
<1>1. Len(h.deferred) \in Nat /\ DOMAIN h.deferred = 1..Len(h.deferred)
  BY SeqIs DEF TargetsInv
<1> QED
  BY <1>1, SourcesAssumption DEF TargetsInv

LEMMA AlongSelf == \A h, x : Along(h, x, x)
BY DEF Along

LEMMA AlongNext ==
  ASSUME NEW h, NEW x, NEW d \in DOMAIN h.deferred, Along(h, x, Deferred(d)), IsResolved(h, d)
  PROVE  Along(h, x, Target(h, d))
BY DEF Along, Closed

LEMMA AlongTrans ==
  ASSUME NEW h, NEW x, NEW y, NEW z, Along(h, x, y), Along(h, y, z)
  PROVE  Along(h, x, z)
BY DEF Along

LEMMA AlongEnd ==
  ASSUME NEW h, NEW x, NEW y, IsEnd(h, x), Along(h, x, y)
  PROVE  y = x
<1>1. Closed(h, {x})
  BY DEF Closed, IsEnd
<1> QED
  BY <1>1 DEF Along

\* What a chain goes through, after its start.
LEMMA AlongSplit ==
  ASSUME NEW h, NEW d \in DOMAIN h.deferred, IsResolved(h, d), NEW y,
         Along(h, Deferred(d), y), y # Deferred(d)
  PROVE  Along(h, Target(h, d), y)
<1> DEFINE t == Target(h, d)
           U == {Deferred(e) : e \in DOMAIN h.deferred} \cup {Target(h, e) : e \in DOMAIN h.deferred}
           S == {z \in U : z = Deferred(d) \/ Along(h, t, z)}
<1>1. Deferred(d) \in S
  OBVIOUS
<1>2. Closed(h, S)
  <2> SUFFICES ASSUME NEW e \in DOMAIN h.deferred, Deferred(e) \in S, IsResolved(h, e)
               PROVE  Along(h, t, Target(h, e))
    BY DEF Closed
  <2>1. CASE Deferred(e) = Deferred(d)
    BY <2>1, DeferredsDiffer, AlongSelf
  <2>2. CASE Along(h, t, Deferred(e))
    BY <2>2, AlongNext
  <2> QED
    BY <2>1, <2>2
<1> HIDE DEF S
<1>3. y \in S
  BY <1>1, <1>2 DEF Along
<1> QED
  BY <1>3 DEF S

\* Of two promises of a chain one comes first.
LEMMA AlongLinear ==
  ASSUME NEW h, NEW d \in DOMAIN h.deferred, NEW y, NEW z,
         Along(h, Deferred(d), y), Along(h, Deferred(d), z)
  PROVE  Along(h, y, z) \/ Along(h, z, y)
<1> DEFINE U == {Deferred(e) : e \in DOMAIN h.deferred} \cup {Target(h, e) : e \in DOMAIN h.deferred}
           S == {u \in U : Along(h, y, u) \/ Along(h, u, y)}
<1>1. Deferred(d) \in S
  OBVIOUS
<1>2. Closed(h, S)
  <2> SUFFICES ASSUME NEW e \in DOMAIN h.deferred, Deferred(e) \in S, IsResolved(h, e)
               PROVE  Along(h, y, Target(h, e)) \/ Along(h, Target(h, e), y)
    BY DEF Closed
  <2>1. CASE Along(h, y, Deferred(e))
    BY <2>1, AlongNext
  <2>2. CASE Along(h, Deferred(e), y)
    <3>1. CASE y = Deferred(e)
      BY <3>1, AlongSelf, AlongNext
    <3>2. CASE y # Deferred(e)
      BY <2>2, <3>2, AlongSplit
    <3> QED
      BY <3>1, <3>2
  <2> QED
    BY <2>1, <2>2
<1> HIDE DEF S
<1>3. z \in S
  BY <1>1, <1>2 DEF Along
<1> QED
  BY <1>3 DEF S

LEMMA AlongOneEnd ==
  ASSUME NEW h, NEW d \in DOMAIN h.deferred, NEW y, NEW z,
         Along(h, Deferred(d), y), Along(h, Deferred(d), z), IsEnd(h, y), IsEnd(h, z)
  PROVE  z = y
BY AlongLinear, AlongEnd

\* How far a promise is from the end that no chain goes past.
Rank(h, x) ==
  IF x[1] # "deferred" THEN -1
  ELSE IF x[2] <= Sources THEN Sources - x[2]
  ELSE Len(h.deferred) + Sources - x[2]

LEMMA RankArithmetic ==
  ASSUME NEW n \in Nat, NEW s \in Nat, s <= n, NEW d \in 1..n, NEW e \in 1..n,
         IF d <= s THEN d < e /\ e <= s ELSE e <= s \/ d < e
  PROVE  (IF e <= s THEN s - e ELSE n + s - e) < (IF d <= s THEN s - d ELSE n + s - d)
OBVIOUS

LEMMA RankIs ==
  ASSUME NEW h, TargetsInv(h), NEW d \in DOMAIN h.deferred
  PROVE  /\ Rank(h, Deferred(d)) \in 0..(Len(h.deferred) - 1)
         /\ IsResolved(h, d) => Rank(h, Target(h, d)) < Rank(h, Deferred(d))
         /\ Target(h, d)[1] # "deferred" => Rank(h, Target(h, d)) = -1
<1> DEFINE n == Len(h.deferred)
           t == Target(h, d)
<1>1. n \in Nat /\ Sources \in Nat /\ Sources <= n /\ DOMAIN h.deferred = 1..n
  BY DomainIs
<1>2. Rank(h, Deferred(d)) = IF d <= Sources THEN Sources - d ELSE n + Sources - d
  BY DeferredIs DEF Rank
<1>3. Rank(h, Deferred(d)) \in 0..(n - 1)
  <2> HIDE DEF n
  <2> QED
    BY <1>1, <1>2
<1>4. t[1] # "deferred" => Rank(h, t) = -1
  BY DEF Rank
<1>5. ASSUME IsResolved(h, d), t[1] = "deferred" PROVE Rank(h, t) < Rank(h, Deferred(d))
  <2>1. t[2] \in 1..n /\ Before(d, t[2])
    BY <1>1, <1>5 DEF TargetsInv
  <2>2. Rank(h, t) = IF t[2] <= Sources THEN Sources - t[2] ELSE n + Sources - t[2]
    BY <1>5 DEF Rank
  <2> HIDE DEF n, t
  <2> QED
    BY <1>1, <1>2, <2>1, <2>2, RankArithmetic DEF Before
<1> QED
  BY <1>3, <1>4, <1>5

\* There is no ring.
LEMMA AlongDown ==
  ASSUME NEW h, TargetsInv(h), NEW d \in DOMAIN h.deferred, NEW y, Along(h, Deferred(d), y)
  PROVE  y = Deferred(d) \/ Rank(h, y) < Rank(h, Deferred(d))
<1> DEFINE r == Rank(h, Deferred(d))
           U == {Deferred(e) : e \in DOMAIN h.deferred} \cup {Target(h, e) : e \in DOMAIN h.deferred}
           S == {z \in U : z = Deferred(d) \/ Rank(h, z) < r}
<1>1. Deferred(d) \in S
  OBVIOUS
<1>2. Closed(h, S)
  <2> SUFFICES ASSUME NEW e \in DOMAIN h.deferred, Deferred(e) \in S, IsResolved(h, e)
               PROVE  Rank(h, Target(h, e)) < r
    BY DEF Closed
  <2>1. Rank(h, Target(h, e)) < Rank(h, Deferred(e))
    BY RankIs
  <2>2. CASE Deferred(e) = Deferred(d)
    BY <2>1, <2>2
  <2>3. CASE Rank(h, Deferred(e)) < r
    <3>1. r \in Int /\ Rank(h, Deferred(e)) \in Int
      BY RankIs, DomainIs
    <3>2. Rank(h, Target(h, e)) \in Int
      <4>1. CASE Target(h, e)[1] # "deferred"
        BY <4>1, RankIs
      <4>2. CASE Target(h, e)[1] = "deferred"
        BY <4>2, RankIs, DomainIs DEF TargetsInv
      <4> QED
        BY <4>1, <4>2
    <3> HIDE DEF r
    <3> QED
      BY <2>1, <2>3, <3>1, <3>2
  <2> QED
    BY <2>2, <2>3
<1> HIDE DEF S
<1>3. y \in S
  BY <1>1, <1>2 DEF Along
<1> QED
  BY <1>3 DEF S

LEMMA AlongNoRing ==
  ASSUME NEW h, TargetsInv(h), NEW d \in DOMAIN h.deferred, IsResolved(h, d)
  PROVE  Target(h, d) # Deferred(d) /\ ~Along(h, Target(h, d), Deferred(d))
<1> DEFINE t == Target(h, d)
<1>1. Rank(h, t) < Rank(h, Deferred(d)) /\ Rank(h, Deferred(d)) \in Int
  BY RankIs, DomainIs
<1>2. t # Deferred(d)
  BY <1>1
<1>3. CASE t[1] # "deferred"
  <2>1. IsEnd(h, t)
    BY <1>3, DeferredIs DEF IsEnd
  <2> QED
    BY <1>2, <2>1, AlongEnd
<1>4. CASE t[1] = "deferred"
  <2>1. t = Deferred(t[2]) /\ t[2] \in DOMAIN h.deferred
    BY <1>4 DEF TargetsInv
  <2>2. ASSUME Along(h, t, Deferred(d)) PROVE Rank(h, Deferred(d)) < Rank(h, t)
    BY <1>2, <2>1, <2>2, AlongDown
  <2>3. Rank(h, t) \in Int
    BY <2>1, RankIs, DomainIs
  <2> QED
    BY <1>1, <1>2, <2>2, <2>3
<1> QED
  BY <1>3, <1>4

\* Chains only grow.
LEMMA AlongMore ==
  ASSUME NEW h, NEW g, NEW x, NEW y, Along(h, x, y),
         \A d \in DOMAIN h.deferred :
           /\ d \in DOMAIN g.deferred
           /\ IsResolved(h, d) => Target(g, d) = Target(h, d)
  PROVE  Along(g, x, y)
<1>1. \A d \in DOMAIN h.deferred : IsResolved(h, d) => IsResolved(g, d)
  BY DEF IsResolved, Target
<1>2. \A S : Closed(g, S) => Closed(h, S)
  BY <1>1 DEF Closed
<1> QED
  BY <1>2 DEF Along

\* The function of Nearest.
Chain(h) ==
  CHOOSE follow :
    follow = [n \in 0..Len(h.deferred) |->
                [d \in DOMAIN h.deferred |->
                   LET y == h.deferred[d].target
                   IN IF n = 0 \/ y = None THEN Deferred(d)
                      ELSE IF y[1] # "deferred" THEN y
                      ELSE follow[n - 1][y[2]]]]

LEMMA NearestIs ==
  ASSUME NEW h, NEW x
  PROVE  Nearest(h, x) = IF x[1] = "deferred" THEN Chain(h)[Len(h.deferred)][x[2]] ELSE x
BY DEF Nearest, Chain

LEMMA ChainIs ==
  ASSUME NEW h, TargetsInv(h)
  PROVE  \A n \in 0..Len(h.deferred), d \in DOMAIN h.deferred :
           Chain(h)[n][d] =
             IF n = 0 \/ ~IsResolved(h, d) THEN Deferred(d)
             ELSE IF Target(h, d)[1] # "deferred" THEN Target(h, d)
             ELSE Chain(h)[n - 1][Target(h, d)[2]]
<1> DEFINE N == Len(h.deferred)
           D == DOMAIN h.deferred
           T(d) == h.deferred[d].target
           Of(f, k) == f = [n \in 0..k |-> [d \in D |->
                         LET y == T(d)
                         IN IF n = 0 \/ y = None THEN Deferred(d)
                            ELSE IF y[1] # "deferred" THEN y
                            ELSE f[n - 1][y[2]]]]
           S == {k \in Nat : \E f : Of(f, k)}
<1>1. N \in Nat /\ \A d \in D : T(d) # None /\ T(d)[1] = "deferred" => T(d)[2] \in D
  BY DomainIs DEF TargetsInv, Target
<1>2. 0 \in S
  <2> DEFINE f == [n \in 0..0 |-> [d \in D |-> Deferred(d)]]
  <2>1. Of(f, 0)
    OBVIOUS
  <2>2. \E e : Of(e, 0)
    BY <2>1
  <2> QED
    BY <2>2
<1>3. ASSUME NEW k \in Nat, k \in S PROVE k + 1 \in S
  <2>1. PICK f : Of(f, k)
    BY <1>3
  <2> DEFINE G(n, d) == LET y == T(d)
                        IN IF n = 0 \/ y = None THEN Deferred(d)
                           ELSE IF y[1] # "deferred" THEN y
                           ELSE f[n - 1][y[2]]
             g == [n \in 0..(k + 1) |-> [d \in D |-> G(n, d)]]
  <2> HIDE DEF N, D, T
  <2>2. \A n \in 0..k, d \in D : f[n][d] = G(n, d)
    <3> DEFINE e == [n \in 0..k |-> [d \in D |-> G(n, d)]]
    <3>1. f = e
      BY <2>1
    <3>2. \A n \in 0..k, d \in D : e[n][d] = G(n, d)
      <4> HIDE DEF G
      <4> QED
        OBVIOUS
    <3> HIDE DEF e
    <3> SUFFICES ASSUME NEW n \in 0..k, NEW d \in D PROVE f[n][d] = G(n, d)
      OBVIOUS
    <3>3. f[n][d] = e[n][d]
      BY <3>1
    <3> HIDE DEF G
    <3> QED
      BY <3>2, <3>3
  <2>3. \A n \in 0..(k + 1), d \in D : g[n][d] = G(n, d)
    OBVIOUS
  <2> HIDE DEF G, g
  <2>4. \A n \in 0..k, d \in D : g[n][d] = f[n][d]
    BY <2>2, <2>3
  <2>5. \A n \in 0..(k + 1), d \in D :
          G(n, d) = LET y == T(d)
                    IN IF n = 0 \/ y = None THEN Deferred(d)
                       ELSE IF y[1] # "deferred" THEN y
                       ELSE g[n - 1][y[2]]
    <3> SUFFICES ASSUME NEW n \in 0..(k + 1), NEW d \in D, n # 0, T(d) # None,
                        T(d)[1] = "deferred"
                 PROVE  f[n - 1][T(d)[2]] = g[n - 1][T(d)[2]]
      BY DEF G
    <3>1. n - 1 \in 0..k
      OBVIOUS
    <3> QED
      BY <1>1, <2>4, <3>1
  <2>6. g = [n \in 0..(k + 1) |-> [d \in D |-> G(n, d)]]
    BY DEF g
  <2>7. Of(g, k + 1)
    BY <2>5, <2>6
  <2> QED
    BY <2>7
<1> HIDE DEF S
<1>4. N \in S
  BY <1>1, <1>2, <1>3, NatSet
<1>5. PICK f : Of(f, N)
  BY <1>4 DEF S
<1> DEFINE c == Chain(h)
<1>6. c = [n \in 0..N |-> [d \in D |->
             LET y == T(d)
             IN IF n = 0 \/ y = None THEN Deferred(d)
                ELSE IF y[1] # "deferred" THEN y
                ELSE c[n - 1][y[2]]]]
  BY <1>5 DEF Chain
<1> DEFINE G(n, d) == IF n = 0 \/ ~IsResolved(h, d) THEN Deferred(d)
                      ELSE IF Target(h, d)[1] # "deferred" THEN Target(h, d)
                      ELSE c[n - 1][Target(h, d)[2]]
           e == [n \in 0..N |-> [d \in D |-> G(n, d)]]
<1> HIDE DEF c
<1>7. c = e
  BY <1>6 DEF IsResolved, Target
<1>8. \A n \in 0..N, d \in D : e[n][d] = G(n, d)
  <2> HIDE DEF G
  <2> QED
    OBVIOUS
<1> HIDE DEF e
<1> SUFFICES ASSUME NEW n \in 0..N, NEW d \in D PROVE c[n][d] = G(n, d)
  BY DEF c
<1>9. c[n][d] = e[n][d]
  BY <1>7
<1> HIDE DEF G
<1> QED
  BY <1>8, <1>9

\* Nearest goes to the end of the chain.
LEMMA NearestEnds ==
  ASSUME NEW h, TargetsInv(h), NEW x,
         x[1] = "deferred" => x = Deferred(x[2]) /\ x[2] \in DOMAIN h.deferred
  PROVE  Along(h, x, Nearest(h, x)) /\ IsEnd(h, Nearest(h, x))
<1>1. CASE x[1] # "deferred"
  BY <1>1, NearestIs, AlongSelf, DeferredIs DEF IsEnd
<1>2. CASE x[1] = "deferred"
  <2> DEFINE N == Len(h.deferred)
             D == DOMAIN h.deferred
             c == Chain(h)
             Ends(n) == \A d \in D : Rank(h, Deferred(d)) < n =>
                          Along(h, Deferred(d), c[n][d]) /\ IsEnd(h, c[n][d])
             S == {n \in Nat : n \in 0..N => Ends(n)}
  <2>1. N \in Nat
    BY DomainIs
  <2>2. \A n \in 0..N, d \in D :
          c[n][d] = IF n = 0 \/ ~IsResolved(h, d) THEN Deferred(d)
                    ELSE IF Target(h, d)[1] # "deferred" THEN Target(h, d)
                    ELSE c[n - 1][Target(h, d)[2]]
    BY ChainIs
  <2> HIDE DEF c
  <2>3. 0 \in S
    <3>1. \A d \in D : ~(Rank(h, Deferred(d)) < 0)
      BY RankIs, DomainIs
    <3> QED
      BY <3>1
  <2>4. ASSUME NEW n \in Nat, n \in S, n + 1 \in 0..N PROVE Ends(n + 1)
    <3> SUFFICES ASSUME NEW d \in D, Rank(h, Deferred(d)) < n + 1
                 PROVE  Along(h, Deferred(d), c[n + 1][d]) /\ IsEnd(h, c[n + 1][d])
      OBVIOUS
    <3>1. CASE ~IsResolved(h, d)
      <4>1. c[n + 1][d] = Deferred(d)
        BY <2>2, <2>4, <3>1
      <4> QED
        BY <3>1, <4>1, AlongSelf, DeferredsDiffer DEF IsEnd
    <3>2. CASE IsResolved(h, d) /\ Target(h, d)[1] # "deferred"
      <4>1. c[n + 1][d] = Target(h, d)
        BY <2>1, <2>2, <2>4, <3>2
      <4> QED
        BY <3>2, <4>1, AlongSelf, AlongNext, DeferredIs DEF IsEnd
    <3>3. CASE IsResolved(h, d) /\ Target(h, d)[1] = "deferred"
      <4> DEFINE e == Target(h, d)[2]
      <4>1. e \in D /\ Target(h, d) = Deferred(e)
        BY <3>3 DEF TargetsInv
      <4>2. c[n + 1][d] = c[n][e]
        <5>1. n + 1 # 0 /\ (n + 1) - 1 = n
          OBVIOUS
        <5> QED
          BY <2>2, <2>4, <3>3, <5>1
      <4>3. Rank(h, Deferred(e)) < n
        <5>1. /\ Rank(h, Deferred(e)) < Rank(h, Deferred(d))
              /\ Rank(h, Deferred(e)) \in Int /\ Rank(h, Deferred(d)) \in Int
          BY <3>3, <4>1, RankIs, DomainIs
        <5> HIDE DEF e
        <5> QED
          BY <5>1
      <4>4. n \in 0..N
        BY <2>1, <2>4
      <4>5. Along(h, Deferred(e), c[n][e]) /\ IsEnd(h, c[n][e])
        BY <2>4, <4>1, <4>3, <4>4
      <4>6. Along(h, Deferred(d), Deferred(e))
        BY <3>3, <4>1, AlongSelf, AlongNext
      <4> HIDE DEF e
      <4> QED
        BY <4>2, <4>5, <4>6, AlongTrans
    <3> QED
      BY <3>1, <3>2, <3>3
  <2> HIDE DEF Ends
  <2>5. \A n \in Nat : n \in S => n + 1 \in S
    BY <2>4
  <2>6. \A n \in Nat : n \in S
    <3> HIDE DEF S
    <3> QED
      BY <2>3, <2>5, NatSet
  <2>7. Ends(N)
    BY <2>1, <2>6
  <2>8. Rank(h, x) < N
    BY <1>2, <2>1, RankIs
  <2>9. Along(h, x, c[N][x[2]]) /\ IsEnd(h, c[N][x[2]])
    BY <1>2, <2>7, <2>8 DEF Ends
  <2> QED
    BY <1>2, <2>9, NearestIs DEF c
<1> QED
  BY <1>1, <1>2

-----------------------------------------------------------------------------
(* What the library may meet *)

\* x is made of members of V, and refers to the first n deferreds and the first k
\* rejections only, and call backs of Node to the deferreds in free.
SoundIn(n, k, free, V, x) ==
  /\ x[1] \notin {"throw", "none"}
  /\ x[1] = "deferred" => x = Deferred(x[2]) /\ x[2] \in 1..n
  /\ x[1] = "fulfilled" => x = Fulfilled(x[2]) /\ x[2] \in V /\ ~IsPromise(x[2])
  /\ x[1] = "rejected" => x[2] \in 1..k /\ x[3] \in V /\ ~IsPromise(x[3])
  /\ x[1] = "array" => IsSeq(x[2]) /\ \A i \in DOMAIN x[2] : x[2][i] \in V
  /\ x[1] = "function" => x[2] \in Function
  /\ x[1] = "nodeback" => x[2] \in free
  /\ x[1] = "thenable" => x[2] \in {"throws", "keeps"}

Sound(n, k, free, V) == \A x \in V : SoundIn(n, k, free, V, x)

Known(n, k, free, x) == \E V : Sound(n, k, free, V) /\ x \in V

LEMMA KnownIf ==
  ASSUME NEW n, NEW k, NEW free, NEW P, \A p \in P : Known(n, k, free, p), NEW x, SoundIn(n, k, free, P, x)
  PROVE  Known(n, k, free, x)
<1> DEFINE W(p) == CHOOSE V : Sound(n, k, free, V) /\ p \in V
           V == {x} \cup UNION {W(p) : p \in P}
<1>1. \A p \in P : Sound(n, k, free, W(p)) /\ p \in W(p)
  BY DEF Known
<1>2. P \subseteq V
  BY <1>1
<1>3. ASSUME NEW y \in V PROVE SoundIn(n, k, free, V, y)
  <2>1. CASE y = x
    BY <1>2, <2>1 DEF SoundIn
  <2>2. CASE y # x
    <3>1. PICK p \in P : y \in W(p)
      BY <2>2
    <3>2. SoundIn(n, k, free, W(p), y) /\ W(p) \subseteq V
      BY <1>1, <3>1 DEF Sound
    <3> HIDE DEF W, V
    <3> QED
      BY <3>2 DEF SoundIn
  <2> QED
    BY <2>1, <2>2
<1>4. x \in V
  OBVIOUS
<1> HIDE DEF V
<1> QED
  BY <1>3, <1>4 DEF Sound, Known

LEMMA KnownIs ==
  ASSUME NEW n, NEW k, NEW free, NEW x, Known(n, k, free, x)
  PROVE  /\ x[1] \notin {"throw", "none"}
         /\ x[1] = "deferred" => x = Deferred(x[2]) /\ x[2] \in 1..n
         /\ x[1] = "fulfilled" => x = Fulfilled(x[2]) /\ Known(n, k, free, x[2]) /\ ~IsPromise(x[2])
         /\ x[1] = "rejected" => x[2] \in 1..k /\ Known(n, k, free, x[3]) /\ ~IsPromise(x[3])
         /\ x[1] = "array" => IsSeq(x[2]) /\ \A i \in DOMAIN x[2] : Known(n, k, free, x[2][i])
         /\ x[1] = "function" => x[2] \in Function
         /\ x[1] = "nodeback" => x[2] \in free
         /\ x[1] = "thenable" => x[2] \in {"throws", "keeps"}
<1>1. PICK V : Sound(n, k, free, V) /\ x \in V
  BY DEF Known
<1>2. \A y \in V : Known(n, k, free, y)
  BY <1>1 DEF Known
<1>3. SoundIn(n, k, free, V, x)
  BY <1>1 DEF Sound
<1> QED
  BY <1>2, <1>3 DEF SoundIn

LEMMA KnownMore ==
  ASSUME NEW n \in Nat, NEW k \in Nat, NEW p \in Nat, NEW q \in Nat, n <= p, k <= q,
         NEW free, NEW more, free \subseteq more, NEW x, Known(n, k, free, x)
  PROVE  Known(p, q, more, x)
<1>1. PICK V : Sound(n, k, free, V) /\ x \in V
  BY DEF Known
<1>2. \A i : i \in 1..n => i \in 1..p
  OBVIOUS
<1>3. \A i : i \in 1..k => i \in 1..q
  OBVIOUS
<1>4. Sound(p, q, more, V)
  BY <1>1, <1>2, <1>3 DEF Sound, SoundIn
<1> QED
  BY <1>1, <1>4 DEF Known

Tagged ==
  {"throw", "none", "deferred", "fulfilled", "rejected", "array", "function", "nodeback",
   "thenable"}

LEMMA KnownPlain ==
  ASSUME NEW n, NEW k, NEW free, NEW x, x[1] \notin Tagged
  PROVE  Known(n, k, free, x)
<1>1. SoundIn(n, k, free, {}, x)
  BY DEF SoundIn, Tagged
<1> QED
  BY <1>1, KnownIf

LEMMA KnownDeferred ==
  ASSUME NEW n, NEW k, NEW free, NEW d \in 1..n
  PROVE  Known(n, k, free, Deferred(d)) /\ IsPromise(Deferred(d))
<1>1. SoundIn(n, k, free, {}, Deferred(d))
  BY DeferredIs DEF SoundIn
<1> QED
  BY <1>1, KnownIf, DeferredIs DEF IsPromise

LEMMA KnownFulfilled ==
  ASSUME NEW n, NEW k, NEW free, NEW x, Known(n, k, free, x), ~IsPromise(x)
  PROVE  Known(n, k, free, Fulfilled(x)) /\ Final(Fulfilled(x))
<1>1. Fulfilled(x)[1] = "fulfilled" /\ Fulfilled(x)[2] = x
  BY DEF Fulfilled
<1>2. SoundIn(n, k, free, {x}, Fulfilled(x))
  BY <1>1 DEF SoundIn
<1>3. Known(n, k, free, Fulfilled(x))
  BY <1>2, KnownIf
<1> QED
  BY <1>1, <1>3 DEF IsPromise, Final

LEMMA KnownRejected ==
  ASSUME NEW n, NEW k, NEW free, NEW i \in 1..k, NEW e, Known(n, k, free, e), ~IsPromise(e)
  PROVE  Known(n, k, free, <<"rejected", i, e>>) /\ Final(<<"rejected", i, e>>)
<1> DEFINE x == <<"rejected", i, e>>
<1>1. x[1] = "rejected" /\ x[2] = i /\ x[3] = e
  OBVIOUS
<1> HIDE DEF x
<1>2. SoundIn(n, k, free, {e}, x)
  BY <1>1 DEF SoundIn
<1>3. Known(n, k, free, x)
  BY <1>2, KnownIf
<1> QED
  BY <1>1, <1>3 DEF IsPromise, Final, x

LEMMA KnownArray ==
  ASSUME NEW n, NEW k, NEW free, NEW s, IsSeq(s), \A i \in DOMAIN s : Known(n, k, free, s[i])
  PROVE  Known(n, k, free, Array(s)) /\ ~IsPromise(Array(s)) /\ Array(s)[1] = "array" /\ Array(s)[2] = s
<1>1. Array(s)[1] = "array" /\ Array(s)[2] = s
  BY DEF Array
<1>2. SoundIn(n, k, free, {s[i] : i \in DOMAIN s}, Array(s))
  BY <1>1 DEF SoundIn
<1>3. \A p \in {s[i] : i \in DOMAIN s} : Known(n, k, free, p)
  OBVIOUS
<1>4. Known(n, k, free, Array(s))
  BY <1>2, <1>3, KnownIf
<1> QED
  BY <1>1, <1>4 DEF IsPromise

LEMMA KnownFunction ==
  ASSUME NEW n, NEW k, NEW free, NEW f \in Function
  PROVE  Known(n, k, free, <<"function", f>>)
<1> DEFINE x == <<"function", f>>
<1>1. x[1] = "function" /\ x[2] = f
  OBVIOUS
<1> HIDE DEF x
<1>2. SoundIn(n, k, free, {}, x)
  BY <1>1 DEF SoundIn
<1> QED
  BY <1>2, KnownIf DEF x

LEMMA KnownNodeback ==
  ASSUME NEW n, NEW k, NEW free, NEW d \in free
  PROVE  Known(n, k, free, <<"nodeback", d>>)
<1> DEFINE x == <<"nodeback", d>>
<1>1. x[1] = "nodeback" /\ x[2] = d
  OBVIOUS
<1> HIDE DEF x
<1>2. SoundIn(n, k, free, {}, x)
  BY <1>1 DEF SoundIn
<1> QED
  BY <1>2, KnownIf DEF x

\* x is no promise, or a source.
Loose(x) == x[1] = "deferred" => x[2] \in 1..Sources

LEMMA ItemKnown ==
  ASSUME NEW n \in Nat, NEW k \in Nat, NEW free, Sources <= n, NEW x \in Item
  PROVE  /\ Known(n, k, free, x) /\ (IsPromise(x) => x[1] = "deferred" /\ x[2] \in 1..Sources)
         /\ x[1] \notin {"array", "reason", "none"}
<1>1. CASE x \in {"value"} \X Nat
  <2>1. x[1] = "value"
    BY <1>1
  <2> QED
    BY <2>1, KnownPlain DEF Tagged, IsPromise
<1>2. CASE x = Undefined
  <2>1. x[1] = "undefined"
    BY <1>2 DEF Undefined
  <2> QED
    BY <2>1, KnownPlain DEF Tagged, IsPromise
<1>3. CASE x \in {"deferred"} \X (1..Sources)
  <2>1. x = Deferred(x[2]) /\ x[2] \in 1..Sources /\ x[1] = "deferred"
    BY <1>3 DEF Deferred
  <2>2. x[2] \in 1..n
    BY <2>1, SourcesAssumption
  <2> QED
    BY <2>1, <2>2, KnownDeferred
<1>4. CASE x \in {"thenable"} \X {"throws", "keeps"}
  <2>1. x[1] = "thenable" /\ x[2] \in {"throws", "keeps"}
    BY <1>4
  <2>2. SoundIn(n, k, free, {}, x)
    BY <2>1 DEF SoundIn
  <2> QED
    BY <2>1, <2>2, KnownIf DEF IsPromise
<1> QED
  BY <1>1, <1>2, <1>3, <1>4 DEF Item

LEMMA InputKnown ==
  ASSUME NEW n \in Nat, NEW k \in Nat, NEW free, Sources <= n, NEW x \in Input
  PROVE  Known(n, k, free, x) /\ Loose(x)
<1>1. CASE x \in Item
  BY <1>1, ItemKnown DEF Loose, IsPromise
<1>2. CASE x \in {"array"} \X Seq(Item)
  <2>1. x[1] = "array" /\ x[2] \in Seq(Item)
    BY <1>2
  <2>2. IsSeq(x[2]) /\ \A i \in DOMAIN x[2] : x[2][i] \in Item
    BY <2>1, LenProperties, ElementOfSeq DEF IsSeq
  <2>3. SoundIn(n, k, free, Item, x)
    BY <2>1, <2>2 DEF SoundIn
  <2>4. Known(n, k, free, x)
    BY <2>3, KnownIf, ItemKnown
  <2> QED
    BY <2>1, <2>4 DEF Loose
<1> QED
  BY <1>1, <1>2 DEF Input

LEMMA ReasonKnown ==
  ASSUME NEW n, NEW k, NEW free, NEW x \in Reason
  PROVE  Known(n, k, free, x) /\ ~IsPromise(x) /\ x[1] = "reason"
<1>1. x[1] = "reason"
  BY DEF Reason
<1> QED
  BY <1>1, KnownPlain DEF Tagged, IsPromise

\* The items of what is known are.
LEMMA ItemsKnown ==
  ASSUME NEW n, NEW k, NEW free, NEW x, Known(n, k, free, x)
  PROVE  IsSeq(Items(x)) /\ \A i \in DOMAIN Items(x) : Known(n, k, free, Items(x)[i])
<1>1. CASE x[1] = "array"
  BY <1>1, KnownIs DEF Items
<1>2. CASE x[1] # "array"
  <2>1. Items(x) = <<>> /\ <<>> \in Seq({})
    BY <1>2 DEF Items
  <2>2. DOMAIN Items(x) = {}
    BY <2>1
  <2> QED
    BY <2>1, <2>2 DEF IsSeq
<1> QED
  BY <1>1, <1>2

LEMMA ItemOfKnown ==
  ASSUME NEW n, NEW k, NEW free, NEW x, Known(n, k, free, x), NEW i
  PROVE  Known(n, k, free, ItemOf(x, i))
<1>1. Known(n, k, free, Undefined)
  BY KnownPlain DEF Tagged, Undefined
<1> QED
  BY <1>1, ItemsKnown DEF ItemOf

LEMMA WithKnown ==
  ASSUME NEW n, NEW k, NEW free, NEW x, Known(n, k, free, x), NEW i, NEW y, Known(n, k, free, y)
  PROVE  Known(n, k, free, With(x, i, y)) /\ ~IsPromise(With(x, i, y))
<1> DEFINE s == [Items(x) EXCEPT ![i] = y]
<1>1. IsSeq(Items(x)) /\ \A j \in DOMAIN Items(x) : Known(n, k, free, Items(x)[j])
  BY ItemsKnown
<1>2. DOMAIN s = DOMAIN Items(x) /\ s = [j \in DOMAIN s |-> s[j]]
  OBVIOUS
<1>3. DOMAIN s = 1..Len(Items(x)) /\ Len(Items(x)) \in Nat
  BY <1>1, <1>2, SeqIs
<1>4. \A j \in DOMAIN s : Known(n, k, free, s[j])
  BY <1>1, <1>2
<1>5. s = [j \in DOMAIN s |-> s[j]]
  BY <1>2
<1> HIDE DEF s
<1>6. IsSeq(s)
  BY <1>3, <1>5, IsSeqIs
<1> QED
  BY <1>4, <1>6, KnownArray DEF With, s

-----------------------------------------------------------------------------
(* The invariant of the memory *)

Self(h, d) == h.deferred[d].self
OnFulfilled(h, d) == h.deferred[d].fulfilled
OnRejected(h, d) == h.deferred[d].rejected
OnProgress(h, d) == h.deferred[d].progressed
IsDone(h, d) == h.deferred[d].done
AnswerOf(h, d) == h.deferred[d].answer
Gathered(h, d) == h.deferred[d].array
CountOf(h, d) == h.deferred[d].pendingCount
Messages(h, d) == h.deferred[d].messages
Listeners(h, d) == h.deferred[d].listeners
Waiting(h, d) == h.deferred[d].waiting

MemoryFields ==
  {"deferred", "queue", "flush", "timers", "rejections", "unhandled", "thrown", "called",
   "outside", "held", "notified", "fired", "late", "it"}

DeferredFields ==
  {"target", "messages", "listeners", "self", "fulfilled", "rejected", "progressed", "done",
   "answer", "array", "pendingCount", "waiting"}

ShapeInv(h) ==
  /\ DOMAIN h = MemoryFields
  /\ IsSeq(h.queue) /\ IsSeq(h.held) /\ h.rejections \in Nat
  /\ \A d \in DOMAIN h.deferred :
       /\ DOMAIN h.deferred[d] = DeferredFields
       /\ IsSeq(Messages(h, d)) /\ IsSeq(Listeners(h, d)) /\ IsSeq(Waiting(h, d))
       /\ IsDone(h, d) \in BOOLEAN

\* The deferreds that the library has made.
Own(h) == (Sources + 1)..Len(h.deferred)

\* Those of them that a callback may resolve with what it gets.
Plain(h) == {d \in Own(h) : Self(h, d) = None /\ Gathered(h, d) = None}

Knows(h, x) == Known(Len(h.deferred), h.rejections, Plain(h), x)

KnowsPromise(h, x) == Knows(h, x) /\ IsPromise(x)

KnowsValue(h, x) == Knows(h, x) /\ ~IsPromise(x)

IsCallback(h, cb) ==
  \/ cb \in Function
  \/ cb[1] = "returns" /\ Knows(h, cb[2]) /\ Loose(cb[2])
  \/ cb[1] = "throws" /\ KnowsValue(h, cb[2])
  \/ cb[1] \in {"resolve", "clears"} /\ cb[2] \in Plain(h)
  \/ cb[1] \in {"reject", "notify", "miss"} /\ cb[2] \in Own(h)
  \/ cb[1] = "gather" /\ cb[2] \in Own(h) /\ Gathered(h, cb[2]) # None
  \/ cb[1] \in {"all", "allResolved", "allSettled", "race", "unhandled", "tells", "delay"}
  \/ cb[1] = "inspect" /\ KnowsPromise(h, cb[2])
  \/ cb[1] = "spread" /\ cb = <<"spread", cb[2]>> /\ cb[2] \in Function \cup {<<"same">>}
  \/ cb[1] = "tap" /\ KnowsValue(h, cb[2])
  \/ cb[1] = "finally" /\ KnowsValue(h, cb[2]) /\ cb[3] \in {"returns", "throws"}
  \/ cb[1] = "continue" /\ cb[2] \in {"next", "throw"} /\ cb[3] \in Generator

\* What is called with the progress of a promise.
IsListener(h, cb) ==
  \/ cb \in Function
  \/ cb[1] = "notify" /\ cb[2] \in Own(h)

\* The memory refers to what there is.
KnownInv(h) ==
  /\ \A d \in DOMAIN h.deferred :
       /\ Target(h, d) = None \/ KnowsPromise(h, Target(h, d))
       /\ Gathered(h, d) # None =>
            KnowsValue(h, Gathered(h, d)) /\ d \in Own(h) /\ Self(h, d) = None
       /\ Self(h, d) # None => d \in Own(h) /\ KnowsPromise(h, Self(h, d))
       /\ OnFulfilled(h, d) = None \/ IsCallback(h, OnFulfilled(h, d))
       /\ OnRejected(h, d) = None
            \/ (IsCallback(h, OnRejected(h, d)) /\ OnRejected(h, d)[1] # "spread")
       /\ OnProgress(h, d) = None \/ IsListener(h, OnProgress(h, d))
  /\ \A timer \in h.timers :
       /\ timer[2] \in Plain(h) /\ timer[1] \in {"timeout", "delay"}
       /\ timer[1] = "delay" => KnowsValue(h, timer[3])
  /\ \A i \in DOMAIN h.held : Knows(h, h.held[i])
  /\ h.outside \subseteq 1..Sources \cup Plain(h)
  /\ h.unhandled \subseteq 1..h.rejections

LooseItems(x) == \A i \in DOMAIN Items(x) : Loose(Items(x)[i])

\* The array of all is one of values and sources, and so is what it comes to.
IsFlat(h, d) ==
  /\ Gathered(h, d)[1] = "array" /\ LooseItems(Gathered(h, d))
  /\ \/ Target(h, d) = None \/ Target(h, d)[1] = "rejected"
     \/ Target(h, d)[1] = "fulfilled" /\ LooseItems(Target(h, d)[2])

\* The promise of all of an array of values and sources.
IsAll(h, d) ==
  /\ OnFulfilled(h, d) = <<"all">> /\ OnRejected(h, d) = None
  /\ \E x : Self(h, d) = Fulfilled(x) /\ x[1] = "array" /\ LooseItems(x)

\* What join compares is no promise that it could close a ring with.
FlatInv(h) ==
  \A d \in DOMAIN h.deferred :
    /\ IsAll(h, d) /\ IsResolved(h, d) =>
         \/ Target(h, d)[1] = "rejected"
         \/ \E e \in DOMAIN h.deferred : Target(h, d) = Deferred(e) /\ IsFlat(h, e)
    /\ OnFulfilled(h, d) = <<"spread", <<"same">>>> =>
         \E e \in DOMAIN h.deferred : Self(h, d) = Deferred(e) /\ IsAll(h, e)

\* A message of dispatch.
IsAsk(h, msg) ==
  /\ msg.resolve[1] = "deferred" /\ msg.resolve[2] \in Plain(h)
  /\ msg.rejected = None /\ msg.progress = None
  /\ \/ msg.op = "data" /\ msg.arg \in Function
     \/ msg.op = "apply" /\ Knows(h, msg.arg)

\* A message of then is in the chain of the promise then was called on.
IsThenAt(h, x, msg) ==
  \E d \in DOMAIN h.deferred :
    /\ Self(h, d) # None /\ Along(h, Self(h, d), x)
    /\ \/ msg = ToAnswer(d)
       \/ msg = ToListen(d) /\ ~IsDone(h, d)

IsMessageAt(h, x, msg) == KnowsPromise(h, x) /\ (IsAsk(h, msg) \/ IsThenAt(h, x, msg))

IsTask(h, task) ==
  \/ task.do = "dispatch" /\ IsMessageAt(h, task.to, task.msg)
  \/ /\ task.do = "progress" /\ Knows(h, task.value)
     /\ task.of \in DOMAIN h.deferred /\ Self(h, task.of) # None /\ ~IsDone(h, task.of)
  \/ /\ task.do = "coerce"
     /\ task.thenable[2] \in {"throws", "keeps"} /\ task.deferred \in Plain(h)
  \/ task.do \in {"throw", "tells"}

QueueInv(h) ==
  /\ \A i \in DOMAIN h.queue : IsTask(h, h.queue[i])
  /\ h.flush = "idle" => h.queue = <<>>

KeptInv(h) ==
  \A d \in DOMAIN h.deferred :
    /\ IsResolved(h, d) => Messages(h, d) = <<>> /\ Listeners(h, d) = <<>>
    /\ \A i \in DOMAIN Messages(h, d) : IsMessageAt(h, Deferred(d), Messages(h, d)[i])

\* a comes before b: calls of then on one promise are answered in their order, and
\* a call listens before it is answered.
Leads(h, a, b) ==
  \E e \in DOMAIN h.deferred :
    /\ b = ToAnswer(e)
    /\ \/ a = ToListen(e)
       \/ \E d \in DOMAIN h.deferred : a = ToAnswer(d) /\ d < e /\ Self(h, d) = Self(h, e)

IsQueued(h, i) == i \in DOMAIN h.queue /\ h.queue[i].do = "dispatch"
To(h, i) == h.queue[i].to
Sent(h, i) == h.queue[i].msg

\* What leads is further along the chain, or before in the same place.
OrderInv(h) ==
  /\ \A i, j \in DOMAIN h.queue :
       IsQueued(h, i) /\ IsQueued(h, j) /\ Leads(h, Sent(h, i), Sent(h, j)) =>
         Along(h, To(h, j), To(h, i)) /\ (To(h, i) = To(h, j) => i < j)
  /\ \A d \in DOMAIN h.deferred : \A i \in DOMAIN Messages(h, d) :
       /\ \A j \in DOMAIN h.queue : IsQueued(h, j) =>
            /\ Leads(h, Messages(h, d)[i], Sent(h, j)) => Along(h, To(h, j), Deferred(d))
            /\ ~Leads(h, Sent(h, j), Messages(h, d)[i])
       /\ \A e \in DOMAIN h.deferred : \A j \in DOMAIN Messages(h, e) :
            Leads(h, Messages(h, d)[i], Messages(h, e)[j]) => d = e /\ i < j

\* The calls that wait for a promise, in their order.
WaitingInv(h) ==
  /\ \A d \in DOMAIN h.deferred : ~IsDone(h, d) => AnswerOf(h, d) = Pending
  /\ \A p \in DOMAIN h.deferred :
       /\ \A i \in DOMAIN Waiting(h, p) :
            LET d == Waiting(h, p)[i]
            IN /\ d \in DOMAIN h.deferred /\ Self(h, d) = Deferred(p) /\ ~IsDone(h, d)
               /\ \A j \in DOMAIN Waiting(h, p) : i < j => d < Waiting(h, p)[j]
       /\ \A d \in DOMAIN h.deferred : Self(h, d) = Deferred(p) /\ ~IsDone(h, d) =>
            \E i \in DOMAIN Waiting(h, p) : Waiting(h, p)[i] = d

\* A listener is not past the call it belongs to.
ListenInv(h) ==
  /\ \A p \in DOMAIN h.deferred : \A i \in DOMAIN Listeners(h, p) :
       LET d == Listeners(h, p)[i]
       IN /\ d \in DOMAIN h.deferred /\ Self(h, d) # None /\ ~IsDone(h, d)
          /\ \A j \in DOMAIN h.queue : IsQueued(h, j) /\ Sent(h, j) = ToAnswer(d) =>
               Along(h, To(h, j), Deferred(p))
          /\ \A e \in DOMAIN h.deferred : \A j \in DOMAIN Messages(h, e) :
               Messages(h, e)[j] = ToAnswer(d) => e = p
  /\ \A i, j \in DOMAIN h.queue :
       /\ h.queue[i].do = "progress" /\ IsQueued(h, j)
       /\ Sent(h, j) = ToAnswer(h.queue[i].of) /\ Final(To(h, j))
       => i < j

SeesRejection(h, d, k) ==
  \E y : y[1] = "rejected" /\ y[2] = k /\ Along(h, Self(h, d), y)

\* What was answered has an end, and a rejection that was seen is handled.
DoneInv(h) ==
  /\ \A d \in DOMAIN h.deferred : IsDone(h, d) =>
       Self(h, d) # None /\ \E y : Final(y) /\ Knows(h, y) /\ Along(h, Self(h, d), y)
  /\ \A k \in 1..h.rejections :
       k \in h.unhandled <=> ~ \E d \in DOMAIN h.deferred : IsDone(h, d) /\ SeesRejection(h, d, k)

CoreInv(h) ==
  /\ ShapeInv(h) /\ TargetsInv(h) /\ KnownInv(h) /\ FlatInv(h) /\ QueueInv(h) /\ KeptInv(h)
  /\ OrderInv(h) /\ WaitingInv(h) /\ ListenInv(h) /\ DoneInv(h)

\* The message that will answer call d of then is somewhere.
IsPlaced(h, d) ==
  \/ \E i \in DOMAIN h.queue : IsQueued(h, i) /\ Sent(h, i) = ToAnswer(d)
  \/ \E e \in DOMAIN h.deferred : \E i \in DOMAIN Messages(h, e) : Messages(h, e)[i] = ToAnswer(d)

IsLost(h, d) ==
  d \in DOMAIN h.deferred /\ Self(h, d) # None /\ ~IsDone(h, d) /\ ~IsPlaced(h, d)

MemoryInv(h) == CoreInv(h) /\ \A d : ~IsLost(h, d)

-----------------------------------------------------------------------------
(* What memory keeps *)

\* What a step of the library changes of what is there: deferreds may be resolved.
More(h, g) ==
  /\ Len(h.deferred) \in Nat /\ DOMAIN h.deferred = 1..Len(h.deferred)
  /\ Len(g.deferred) \in Nat /\ DOMAIN g.deferred = 1..Len(g.deferred)
  /\ Len(h.deferred) <= Len(g.deferred)
  /\ h.rejections \in Nat /\ g.rejections \in Nat /\ h.rejections <= g.rejections
  /\ \A d \in DOMAIN h.deferred :
       /\ IsResolved(h, d) => Target(g, d) = Target(h, d)
       /\ Self(g, d) = Self(h, d) /\ (IsDone(g, d) <=> IsDone(h, d))
       /\ OnFulfilled(g, d) = OnFulfilled(h, d) /\ OnRejected(g, d) = OnRejected(h, d)
       /\ OnProgress(g, d) = OnProgress(h, d)
       /\ Gathered(g, d) = None <=> Gathered(h, d) = None
       /\ IsFlat(h, d) => IsFlat(g, d)

LEMMA MoreKnows ==
  ASSUME NEW h, NEW g, More(h, g)
  PROVE  /\ DOMAIN h.deferred \subseteq DOMAIN g.deferred
         /\ Own(h) \subseteq Own(g) /\ Plain(h) \subseteq Plain(g)
         /\ \A x : Knows(h, x) => Knows(g, x)
<1>1. \A d : d \in 1..Len(h.deferred) => d \in 1..Len(g.deferred)
  BY DEF More
<1>2. DOMAIN h.deferred \subseteq DOMAIN g.deferred
  BY <1>1 DEF More
<1>3. Own(h) \subseteq Own(g) /\ Own(h) \subseteq DOMAIN h.deferred
  <2> DEFINE p == Len(h.deferred)
             q == Len(g.deferred)
  <2>1. p \in Nat /\ q \in Nat /\ p <= q /\ DOMAIN h.deferred = 1..p /\ Sources \in Nat
    BY SourcesAssumption DEF More
  <2> HIDE DEF p, q
  <2>2. (Sources + 1)..p \subseteq (Sources + 1)..q /\ (Sources + 1)..p \subseteq 1..p
    BY <2>1
  <2> QED
    BY <2>1, <2>2 DEF Own, p, q
<1>4. Plain(h) \subseteq Plain(g)
  BY <1>3 DEF Plain, More
<1>5. ASSUME NEW x, Knows(h, x) PROVE Knows(g, x)
  BY <1>4, <1>5, KnownMore DEF Knows, More
<1> QED
  BY <1>2, <1>3, <1>4, <1>5

LEMMA MoreCallback ==
  ASSUME NEW h, NEW g, More(h, g)
  PROVE  /\ \A cb : IsCallback(h, cb) => IsCallback(g, cb)
         /\ \A cb : IsListener(h, cb) => IsListener(g, cb)
<1>1. /\ Own(h) \subseteq Own(g) /\ Plain(h) \subseteq Plain(g)
      /\ \A x : Knows(h, x) => Knows(g, x)
  BY MoreKnows
<1>2. \A d \in Own(h) : Gathered(h, d) # None => Gathered(g, d) # None
  <2>1. Own(h) \subseteq DOMAIN h.deferred
    BY SourcesAssumption DEF Own, More
  <2> QED
    BY <2>1 DEF More
<1> QED
  BY <1>1, <1>2 DEF IsCallback, IsListener, KnowsPromise, KnowsValue

LEMMA MoreAlong ==
  ASSUME NEW h, NEW g, More(h, g), NEW x, NEW y, Along(h, x, y)
  PROVE  Along(g, x, y)
BY AlongMore, MoreKnows DEF More

LEMMA MoreMessage ==
  ASSUME NEW h, NEW g, More(h, g)
  PROVE  /\ \A x, msg : IsMessageAt(h, x, msg) => IsMessageAt(g, x, msg)
         /\ \A task : IsTask(h, task) => IsTask(g, task)
<1>1. /\ DOMAIN h.deferred \subseteq DOMAIN g.deferred /\ Plain(h) \subseteq Plain(g)
      /\ \A x : Knows(h, x) => Knows(g, x)
  BY MoreKnows
<1>2. ASSUME NEW msg, IsAsk(h, msg) PROVE IsAsk(g, msg)
  BY <1>1, <1>2 DEF IsAsk
<1>3. ASSUME NEW x, NEW msg, IsThenAt(h, x, msg) PROVE IsThenAt(g, x, msg)
  BY <1>1, <1>3, MoreAlong DEF IsThenAt, More
<1>4. \A x, msg : IsMessageAt(h, x, msg) => IsMessageAt(g, x, msg)
  BY <1>1, <1>2, <1>3 DEF IsMessageAt, KnowsPromise
<1>5. ASSUME NEW task, IsTask(h, task) PROVE IsTask(g, task)
  BY <1>1, <1>4, <1>5 DEF IsTask, More
<1> QED
  BY <1>4, <1>5

LEMMA MessagesDiffer ==
  /\ \A d : ToAnswer(d).resolve = <<"then", d>> /\ ToAnswer(d).rejected = <<"then", d>>
            /\ ToAnswer(d).progress = None /\ ToAnswer(d).op = "when"
  /\ \A d : ToListen(d).resolve = None /\ ToListen(d).rejected = None
            /\ ToListen(d).progress = <<"then", d>> /\ ToListen(d).op = "when"
  /\ \A d, e : ToAnswer(d) = ToAnswer(e) => d = e
  /\ \A d, e : ToListen(d) = ToListen(e) => d = e
  /\ \A d, e : ToAnswer(d) # ToListen(e)
  /\ \A h, d, msg : IsAsk(h, msg) => msg # ToAnswer(d) /\ msg # ToListen(d)
<1>1. \A d : ToAnswer(d).resolve = <<"then", d>> /\ ToAnswer(d).rejected = <<"then", d>>
             /\ ToAnswer(d).progress = None /\ ToAnswer(d).op = "when"
  BY DEF ToAnswer, Message
<1>2. \A d : ToListen(d).resolve = None /\ ToListen(d).rejected = None
             /\ ToListen(d).progress = <<"then", d>> /\ ToListen(d).op = "when"
  BY DEF ToListen, Message
<1>3. \A d, e : <<"then", d>> = <<"then", e>> => d = e
  <2> SUFFICES ASSUME NEW d, NEW e, <<"then", d>> = <<"then", e>> PROVE d = e
    OBVIOUS
  <2>1. <<"then", d>>[2] = <<"then", e>>[2]
    OBVIOUS
  <2> QED
    BY <2>1
<1>4. \A d, e : ToAnswer(d) = ToAnswer(e) => d = e
  BY <1>1, <1>3
<1>5. \A d, e : ToListen(d) = ToListen(e) => d = e
  BY <1>2, <1>3
<1>6. \A d : <<"then", d>>[1] = "then" /\ None[1] = "none"
  BY DEF None
<1>7. \A d, e : ToAnswer(d) # ToListen(e)
  BY <1>1, <1>2, <1>6
<1>8. \A h, d, msg : IsAsk(h, msg) => msg # ToAnswer(d) /\ msg # ToListen(d)
  BY <1>1, <1>2, <1>6 DEF IsAsk
<1> QED
  BY <1>1, <1>2, <1>4, <1>5, <1>7, <1>8

\* Messages that are there do not lead others than before.
LEMMA MoreLeads ==
  ASSUME NEW h, NEW g, More(h, g), NEW x, NEW y, NEW a, NEW b,
         IsMessageAt(h, x, a), IsMessageAt(h, y, b), Leads(g, a, b)
  PROVE  Leads(h, a, b)
<1>1. \A e : b = ToAnswer(e) => e \in DOMAIN h.deferred
  BY MessagesDiffer DEF IsMessageAt, IsThenAt
<1>2. \A e : a = ToAnswer(e) => e \in DOMAIN h.deferred
  BY MessagesDiffer DEF IsMessageAt, IsThenAt
<1> QED
  BY <1>1, <1>2 DEF Leads, More

\* Nothing leads a message of dispatch, and it leads nothing.
LEMMA AsksLeadNothing ==
  ASSUME NEW h, NEW g, NEW msg, IsAsk(g, msg), NEW a
  PROVE  ~Leads(h, a, msg) /\ ~Leads(h, msg, a)
BY MessagesDiffer DEF Leads

LEMMA CoreIs ==
  ASSUME NEW h, CoreInv(h)
  PROVE  /\ ShapeInv(h) /\ TargetsInv(h) /\ KnownInv(h) /\ FlatInv(h) /\ QueueInv(h)
         /\ KeptInv(h) /\ OrderInv(h) /\ WaitingInv(h) /\ ListenInv(h) /\ DoneInv(h)
         /\ Len(h.deferred) \in Nat /\ DOMAIN h.deferred = 1..Len(h.deferred)
         /\ Len(h.queue) \in Nat /\ DOMAIN h.queue = 1..Len(h.queue)
         /\ h.rejections \in Nat /\ Own(h) \subseteq DOMAIN h.deferred
         /\ Plain(h) \subseteq Own(h) /\ 1..Sources \subseteq DOMAIN h.deferred
         /\ Sources <= Len(h.deferred)
<1>1. ShapeInv(h) /\ TargetsInv(h)
  BY DEF CoreInv
<1>2. Own(h) \subseteq DOMAIN h.deferred /\ 1..Sources \subseteq DOMAIN h.deferred
  BY <1>1, DomainIs, SourcesAssumption DEF Own
<1>3. Len(h.queue) \in Nat /\ DOMAIN h.queue = 1..Len(h.queue)
  BY <1>1, SeqIs DEF ShapeInv
<1> QED
  BY <1>1, <1>2, <1>3, DomainIs DEF CoreInv, Plain, ShapeInv

\* What a queue or a deferred holds is a message of the memory.
LEMMA CoreMessages ==
  ASSUME NEW h, CoreInv(h)
  PROVE  /\ \A i : IsQueued(h, i) => IsMessageAt(h, To(h, i), Sent(h, i))
         /\ \A d \in DOMAIN h.deferred : \A i \in DOMAIN Messages(h, d) :
              IsMessageAt(h, Deferred(d), Messages(h, d)[i])
BY CoreIs DEF IsQueued, QueueInv, IsTask, To, Sent, KeptInv

\* What was answered sees no other rejection later.
LEMMA MoreSees ==
  ASSUME NEW h, CoreInv(h), NEW g, TargetsInv(g), More(h, g),
         NEW d \in DOMAIN h.deferred, IsDone(h, d), NEW k
  PROVE  SeesRejection(g, d, k) <=> SeesRejection(h, d, k)
<1>1. SeesRejection(h, d, k) => SeesRejection(g, d, k)
  BY MoreAlong DEF SeesRejection, More
<1>2. ASSUME SeesRejection(g, d, k) PROVE SeesRejection(h, d, k)
  <2>1. PICK y : Final(y) /\ Along(h, Self(h, d), y)
    BY CoreIs DEF DoneInv
  <2>2. PICK z : z[1] = "rejected" /\ z[2] = k /\ Along(g, Self(h, d), z)
    BY <1>2 DEF SeesRejection, More
  <2>3. Along(g, Self(h, d), y) /\ IsEnd(g, y)
    BY <2>1, MoreAlong, FinalEnds
  <2>4. IsEnd(g, z)
    BY <2>2, DeferredIs DEF IsEnd
  <2>5. z = y
    <3>1. CASE \E e \in DOMAIN g.deferred : Self(h, d) = Deferred(e)
      BY <2>2, <2>3, <2>4, <3>1, AlongOneEnd
    <3>2. CASE ~ \E e \in DOMAIN g.deferred : Self(h, d) = Deferred(e)
      <4>1. IsEnd(g, Self(h, d))
        BY <3>2 DEF IsEnd
      <4> QED
        BY <2>2, <2>3, <4>1, AlongEnd
    <3> QED
      BY <3>1, <3>2
  <2> QED
    BY <2>1, <2>2, <2>5 DEF SeesRejection
<1> QED
  BY <1>1, <1>2

-----------------------------------------------------------------------------
(* Steps of the library *)

Widens(h, g) ==
  /\ More(h, g)
  /\ \A d \in DOMAIN h.deferred :
       /\ AnswerOf(g, d) = AnswerOf(h, d)
       /\ Len(Waiting(h, d)) <= Len(Waiting(g, d))
       /\ \A i \in DOMAIN Waiting(h, d) : Waiting(g, d)[i] = Waiting(h, d)[i]
  /\ \A d \in DOMAIN g.deferred : d \notin DOMAIN h.deferred =>
       ~IsDone(g, d) /\ AnswerOf(g, d) = Pending
  /\ g.late = h.late /\ g.held = h.held

\* No message is lost on the way.
Grows(h, g) == Widens(h, g) /\ \A d : IsLost(g, d) => IsLost(h, d)

\* What the functions of the library do to memory.
Goes(h, g) == CoreInv(g) /\ Grows(h, g)

LEMMA WidensTrans ==
  ASSUME NEW h, NEW g, NEW k, CoreInv(h), CoreInv(g), CoreInv(k), Widens(h, g), Widens(g, k)
  PROVE  Widens(h, k)
<1>1. /\ DOMAIN h.deferred \subseteq DOMAIN g.deferred
      /\ DOMAIN g.deferred \subseteq DOMAIN k.deferred
  BY MoreKnows DEF Widens
<1>2. \A d : d \in DOMAIN h.deferred /\ IsResolved(h, d) => IsResolved(g, d)
  BY DEF IsResolved, Target, Widens, More
<1>3. More(h, k)
  <2>1. Len(h.deferred) <= Len(k.deferred) /\ h.rejections <= k.rejections
    BY DEF Widens, More
  <2> QED
    BY <1>1, <1>2, <2>1 DEF Widens, More
<1>4. ASSUME NEW d \in DOMAIN h.deferred
      PROVE  /\ Len(Waiting(h, d)) <= Len(Waiting(k, d))
             /\ \A i \in DOMAIN Waiting(h, d) : Waiting(k, d)[i] = Waiting(h, d)[i]
  <2> DEFINE u == Waiting(h, d)
             v == Waiting(g, d)
             w == Waiting(k, d)
  <2>1. /\ Len(u) \in Nat /\ DOMAIN u = 1..Len(u) /\ Len(v) \in Nat /\ DOMAIN v = 1..Len(v)
        /\ Len(w) \in Nat
    BY <1>1, SeqIs, CoreIs DEF ShapeInv
  <2>2. /\ Len(u) <= Len(v) /\ Len(v) <= Len(w)
        /\ \A i \in DOMAIN u : v[i] = u[i]
        /\ \A i \in DOMAIN v : w[i] = v[i]
    BY <1>1 DEF Widens
  <2> HIDE DEF u, v, w
  <2>3. Len(u) <= Len(w) /\ \A i \in DOMAIN u : w[i] = u[i]
    BY <2>1, <2>2
  <2> QED
    BY <2>3 DEF u, w
<1> QED
  BY <1>1, <1>3, <1>4 DEF Widens, More

LEMMA GoesTrans ==
  ASSUME NEW h, CoreInv(h), NEW g, NEW k, Goes(h, g), Goes(g, k)
  PROVE  Goes(h, k)
BY WidensTrans DEF Goes, Grows

LEMMA GoesSelf ==
  ASSUME NEW h, CoreInv(h)
  PROVE  Goes(h, h)
<1>1. \A d \in DOMAIN h.deferred : Len(Waiting(h, d)) <= Len(Waiting(h, d))
  BY SeqIs, CoreIs DEF ShapeInv
<1> QED
  BY <1>1, CoreIs DEF Goes, Grows, Widens, More

\* A step that posts nothing, and resolves nothing.
LEMMA Adds ==
  ASSUME NEW h, CoreInv(h), NEW g,
         ShapeInv(g), TargetsInv(g), KnownInv(g), FlatInv(g), WaitingInv(g), More(h, g),
         g.queue = h.queue, g.flush = h.flush,
         \A d \in DOMAIN h.deferred :
           /\ Messages(g, d) = Messages(h, d) /\ Listeners(g, d) = Listeners(h, d)
           /\ Target(g, d) = Target(h, d),
         \A d \in DOMAIN g.deferred : d \notin DOMAIN h.deferred =>
           /\ Messages(g, d) = <<>> /\ Listeners(g, d) = <<>>
           /\ Target(g, d) = None /\ ~IsDone(g, d),
         g.unhandled = h.unhandled \cup ((h.rejections + 1)..g.rejections)
  PROVE  /\ CoreInv(g)
         /\ \A d : IsLost(g, d) =>
              IsLost(h, d) \/ (d \in DOMAIN g.deferred /\ d \notin DOMAIN h.deferred /\ Self(g, d) # None)
<1>1. /\ DOMAIN h.deferred \subseteq DOMAIN g.deferred
      /\ \A x : Knows(h, x) => Knows(g, x)
  BY MoreKnows
<1>2. QueueInv(g)
  BY MoreMessage, CoreIs DEF QueueInv
<1>3. KeptInv(g)
  <2> SUFFICES ASSUME NEW d \in DOMAIN g.deferred
               PROVE  /\ IsResolved(g, d) => Messages(g, d) = <<>> /\ Listeners(g, d) = <<>>
                      /\ \A i \in DOMAIN Messages(g, d) :
                           IsMessageAt(g, Deferred(d), Messages(g, d)[i])
    BY DEF KeptInv
  <2>1. CASE d \in DOMAIN h.deferred
    BY <2>1, MoreMessage, CoreIs DEF KeptInv, IsResolved, Target
  <2>2. CASE d \notin DOMAIN h.deferred
    BY <2>2
  <2> QED
    BY <2>1, <2>2
<1>4. /\ \A i : IsQueued(g, i) <=> IsQueued(h, i)
      /\ \A i : To(g, i) = To(h, i) /\ Sent(g, i) = Sent(h, i)
  BY DEF IsQueued, To, Sent
<1>5. \A d \in DOMAIN g.deferred : \A i \in DOMAIN Messages(g, d) :
        d \in DOMAIN h.deferred /\ i \in DOMAIN Messages(h, d)
          /\ Messages(g, d)[i] = Messages(h, d)[i]
  OBVIOUS
<1>6. OrderInv(g)
  <2>1. /\ \A i : IsQueued(h, i) => IsMessageAt(h, To(h, i), Sent(h, i))
        /\ \A d \in DOMAIN h.deferred : \A i \in DOMAIN Messages(h, d) :
             IsMessageAt(h, Deferred(d), Messages(h, d)[i])
    BY CoreMessages
  <2>2. OrderInv(h)
    BY CoreIs
  <2>3. ASSUME NEW i \in DOMAIN g.queue, NEW j \in DOMAIN g.queue,
               IsQueued(g, i), IsQueued(g, j), Leads(g, Sent(g, i), Sent(g, j))
        PROVE  Along(g, To(g, j), To(g, i)) /\ (To(g, i) = To(g, j) => i < j)
    <3>1. Leads(h, Sent(h, i), Sent(h, j))
      BY <1>4, <2>1, <2>3, MoreLeads
    <3> QED
      BY <1>4, <2>2, <2>3, <3>1, MoreAlong DEF OrderInv
  <2>4. ASSUME NEW d \in DOMAIN g.deferred, NEW i \in DOMAIN Messages(g, d),
               NEW j \in DOMAIN g.queue, IsQueued(g, j)
        PROVE  /\ Leads(g, Messages(g, d)[i], Sent(g, j)) => Along(g, To(g, j), Deferred(d))
               /\ ~Leads(g, Sent(g, j), Messages(g, d)[i])
    <3>1. d \in DOMAIN h.deferred /\ i \in DOMAIN Messages(h, d)
          /\ Messages(g, d)[i] = Messages(h, d)[i]
      BY <1>5
    <3>2. /\ Leads(g, Messages(h, d)[i], Sent(h, j)) => Leads(h, Messages(h, d)[i], Sent(h, j))
          /\ Leads(g, Sent(h, j), Messages(h, d)[i]) => Leads(h, Sent(h, j), Messages(h, d)[i])
      BY <1>4, <2>1, <2>4, <3>1, MoreLeads
    <3> QED
      BY <1>4, <2>2, <2>4, <3>1, <3>2, MoreAlong DEF OrderInv
  <2>5. ASSUME NEW d \in DOMAIN g.deferred, NEW i \in DOMAIN Messages(g, d),
               NEW e \in DOMAIN g.deferred, NEW j \in DOMAIN Messages(g, e),
               Leads(g, Messages(g, d)[i], Messages(g, e)[j])
        PROVE  d = e /\ i < j
    <3>1. Leads(h, Messages(h, d)[i], Messages(h, e)[j])
      BY <1>5, <2>1, <2>5, MoreLeads
    <3> QED
      BY <1>5, <2>2, <3>1 DEF OrderInv
  <2> QED
    BY <2>3, <2>4, <2>5 DEF OrderInv
<1>7. ListenInv(g)
  <2>1. ListenInv(h)
    BY CoreIs
  <2>2. ASSUME NEW p \in DOMAIN g.deferred, NEW i \in DOMAIN Listeners(g, p), NEW d,
               d = Listeners(g, p)[i]
        PROVE  /\ d \in DOMAIN g.deferred /\ Self(g, d) # None /\ ~IsDone(g, d)
               /\ \A j \in DOMAIN g.queue : IsQueued(g, j) /\ Sent(g, j) = ToAnswer(d) =>
                    Along(g, To(g, j), Deferred(p))
               /\ \A e \in DOMAIN g.deferred : \A j \in DOMAIN Messages(g, e) :
                    Messages(g, e)[j] = ToAnswer(d) => e = p
    <3>1. p \in DOMAIN h.deferred /\ i \in DOMAIN Listeners(h, p) /\ d = Listeners(h, p)[i]
      BY <2>2
    <3>2. /\ d \in DOMAIN h.deferred /\ Self(h, d) # None /\ ~IsDone(h, d)
          /\ \A j \in DOMAIN h.queue : IsQueued(h, j) /\ Sent(h, j) = ToAnswer(d) =>
               Along(h, To(h, j), Deferred(p))
          /\ \A e \in DOMAIN h.deferred : \A j \in DOMAIN Messages(h, e) :
               Messages(h, e)[j] = ToAnswer(d) => e = p
      BY <2>1, <3>1 DEF ListenInv
    <3>3. d \in DOMAIN g.deferred /\ Self(g, d) # None /\ ~IsDone(g, d)
      BY <1>1, <3>2 DEF More
    <3>4. \A j \in DOMAIN g.queue : IsQueued(g, j) /\ Sent(g, j) = ToAnswer(d) =>
            Along(g, To(g, j), Deferred(p))
      BY <1>4, <3>2, MoreAlong
    <3> QED
      BY <1>5, <3>2, <3>3, <3>4
  <2>3. \A i, j \in DOMAIN g.queue :
          /\ g.queue[i].do = "progress" /\ IsQueued(g, j)
          /\ Sent(g, j) = ToAnswer(g.queue[i].of) /\ Final(To(g, j))
          => i < j
    BY <1>4, <2>1 DEF ListenInv
  <2> QED
    BY <2>2, <2>3 DEF ListenInv
<1>8. DoneInv(g)
  <2>1. ASSUME NEW d \in DOMAIN g.deferred, IsDone(g, d)
        PROVE  /\ d \in DOMAIN h.deferred /\ IsDone(h, d)
               /\ Self(g, d) # None /\ \E y : Final(y) /\ Knows(g, y) /\ Along(g, Self(g, d), y)
    <3>1. d \in DOMAIN h.deferred /\ IsDone(h, d) /\ Self(g, d) = Self(h, d)
      BY <2>1 DEF More
    <3> QED
      BY <1>1, <3>1, MoreAlong, CoreIs DEF DoneInv
  <2>2. ASSUME NEW k \in 1..g.rejections
        PROVE  k \in g.unhandled
                 <=> ~ \E d \in DOMAIN g.deferred : IsDone(g, d) /\ SeesRejection(g, d, k)
    <3>1. (\E d \in DOMAIN g.deferred : IsDone(g, d) /\ SeesRejection(g, d, k))
            <=> \E d \in DOMAIN h.deferred : IsDone(h, d) /\ SeesRejection(h, d, k)
      BY <1>1, <2>1, MoreSees DEF More
    <3>2. CASE k \in 1..h.rejections
      <4>1. k \notin (h.rejections + 1)..g.rejections
        BY <3>2 DEF More
      <4> QED
        BY <3>1, <3>2, <4>1, CoreIs DEF DoneInv
    <3>3. CASE k \notin 1..h.rejections
      <4>1. k \in g.unhandled
        <5>1. k \in (h.rejections + 1)..g.rejections
          BY <3>3 DEF More
        <5> QED
          BY <5>1
      <4>2. ASSUME NEW d \in DOMAIN h.deferred, IsDone(h, d), SeesRejection(h, d, k)
            PROVE  FALSE
        <5>1. PICK y : Final(y) /\ Knows(h, y) /\ Along(h, Self(h, d), y)
          BY <4>2, CoreIs DEF DoneInv
        <5>2. PICK z : z[1] = "rejected" /\ z[2] = k /\ Along(h, Self(h, d), z)
          BY <4>2 DEF SeesRejection
        <5>3. IsEnd(h, y) /\ IsEnd(h, z)
          BY <5>1, <5>2, FinalEnds, DeferredIs DEF IsEnd
        <5>4. z = y
          <6>1. CASE \E e \in DOMAIN h.deferred : Self(h, d) = Deferred(e)
            BY <5>1, <5>2, <5>3, <6>1, AlongOneEnd
          <6>2. CASE ~ \E e \in DOMAIN h.deferred : Self(h, d) = Deferred(e)
            <7>1. IsEnd(h, Self(h, d))
              BY <6>2 DEF IsEnd
            <7> QED
              BY <5>1, <5>2, <7>1, AlongEnd
          <6> QED
            BY <6>1, <6>2
        <5>5. k \in 1..h.rejections
          BY <5>1, <5>2, <5>4, KnownIs DEF Knows
        <5> QED
          BY <3>3, <5>5
      <4> QED
        BY <3>1, <4>1, <4>2
    <3> QED
      BY <3>2, <3>3
  <2> QED
    BY <2>1, <2>2 DEF DoneInv
<1>9. ASSUME NEW d, IsLost(g, d)
      PROVE  IsLost(h, d) \/ (d \in DOMAIN g.deferred /\ d \notin DOMAIN h.deferred /\ Self(g, d) # None)
  <2>1. CASE d \in DOMAIN h.deferred
    <3>1. IsPlaced(h, d) => IsPlaced(g, d)
      BY <1>1, <1>4 DEF IsPlaced
    <3> QED
      BY <1>9, <2>1, <3>1 DEF IsLost, More
  <2>2. CASE d \notin DOMAIN h.deferred
    BY <1>9, <2>2 DEF IsLost
  <2> QED
    BY <2>1, <2>2
<1> QED
  BY <1>2, <1>3, <1>6, <1>7, <1>8, <1>9 DEF CoreInv

LEMMA AlongEnds ==
  ASSUME NEW h, NEW x, NEW y, NEW z, Along(h, x, y), Along(h, x, z), IsEnd(h, y), IsEnd(h, z)
  PROVE  z = y
<1>1. CASE \E e \in DOMAIN h.deferred : x = Deferred(e)
  BY <1>1, AlongOneEnd
<1>2. CASE ~ \E e \in DOMAIN h.deferred : x = Deferred(e)
  <2>1. IsEnd(h, x)
    BY <1>2 DEF IsEnd
  <2> QED
    BY <2>1, AlongEnd
<1> QED
  BY <1>1, <1>2

\* A step that changes no deferred, and no task.
LEMMA Alike ==
  ASSUME NEW h, CoreInv(h), NEW g, DOMAIN g = MemoryFields, g.deferred = h.deferred,
         g.queue = h.queue, g.flush = h.flush, g.held = h.held, g.late = h.late,
         \/ g.rejections = h.rejections /\ g.unhandled = h.unhandled
         \/ g.rejections = h.rejections + 1 /\ g.unhandled = h.unhandled \cup {g.rejections},
         \A timer \in g.timers :
           \/ timer \in h.timers
           \/ /\ timer[2] \in Plain(h) /\ timer[1] \in {"timeout", "delay"}
              /\ timer[1] = "delay" => KnowsValue(h, timer[3]),
         g.outside \subseteq 1..Sources \cup Plain(h)
  PROVE  Goes(h, g) /\ Plain(g) = Plain(h)
<1>1. \A d : /\ Target(g, d) = Target(h, d) /\ Self(g, d) = Self(h, d)
             /\ (IsDone(g, d) <=> IsDone(h, d)) /\ AnswerOf(g, d) = AnswerOf(h, d)
             /\ OnFulfilled(g, d) = OnFulfilled(h, d) /\ OnRejected(g, d) = OnRejected(h, d)
             /\ OnProgress(g, d) = OnProgress(h, d) /\ Gathered(g, d) = Gathered(h, d)
             /\ Messages(g, d) = Messages(h, d) /\ Listeners(g, d) = Listeners(h, d)
             /\ Waiting(g, d) = Waiting(h, d) /\ (IsResolved(g, d) <=> IsResolved(h, d))
  BY DEF Target, Self, IsDone, AnswerOf, OnFulfilled, OnRejected, OnProgress, Gathered, Messages,
         Listeners, Waiting, IsResolved
<1>2. Own(g) = Own(h) /\ Plain(g) = Plain(h)
  BY <1>1 DEF Own, Plain
<1>3. \A d : IsFlat(g, d) <=> IsFlat(h, d)
  BY <1>1 DEF IsFlat
<1>4. More(h, g)
  BY <1>1, <1>3, CoreIs DEF More
<1>5. ShapeInv(g)
  BY CoreIs DEF ShapeInv, Messages, Listeners, Waiting, IsDone
<1>6. TargetsInv(g)
  BY <1>1, CoreIs DEF TargetsInv
<1>7. /\ \A x : Knows(h, x) => Knows(g, x)
      /\ \A cb : IsCallback(h, cb) => IsCallback(g, cb)
      /\ \A cb : IsListener(h, cb) => IsListener(g, cb)
  BY <1>4, MoreKnows, MoreCallback
<1>8. KnownInv(g)
  <2>1. KnownInv(h)
    BY CoreIs
  <2>2. \A d \in DOMAIN g.deferred :
          /\ Target(g, d) = None \/ KnowsPromise(g, Target(g, d))
          /\ Gathered(g, d) # None =>
               KnowsValue(g, Gathered(g, d)) /\ d \in Own(g) /\ Self(g, d) = None
          /\ Self(g, d) # None => d \in Own(g) /\ KnowsPromise(g, Self(g, d))
    BY <1>1, <1>2, <1>7, <2>1 DEF KnownInv, KnowsPromise, KnowsValue
  <2>3. \A d \in DOMAIN g.deferred :
          /\ OnFulfilled(g, d) = None \/ IsCallback(g, OnFulfilled(g, d))
          /\ OnRejected(g, d) = None
               \/ (IsCallback(g, OnRejected(g, d)) /\ OnRejected(g, d)[1] # "spread")
          /\ OnProgress(g, d) = None \/ IsListener(g, OnProgress(g, d))
    BY <1>1, <1>7, <2>1 DEF KnownInv
  <2>4. \A timer \in g.timers :
          /\ timer[2] \in Plain(g) /\ timer[1] \in {"timeout", "delay"}
          /\ timer[1] = "delay" => KnowsValue(g, timer[3])
    BY <1>2, <1>7, <2>1 DEF KnownInv, KnowsValue
  <2>5. \A i \in DOMAIN g.held : Knows(g, g.held[i])
    BY <1>7, <2>1 DEF KnownInv
  <2>6. g.unhandled \subseteq 1..g.rejections
    <3>1. h.unhandled \subseteq 1..h.rejections /\ h.rejections \in Nat
      BY <2>1, CoreIs DEF KnownInv
    <3> QED
      BY <3>1
  <2> QED
    BY <1>2, <2>2, <2>3, <2>4, <2>5, <2>6 DEF KnownInv
<1>9. FlatInv(g)
  BY <1>1, <1>3, CoreIs DEF FlatInv, IsAll
<1>10. WaitingInv(g)
  BY <1>1, CoreIs DEF WaitingInv
<1>11. g.unhandled = h.unhandled \cup ((h.rejections + 1)..g.rejections)
  <2>1. h.rejections \in Nat
    BY CoreIs
  <2>2. CASE g.rejections = h.rejections /\ g.unhandled = h.unhandled
    <3>1. (h.rejections + 1)..g.rejections = {}
      BY <2>1, <2>2
    <3> QED
      BY <2>2, <3>1
  <2>3. CASE g.rejections = h.rejections + 1 /\ g.unhandled = h.unhandled \cup {g.rejections}
    <3>1. (h.rejections + 1)..g.rejections = {g.rejections}
      BY <2>1, <2>3
    <3> QED
      BY <2>3, <3>1
  <2> QED
    BY <2>2, <2>3
<1>12. CoreInv(g) /\ \A d : IsLost(g, d) => IsLost(h, d)
  BY <1>1, <1>4, <1>5, <1>6, <1>8, <1>9, <1>10, <1>11, Adds
<1>13. \A d \in DOMAIN h.deferred : Len(Waiting(h, d)) <= Len(Waiting(h, d))
  BY SeqIs, CoreIs DEF ShapeInv
<1> QED
  BY <1>1, <1>2, <1>4, <1>12, <1>13 DEF Goes, Grows, Widens

\* The array of all or the count of any changes.
LEMMA Counts ==
  ASSUME NEW h, CoreInv(h), NEW g, DOMAIN g = MemoryFields, IsSeq(g.deferred),
         DOMAIN g.deferred = DOMAIN h.deferred,
         g.queue = h.queue, g.flush = h.flush, g.held = h.held, g.late = h.late,
         g.rejections = h.rejections, g.unhandled = h.unhandled, g.timers = h.timers,
         g.outside = h.outside,
         \A d \in DOMAIN h.deferred :
           /\ DOMAIN g.deferred[d] = DeferredFields
           /\ Target(g, d) = Target(h, d) /\ Self(g, d) = Self(h, d)
           /\ IsDone(g, d) = IsDone(h, d) /\ AnswerOf(g, d) = AnswerOf(h, d)
           /\ OnFulfilled(g, d) = OnFulfilled(h, d) /\ OnRejected(g, d) = OnRejected(h, d)
           /\ OnProgress(g, d) = OnProgress(h, d)
           /\ Messages(g, d) = Messages(h, d) /\ Listeners(g, d) = Listeners(h, d)
           /\ Waiting(g, d) = Waiting(h, d)
           /\ \/ Gathered(g, d) = Gathered(h, d)
              \/ /\ Gathered(h, d) # None /\ KnowsValue(h, Gathered(g, d))
                 /\ IsFlat(h, d) => /\ Gathered(g, d)[1] = "array"
                                    /\ LooseItems(Gathered(g, d))
  PROVE  Goes(h, g) /\ Plain(g) = Plain(h)
<1>0. Len(g.deferred) = Len(h.deferred)
  <2>1. /\ Len(g.deferred) \in Nat /\ DOMAIN g.deferred = 1..Len(g.deferred)
        /\ Len(h.deferred) \in Nat /\ DOMAIN h.deferred = 1..Len(h.deferred)
    BY SeqIs, CoreIs
  <2> DEFINE a == Len(g.deferred)
             b == Len(h.deferred)
  <2>2. a \in Nat /\ b \in Nat /\ 1..a = 1..b
    BY <2>1
  <2> HIDE DEF a, b
  <2>3. a = b
    BY <2>2
  <2> QED
    BY <2>3 DEF a, b
<1>1. \A d \in DOMAIN h.deferred :
        /\ IsResolved(g, d) <=> IsResolved(h, d)
        /\ Gathered(g, d) = None <=> Gathered(h, d) = None
  <2>1. \A x : KnowsValue(h, x) => x # None
    BY KnownIs DEF KnowsValue, Knows, None
  <2> QED
    BY <2>1 DEF IsResolved, Target
<1>2. Own(g) = Own(h) /\ Plain(g) = Plain(h)
  <2>1. Own(g) = Own(h)
    BY <1>0 DEF Own
  <2> QED
    BY <1>1, <2>1, CoreIs DEF Plain
<1>3. \A d \in DOMAIN h.deferred : IsFlat(h, d) => IsFlat(g, d)
  BY DEF IsFlat
<1>4. More(h, g)
  BY <1>0, <1>1, <1>3, CoreIs DEF More
<1>5. ShapeInv(g)
  BY CoreIs DEF ShapeInv
<1>6. TargetsInv(g)
  BY <1>0, CoreIs DEF TargetsInv
<1>7. \A x : Knows(g, x) <=> Knows(h, x)
  BY <1>0, <1>2 DEF Knows
<1>8. KnownInv(g)
  <2>1. KnownInv(h)
    BY CoreIs
  <2>2. \A d \in DOMAIN g.deferred :
          /\ Target(g, d) = None \/ KnowsPromise(g, Target(g, d))
          /\ Gathered(g, d) # None =>
               KnowsValue(g, Gathered(g, d)) /\ d \in Own(g) /\ Self(g, d) = None
          /\ Self(g, d) # None => d \in Own(g) /\ KnowsPromise(g, Self(g, d))
    BY <1>1, <1>2, <1>7, <2>1 DEF KnownInv, KnowsPromise, KnowsValue
  <2>3. \A d \in DOMAIN g.deferred :
          /\ OnFulfilled(g, d) = None \/ IsCallback(g, OnFulfilled(g, d))
          /\ OnRejected(g, d) = None
               \/ (IsCallback(g, OnRejected(g, d)) /\ OnRejected(g, d)[1] # "spread")
          /\ OnProgress(g, d) = None \/ IsListener(g, OnProgress(g, d))
    BY <1>4, <2>1, MoreCallback DEF KnownInv
  <2>4. \A timer \in g.timers :
          /\ timer[2] \in Plain(g) /\ timer[1] \in {"timeout", "delay"}
          /\ timer[1] = "delay" => KnowsValue(g, timer[3])
    BY <1>2, <1>7, <2>1 DEF KnownInv, KnowsValue
  <2>5. \A i \in DOMAIN g.held : Knows(g, g.held[i])
    BY <1>7, <2>1 DEF KnownInv
  <2> QED
    BY <1>2, <2>1, <2>2, <2>3, <2>4, <2>5 DEF KnownInv
<1>9. FlatInv(g)
  <2>1. \A d \in DOMAIN h.deferred : IsAll(g, d) <=> IsAll(h, d)
    BY DEF IsAll
  <2> QED
    BY <1>1, <1>3, <2>1, CoreIs DEF FlatInv
<1>10. WaitingInv(g)
  BY CoreIs DEF WaitingInv
<1>11. g.unhandled = h.unhandled \cup ((h.rejections + 1)..g.rejections)
  <2>1. h.rejections \in Nat
    BY CoreIs
  <2>2. (h.rejections + 1)..g.rejections = {}
    BY <2>1
  <2> QED
    BY <2>2
<1>12. CoreInv(g) /\ \A d : IsLost(g, d) => IsLost(h, d)
  BY <1>1, <1>4, <1>5, <1>6, <1>8, <1>9, <1>10, <1>11, Adds
<1>13. \A d \in DOMAIN h.deferred : Len(Waiting(h, d)) <= Len(Waiting(h, d))
  BY SeqIs, CoreIs DEF ShapeInv
<1> QED
  BY <1>2, <1>4, <1>12, <1>13 DEF Goes, Grows, Widens

\* The rest of memory is as it was.
SameRest(h, g) ==
  /\ DOMAIN g = MemoryFields
  /\ g.timers = h.timers /\ g.rejections = h.rejections /\ g.unhandled = h.unhandled
  /\ g.outside = h.outside /\ g.held = h.held /\ g.late = h.late

\* What the calls of then have of a deferred, and what it has become.
SameCall(h, g, d) ==
  /\ DOMAIN g.deferred[d] = DeferredFields
  /\ Self(g, d) = Self(h, d) /\ Gathered(g, d) = Gathered(h, d)
  /\ OnFulfilled(g, d) = OnFulfilled(h, d) /\ OnRejected(g, d) = OnRejected(h, d)
  /\ OnProgress(g, d) = OnProgress(h, d)
  /\ IsDone(g, d) = IsDone(h, d) /\ AnswerOf(g, d) = AnswerOf(h, d)

\* A new deferred: that of a call of then waits.
IsOpened(h, g, n) ==
  /\ SameRest(h, g) /\ g.queue = h.queue /\ g.flush = h.flush
  /\ n = Len(h.deferred) + 1 /\ IsSeq(g.deferred) /\ Len(g.deferred) = n
  /\ \A d \in DOMAIN h.deferred :
       /\ SameCall(h, g, d) /\ Target(g, d) = Target(h, d)
       /\ Messages(g, d) = Messages(h, d) /\ Listeners(g, d) = Listeners(h, d)
       /\ Self(g, n) = Deferred(d) => Waiting(g, d) = Append(Waiting(h, d), n)
       /\ Self(g, n) # Deferred(d) => Waiting(g, d) = Waiting(h, d)
  /\ DOMAIN g.deferred[n] = DeferredFields /\ Target(g, n) = None
  /\ Messages(g, n) = <<>> /\ Listeners(g, n) = <<>> /\ Waiting(g, n) = <<>>
  /\ IsDone(g, n) = FALSE /\ AnswerOf(g, n) = Pending
  /\ Self(g, n) = None \/ KnowsPromise(h, Self(g, n))
  /\ Gathered(g, n) = None \/ (KnowsValue(h, Gathered(g, n)) /\ Self(g, n) = None)
  /\ OnFulfilled(g, n) = None \/ IsCallback(h, OnFulfilled(g, n))
  /\ OnRejected(g, n) = None
       \/ (IsCallback(h, OnRejected(g, n)) /\ OnRejected(g, n)[1] # "spread")
  /\ OnProgress(g, n) = None \/ IsListener(h, OnProgress(g, n))
  /\ OnFulfilled(g, n) = <<"spread", <<"same">>>> =>
       \E e \in DOMAIN h.deferred : Self(g, n) = Deferred(e) /\ IsAll(h, e)

LEMMA Opens ==
  ASSUME NEW h, CoreInv(h), NEW g, NEW n, IsOpened(h, g, n)
  PROVE  /\ CoreInv(g) /\ Widens(h, g)
         /\ \A d : IsLost(g, d) => IsLost(h, d) \/ (d = n /\ Self(g, n) # None)
<1> USE DEF IsOpened
<1>1. /\ Len(h.deferred) \in Nat /\ DOMAIN h.deferred = 1..Len(h.deferred)
      /\ DOMAIN g.deferred = 1..n
  BY SeqIs, CoreIs
<1>2. /\ n \in DOMAIN g.deferred /\ n \notin DOMAIN h.deferred
      /\ \A d : d \in DOMAIN g.deferred <=> d \in DOMAIN h.deferred \/ d = n
  BY <1>1
<1>3. \A d \in DOMAIN h.deferred : IsResolved(g, d) <=> IsResolved(h, d)
  BY DEF IsResolved, Target
<1>4. ~IsResolved(g, n)
  BY DEF IsResolved, Target
<1>5. \A d \in DOMAIN h.deferred : IsFlat(g, d) <=> IsFlat(h, d)
  BY DEF IsFlat, SameCall
<1>6. \A d \in DOMAIN h.deferred : IsAll(g, d) <=> IsAll(h, d)
  BY DEF IsAll, SameCall
<1>7. More(h, g)
  BY <1>1, <1>5, CoreIs DEF More, SameCall, SameRest
<1>8. /\ \A x : Knows(h, x) => Knows(g, x)
      /\ \A cb : IsCallback(h, cb) => IsCallback(g, cb)
      /\ \A cb : IsListener(h, cb) => IsListener(g, cb)
      /\ Own(h) \subseteq Own(g) /\ Plain(h) \subseteq Plain(g)
  BY <1>7, MoreKnows, MoreCallback
<1>9. n \in Own(g)
  <2>1. Sources \in Nat /\ Sources <= Len(h.deferred)
    BY SourcesAssumption, CoreIs
  <2> QED
    BY <1>1, <2>1 DEF Own
<1>10. \A x : KnowsPromise(h, x) /\ x[1] = "deferred" =>
         x = Deferred(x[2]) /\ x[2] \in DOMAIN h.deferred
  BY <1>1, KnownIs DEF KnowsPromise, Knows
<1>11. ShapeInv(g)
  <2>1. \A d \in DOMAIN h.deferred :
          IsSeq(Messages(h, d)) /\ IsSeq(Listeners(h, d)) /\ IsSeq(Waiting(h, d))
            /\ IsDone(h, d) \in BOOLEAN
    BY CoreIs DEF ShapeInv
  <2>2. ASSUME NEW d \in DOMAIN h.deferred PROVE IsSeq(Waiting(g, d))
    <3>1. IsSeq(Append(Waiting(h, d), n))
      BY <2>1, AppendIs
    <3>2. Waiting(g, d) = Waiting(h, d) \/ Waiting(g, d) = Append(Waiting(h, d), n)
      OBVIOUS
    <3> QED
      BY <2>1, <3>1, <3>2
  <2>3. IsSeq(<<>>)
    BY DEF IsSeq
  <2>4. \A d \in DOMAIN g.deferred :
         /\ DOMAIN g.deferred[d] = DeferredFields
         /\ IsSeq(Messages(g, d)) /\ IsSeq(Listeners(g, d)) /\ IsSeq(Waiting(g, d))
         /\ IsDone(g, d) \in BOOLEAN
    BY <1>2, <2>1, <2>2, <2>3 DEF SameCall
  <2> QED
    BY <2>4, CoreIs DEF ShapeInv, SameRest
<1>12. TargetsInv(g)
  <2>1. TargetsInv(h)
    BY CoreIs
  <2>2. Len(g.deferred) >= Sources
    BY <1>1, <2>1, SourcesAssumption, CoreIs
  <2>3. None[1] # "deferred"
    BY DEF None
  <2> QED
    BY <1>2, <2>1, <2>2, <2>3 DEF TargetsInv
<1>13. KnownInv(g)
  <2>1. KnownInv(h)
    BY CoreIs
  <2>2. ASSUME NEW d \in DOMAIN g.deferred
        PROVE  /\ Target(g, d) = None \/ KnowsPromise(g, Target(g, d))
               /\ Gathered(g, d) # None =>
                    KnowsValue(g, Gathered(g, d)) /\ d \in Own(g) /\ Self(g, d) = None
               /\ Self(g, d) # None => d \in Own(g) /\ KnowsPromise(g, Self(g, d))
    <3>1. CASE d = n
      BY <1>8, <1>9, <3>1 DEF KnowsPromise, KnowsValue
    <3>2. CASE d \in DOMAIN h.deferred
      BY <1>8, <2>1, <3>2 DEF KnownInv, KnowsPromise, KnowsValue, SameCall
    <3> QED
      BY <1>2, <3>1, <3>2
  <2>3. ASSUME NEW d \in DOMAIN g.deferred
        PROVE  /\ OnFulfilled(g, d) = None \/ IsCallback(g, OnFulfilled(g, d))
               /\ OnRejected(g, d) = None
                    \/ (IsCallback(g, OnRejected(g, d)) /\ OnRejected(g, d)[1] # "spread")
               /\ OnProgress(g, d) = None \/ IsListener(g, OnProgress(g, d))
    <3>1. CASE d = n
      BY <1>8, <3>1
    <3>2. CASE d \in DOMAIN h.deferred
      BY <1>8, <2>1, <3>2 DEF KnownInv, SameCall
    <3> QED
      BY <1>2, <3>1, <3>2
  <2>4. \A timer \in g.timers :
          /\ timer[2] \in Plain(g) /\ timer[1] \in {"timeout", "delay"}
          /\ timer[1] = "delay" => KnowsValue(g, timer[3])
    BY <1>8, <2>1 DEF KnownInv, KnowsValue, SameRest
  <2>5. \A i \in DOMAIN g.held : Knows(g, g.held[i])
    BY <1>8, <2>1 DEF KnownInv, SameRest
  <2>6. g.outside \subseteq 1..Sources \cup Plain(g) /\ g.unhandled \subseteq 1..g.rejections
    BY <1>8, <2>1 DEF KnownInv, SameRest
  <2> QED
    BY <2>2, <2>3, <2>4, <2>5, <2>6 DEF KnownInv
<1>14. FlatInv(g)
  <2> SUFFICES ASSUME NEW d \in DOMAIN g.deferred
               PROVE  /\ IsAll(g, d) /\ IsResolved(g, d) =>
                           \/ Target(g, d)[1] = "rejected"
                           \/ \E e \in DOMAIN g.deferred : Target(g, d) = Deferred(e) /\ IsFlat(g, e)
                      /\ OnFulfilled(g, d) = <<"spread", <<"same">>>> =>
                           \E e \in DOMAIN g.deferred : Self(g, d) = Deferred(e) /\ IsAll(g, e)
    BY DEF FlatInv
  <2>1. CASE d = n
    BY <1>2, <1>4, <1>6, <2>1
  <2>2. CASE d \in DOMAIN h.deferred
    <3>1. FlatInv(h)
      BY CoreIs
    <3>2. IsAll(g, d) /\ IsResolved(g, d) =>
            \/ Target(g, d)[1] = "rejected"
            \/ \E e \in DOMAIN g.deferred : Target(g, d) = Deferred(e) /\ IsFlat(g, e)
      BY <1>2, <1>3, <1>5, <1>6, <2>2, <3>1 DEF FlatInv
    <3>3. OnFulfilled(g, d) = <<"spread", <<"same">>>> =>
            \E e \in DOMAIN g.deferred : Self(g, d) = Deferred(e) /\ IsAll(g, e)
      BY <1>2, <1>6, <2>2, <3>1 DEF FlatInv, SameCall
    <3> QED
      BY <3>2, <3>3
  <2> QED
    BY <1>2, <2>1, <2>2
<1>15. \A d \in DOMAIN h.deferred : Self(h, d) # Deferred(n)
  <2>1. \A d \in DOMAIN h.deferred : Self(h, d) # None => KnowsPromise(h, Self(h, d))
    BY CoreIs DEF KnownInv
  <2>2. Deferred(n)[1] = "deferred" /\ Deferred(n)[2] = n /\ Deferred(n) # None
    BY DEF Deferred, None
  <2> QED
    BY <1>2, <1>10, <2>1, <2>2
<1>16. Self(g, n) # Deferred(n)
  <2>1. Deferred(n)[1] = "deferred" /\ Deferred(n)[2] = n /\ Deferred(n) # None
    BY DEF Deferred, None
  <2> QED
    BY <1>2, <1>10, <2>1
<1>17. WaitingInv(g)
  <2>1. WaitingInv(h)
    BY CoreIs
  <2>2. \A d \in DOMAIN g.deferred : ~IsDone(g, d) => AnswerOf(g, d) = Pending
    BY <1>2, <2>1 DEF WaitingInv, SameCall
  <2>3. ASSUME NEW p \in DOMAIN g.deferred
        PROVE  /\ \A i \in DOMAIN Waiting(g, p) :
                    /\ Waiting(g, p)[i] \in DOMAIN g.deferred
                    /\ Self(g, Waiting(g, p)[i]) = Deferred(p) /\ ~IsDone(g, Waiting(g, p)[i])
                    /\ \A j \in DOMAIN Waiting(g, p) : i < j => Waiting(g, p)[i] < Waiting(g, p)[j]
               /\ \A d \in DOMAIN g.deferred : Self(g, d) = Deferred(p) /\ ~IsDone(g, d) =>
                    \E i \in DOMAIN Waiting(g, p) : Waiting(g, p)[i] = d
    <3>1. CASE p = n
      BY <1>2, <1>15, <1>16, <3>1 DEF SameCall
    <3>2. CASE p \in DOMAIN h.deferred
      <4> DEFINE w == Waiting(h, p)
                 v == Waiting(g, p)
      <4>1. IsSeq(w) /\ Len(w) \in Nat /\ DOMAIN w = 1..Len(w)
        BY <3>2, SeqIs, CoreIs DEF ShapeInv
      <4>2. /\ \A i \in DOMAIN w :
                 /\ w[i] \in DOMAIN h.deferred /\ Self(h, w[i]) = Deferred(p) /\ ~IsDone(h, w[i])
                 /\ \A j \in DOMAIN w : i < j => w[i] < w[j]
            /\ \A d \in DOMAIN h.deferred : Self(h, d) = Deferred(p) /\ ~IsDone(h, d) =>
                 \E i \in DOMAIN w : w[i] = d
        BY <2>1, <3>2 DEF WaitingInv
      <4>3. CASE Self(g, n) # Deferred(p)
        <5>1. v = w
          BY <3>2, <4>3
        <5> HIDE DEF v, w
        <5>2. /\ \A i \in DOMAIN v :
                   /\ v[i] \in DOMAIN g.deferred /\ Self(g, v[i]) = Deferred(p) /\ ~IsDone(g, v[i])
                   /\ \A j \in DOMAIN v : i < j => v[i] < v[j]
              /\ \A d \in DOMAIN g.deferred : Self(g, d) = Deferred(p) /\ ~IsDone(g, d) =>
                   \E i \in DOMAIN v : v[i] = d
          BY <1>2, <4>2, <4>3, <5>1 DEF SameCall
        <5> QED
          BY <5>2 DEF v
      <4>4. CASE Self(g, n) = Deferred(p)
        <5>1. v = Append(w, n)
          BY <3>2, <4>4
        <5> HIDE DEF v, w
        <5>2. /\ DOMAIN v = 1..(Len(w) + 1) /\ v[Len(w) + 1] = n
              /\ \A i \in DOMAIN w : v[i] = w[i]
          BY <4>1, <5>1, AppendIs
        <5>3. /\ Len(w) + 1 \in DOMAIN v
              /\ \A i : i \in DOMAIN v <=> i \in DOMAIN w \/ i = Len(w) + 1
          BY <4>1, <5>2
        <5>4. \A i \in DOMAIN v :
                v[i] \in DOMAIN g.deferred /\ Self(g, v[i]) = Deferred(p) /\ ~IsDone(g, v[i])
          BY <1>2, <4>2, <4>4, <5>2, <5>3 DEF SameCall
        <5>5. ASSUME NEW i \in DOMAIN v, NEW j \in DOMAIN v, i < j PROVE v[i] < v[j]
          <6>1. i \in DOMAIN w /\ v[i] = w[i] /\ w[i] \in 1..Len(h.deferred)
            <7>1. i \in DOMAIN w
              BY <4>1, <5>2, <5>5
            <7> QED
              BY <1>1, <4>2, <5>2, <7>1
          <6>2. CASE j \in DOMAIN w
            BY <4>2, <5>2, <5>5, <6>1, <6>2
          <6>3. CASE j = Len(w) + 1
            BY <1>1, <5>2, <6>1, <6>3
          <6> QED
            BY <5>3, <6>2, <6>3
        <5>6. ASSUME NEW d \in DOMAIN g.deferred, Self(g, d) = Deferred(p), ~IsDone(g, d)
              PROVE  \E i \in DOMAIN v : v[i] = d
          <6>1. CASE d = n
            BY <5>2, <5>3, <6>1
          <6>2. CASE d \in DOMAIN h.deferred
            BY <4>2, <5>2, <5>3, <5>6, <6>2 DEF SameCall
          <6> QED
            BY <1>2, <6>1, <6>2
        <5> QED
          BY <5>4, <5>5, <5>6 DEF v
      <4> QED
        BY <4>3, <4>4
    <3> QED
      BY <1>2, <3>1, <3>2
  <2> QED
    BY <2>2, <2>3 DEF WaitingInv
<1>18. g.unhandled = h.unhandled \cup ((h.rejections + 1)..g.rejections)
  <2>1. h.rejections \in Nat
    BY CoreIs
  <2>2. (h.rejections + 1)..g.rejections = {}
    BY <2>1 DEF SameRest
  <2> QED
    BY <2>2 DEF SameRest
<1>19. /\ CoreInv(g)
       /\ \A d : IsLost(g, d) =>
            IsLost(h, d) \/ (d \in DOMAIN g.deferred /\ d \notin DOMAIN h.deferred /\ Self(g, d) # None)
  BY <1>2, <1>7, <1>11, <1>12, <1>13, <1>14, <1>17, <1>18, Adds
<1>20. ASSUME NEW d \in DOMAIN h.deferred
       PROVE  /\ Len(Waiting(h, d)) <= Len(Waiting(g, d))
              /\ \A i \in DOMAIN Waiting(h, d) : Waiting(g, d)[i] = Waiting(h, d)[i]
  <2> DEFINE w == Waiting(h, d)
             v == Waiting(g, d)
  <2>1. IsSeq(w) /\ Len(w) \in Nat
    BY SeqIs, CoreIs DEF ShapeInv
  <2>2. v = w \/ v = Append(w, n)
    OBVIOUS
  <2> HIDE DEF v, w
  <2>3. Len(w) <= Len(v) /\ \A i \in DOMAIN w : v[i] = w[i]
    BY <2>1, <2>2, AppendIs
  <2> QED
    BY <2>3 DEF v, w
<1>21. Widens(h, g)
  BY <1>2, <1>7, <1>20 DEF Widens, SameCall, SameRest
<1> QED
  BY <1>2, <1>19, <1>21

LEMMA SameDeferreds ==
  ASSUME NEW h, NEW g, g.deferred = h.deferred, g.rejections = h.rejections
  PROVE  /\ \A d : /\ Target(g, d) = Target(h, d) /\ Self(g, d) = Self(h, d)
                   /\ IsDone(g, d) = IsDone(h, d) /\ AnswerOf(g, d) = AnswerOf(h, d)
                   /\ OnFulfilled(g, d) = OnFulfilled(h, d)
                   /\ OnRejected(g, d) = OnRejected(h, d) /\ OnProgress(g, d) = OnProgress(h, d)
                   /\ Gathered(g, d) = Gathered(h, d) /\ Waiting(g, d) = Waiting(h, d)
                   /\ Messages(g, d) = Messages(h, d) /\ Listeners(g, d) = Listeners(h, d)
                   /\ (IsResolved(g, d) <=> IsResolved(h, d))
         /\ Own(g) = Own(h) /\ Plain(g) = Plain(h)
         /\ \A x : Knows(g, x) <=> Knows(h, x)
         /\ \A x, y : Along(g, x, y) <=> Along(h, x, y)
         /\ \A a, b : Leads(g, a, b) <=> Leads(h, a, b)
         /\ \A x, msg : IsMessageAt(g, x, msg) <=> IsMessageAt(h, x, msg)
         /\ \A task : IsTask(g, task) <=> IsTask(h, task)
<1>1. \A d : /\ Target(g, d) = Target(h, d) /\ Self(g, d) = Self(h, d)
             /\ IsDone(g, d) = IsDone(h, d) /\ AnswerOf(g, d) = AnswerOf(h, d)
             /\ OnFulfilled(g, d) = OnFulfilled(h, d)
             /\ OnRejected(g, d) = OnRejected(h, d) /\ OnProgress(g, d) = OnProgress(h, d)
             /\ Gathered(g, d) = Gathered(h, d) /\ Waiting(g, d) = Waiting(h, d)
             /\ Messages(g, d) = Messages(h, d) /\ Listeners(g, d) = Listeners(h, d)
             /\ (IsResolved(g, d) <=> IsResolved(h, d))
  BY DEF Target, Self, IsDone, AnswerOf, OnFulfilled, OnRejected, OnProgress, Gathered, Messages,
         Listeners, Waiting, IsResolved
<1>2. Own(g) = Own(h) /\ Plain(g) = Plain(h)
  BY <1>1 DEF Own, Plain
<1>3. \A x : Knows(g, x) <=> Knows(h, x)
  BY <1>2 DEF Knows
<1>4. \A S : Closed(g, S) <=> Closed(h, S)
  BY <1>1 DEF Closed
<1>5. \A x, y : Along(g, x, y) <=> Along(h, x, y)
  BY <1>4 DEF Along
<1>6. \A a, b : Leads(g, a, b) <=> Leads(h, a, b)
  BY <1>1 DEF Leads
<1>7. \A msg : IsAsk(g, msg) <=> IsAsk(h, msg)
  BY <1>2, <1>3 DEF IsAsk
<1>8. \A x, msg : IsThenAt(g, x, msg) <=> IsThenAt(h, x, msg)
  BY <1>1, <1>5 DEF IsThenAt
<1>9. \A x, msg : IsMessageAt(g, x, msg) <=> IsMessageAt(h, x, msg)
  BY <1>3, <1>7, <1>8 DEF IsMessageAt, KnowsPromise
<1>10. \A task : IsTask(g, task) <=> IsTask(h, task)
  BY <1>1, <1>2, <1>3, <1>9 DEF IsTask
<1> QED
  BY <1>1, <1>2, <1>3, <1>5, <1>6, <1>9, <1>10

\* A step that only changes the queue.
LEMMA Queues ==
  ASSUME NEW h, CoreInv(h), NEW g, SameRest(h, g), g.deferred = h.deferred, IsSeq(g.queue),
         QueueInv(g), OrderInv(g), ListenInv(g)
  PROVE  CoreInv(g) /\ Widens(h, g)
<1>1. /\ \A d : /\ Target(g, d) = Target(h, d) /\ Self(g, d) = Self(h, d)
                /\ IsDone(g, d) = IsDone(h, d) /\ AnswerOf(g, d) = AnswerOf(h, d)
                /\ OnFulfilled(g, d) = OnFulfilled(h, d)
                /\ OnRejected(g, d) = OnRejected(h, d) /\ OnProgress(g, d) = OnProgress(h, d)
                /\ Gathered(g, d) = Gathered(h, d) /\ Waiting(g, d) = Waiting(h, d)
                /\ Messages(g, d) = Messages(h, d) /\ Listeners(g, d) = Listeners(h, d)
                /\ (IsResolved(g, d) <=> IsResolved(h, d))
      /\ Own(g) = Own(h) /\ Plain(g) = Plain(h)
      /\ \A x : Knows(g, x) <=> Knows(h, x)
      /\ \A x, y : Along(g, x, y) <=> Along(h, x, y)
      /\ \A x, msg : IsMessageAt(g, x, msg) <=> IsMessageAt(h, x, msg)
  BY SameDeferreds DEF SameRest
<1>2. \A d : IsFlat(g, d) <=> IsFlat(h, d)
  BY <1>1 DEF IsFlat
<1>3. More(h, g)
  BY <1>1, <1>2, CoreIs DEF More, SameRest
<1>4. ShapeInv(g)
  BY <1>1, CoreIs DEF ShapeInv, SameRest
<1>5. TargetsInv(g)
  BY <1>1, CoreIs DEF TargetsInv
<1>6. KnownInv(g)
  <2>1. KnownInv(h)
    BY CoreIs
  <2>2. \A d \in DOMAIN g.deferred :
          /\ Target(g, d) = None \/ KnowsPromise(g, Target(g, d))
          /\ Gathered(g, d) # None =>
               KnowsValue(g, Gathered(g, d)) /\ d \in Own(g) /\ Self(g, d) = None
          /\ Self(g, d) # None => d \in Own(g) /\ KnowsPromise(g, Self(g, d))
    BY <1>1, <2>1 DEF KnownInv, KnowsPromise, KnowsValue
  <2>3. \A d \in DOMAIN g.deferred :
          /\ OnFulfilled(g, d) = None \/ IsCallback(g, OnFulfilled(g, d))
          /\ OnRejected(g, d) = None
               \/ (IsCallback(g, OnRejected(g, d)) /\ OnRejected(g, d)[1] # "spread")
          /\ OnProgress(g, d) = None \/ IsListener(g, OnProgress(g, d))
    BY <1>1, <1>3, <2>1, MoreCallback DEF KnownInv
  <2>4. \A timer \in g.timers :
          /\ timer[2] \in Plain(g) /\ timer[1] \in {"timeout", "delay"}
          /\ timer[1] = "delay" => KnowsValue(g, timer[3])
    BY <1>1, <2>1 DEF KnownInv, KnowsValue, SameRest
  <2>5. \A i \in DOMAIN g.held : Knows(g, g.held[i])
    BY <1>1, <2>1 DEF KnownInv, SameRest
  <2>6. g.outside \subseteq 1..Sources \cup Plain(g) /\ g.unhandled \subseteq 1..g.rejections
    BY <1>1, <2>1 DEF KnownInv, SameRest
  <2> QED
    BY <2>2, <2>3, <2>4, <2>5, <2>6 DEF KnownInv
<1>7. FlatInv(g)
  <2>1. \A d : IsAll(g, d) <=> IsAll(h, d)
    BY <1>1 DEF IsAll
  <2> QED
    BY <1>1, <1>2, <2>1, CoreIs DEF FlatInv
<1>8. KeptInv(g)
  BY <1>1, CoreIs DEF KeptInv
<1>9. WaitingInv(g)
  BY <1>1, CoreIs DEF WaitingInv
<1>10. DoneInv(g)
  <2>1. \A d, k : SeesRejection(g, d, k) <=> SeesRejection(h, d, k)
    BY <1>1 DEF SeesRejection
  <2> QED
    BY <1>1, <2>1, CoreIs DEF DoneInv, SameRest
<1>11. \A d \in DOMAIN h.deferred : Len(Waiting(h, d)) <= Len(Waiting(h, d))
  BY SeqIs, CoreIs DEF ShapeInv
<1> QED
  BY <1>1, <1>3, <1>4, <1>5, <1>6, <1>7, <1>8, <1>9, <1>10, <1>11 DEF CoreInv, Widens, SameRest

\* The order allows a message to x at the end of the queue.
MayPost(h, x, msg) ==
  /\ \A j : IsQueued(h, j) =>
       /\ Leads(h, Sent(h, j), msg) => Along(h, x, To(h, j))
       /\ Leads(h, msg, Sent(h, j)) => Along(h, To(h, j), x) /\ To(h, j) # x
  /\ \A d \in DOMAIN h.deferred : \A i \in DOMAIN Messages(h, d) :
       /\ Leads(h, Messages(h, d)[i], msg) => Along(h, x, Deferred(d))
       /\ ~Leads(h, msg, Messages(h, d)[i])
  /\ \A p \in DOMAIN h.deferred : \A i \in DOMAIN Listeners(h, p) :
       msg = ToAnswer(Listeners(h, p)[i]) => Along(h, x, Deferred(p))

\* It allows a progress task.
MayTell(h, d) == \A j : IsQueued(h, j) /\ Sent(h, j) = ToAnswer(d) => ~Final(To(h, j))

\* It allows tasks together: one message, or others.
ArePosts(h, tasks) ==
  \A i \in DOMAIN tasks :
    /\ IsTask(h, tasks[i])
    /\ tasks[i].do = "dispatch" => /\ MayPost(h, tasks[i].to, tasks[i].msg)
                                   /\ \A j \in DOMAIN tasks : i = j
    /\ tasks[i].do = "progress" => MayTell(h, tasks[i].of)

LEMMA LeadsNotSelf ==
  ASSUME NEW h, CoreInv(h), NEW a
  PROVE  ~Leads(h, a, a)
<1>1. \A d \in DOMAIN h.deferred : ~(d < d)
  BY CoreIs
<1> QED
  BY <1>1, MessagesDiffer DEF Leads

\* Tasks at the end of the queue: one message, or others.
LEMMA Posts ==
  ASSUME NEW h, CoreInv(h), NEW tasks, IsSeq(tasks), ArePosts(h, tasks),
         NEW g, SameRest(h, g), g.deferred = h.deferred, g.queue = h.queue \o tasks,
         g.flush = "idle" => g.queue = <<>>
  PROVE  /\ Goes(h, g)
         /\ \A i \in DOMAIN tasks : tasks[i].do = "dispatch" =>
              IsQueued(g, Len(h.queue) + i) /\ Sent(g, Len(h.queue) + i) = tasks[i].msg
                /\ To(g, Len(h.queue) + i) = tasks[i].to
<1> DEFINE n == Len(h.queue)
<1>0. \A i \in DOMAIN tasks :
        /\ IsTask(h, tasks[i])
        /\ tasks[i].do = "dispatch" => /\ MayPost(h, tasks[i].to, tasks[i].msg)
                                       /\ \A j \in DOMAIN tasks : i = j
        /\ tasks[i].do = "progress" => MayTell(h, tasks[i].of)
  BY DEF ArePosts
<1> USE <1>0
<1>1. n \in Nat /\ DOMAIN h.queue = 1..n /\ IsSeq(h.queue)
  BY CoreIs DEF ShapeInv
<1>2. Len(tasks) \in Nat /\ DOMAIN tasks = 1..Len(tasks)
  BY SeqIs
<1>3. /\ IsSeq(g.queue) /\ DOMAIN g.queue = 1..(n + Len(tasks))
      /\ \A i \in DOMAIN h.queue : g.queue[i] = h.queue[i]
      /\ \A i \in DOMAIN tasks : g.queue[n + i] = tasks[i]
  BY <1>1, <1>2, ConcatIs
<1> HIDE DEF n
<1>4. \A i \in DOMAIN g.queue :
        \/ i \in DOMAIN h.queue
        \/ i - n \in DOMAIN tasks /\ i = n + (i - n)
  BY <1>1, <1>2, <1>3
<1>5. /\ \A i \in DOMAIN h.queue : i \in DOMAIN g.queue
      /\ \A i \in DOMAIN tasks : n + i \in DOMAIN g.queue
      /\ \A i \in DOMAIN h.queue : \A j \in DOMAIN tasks : i < n + j
  BY <1>1, <1>2, <1>3
<1>6. /\ \A i \in DOMAIN h.queue :
           /\ IsQueued(g, i) <=> IsQueued(h, i)
           /\ To(g, i) = To(h, i) /\ Sent(g, i) = Sent(h, i)
      /\ \A i \in DOMAIN tasks :
           /\ IsQueued(g, n + i) <=> tasks[i].do = "dispatch"
           /\ To(g, n + i) = tasks[i].to /\ Sent(g, n + i) = tasks[i].msg
  BY <1>3, <1>5 DEF IsQueued, To, Sent
<1>7. /\ \A d : /\ Self(g, d) = Self(h, d) /\ IsDone(g, d) = IsDone(h, d)
                /\ Messages(g, d) = Messages(h, d) /\ Listeners(g, d) = Listeners(h, d)
      /\ \A x, y : Along(g, x, y) <=> Along(h, x, y)
      /\ \A a, b : Leads(g, a, b) <=> Leads(h, a, b)
      /\ \A task : IsTask(g, task) <=> IsTask(h, task)
  BY SameDeferreds DEF SameRest
<1>8. QueueInv(g)
  <2>1. ASSUME NEW i \in DOMAIN g.queue PROVE IsTask(g, g.queue[i])
    <3>1. CASE i \in DOMAIN h.queue
      BY <1>3, <1>7, <3>1, CoreIs DEF QueueInv
    <3>2. CASE i - n \in DOMAIN tasks /\ i = n + (i - n)
      BY <1>3, <1>7, <3>2
    <3> QED
      BY <1>4, <3>1, <3>2
  <2> QED
    BY <2>1 DEF QueueInv
<1>9. OrderInv(g)
  <2>1. OrderInv(h)
    BY CoreIs
  <2>2. ASSUME NEW i \in DOMAIN g.queue, NEW j \in DOMAIN g.queue,
               IsQueued(g, i), IsQueued(g, j), Leads(g, Sent(g, i), Sent(g, j))
        PROVE  Along(g, To(g, j), To(g, i)) /\ (To(g, i) = To(g, j) => i < j)
    <3>1. CASE i \in DOMAIN h.queue /\ j \in DOMAIN h.queue
      BY <1>6, <1>7, <2>1, <2>2, <3>1 DEF OrderInv
    <3>2. CASE i \in DOMAIN h.queue /\ j - n \in DOMAIN tasks /\ j = n + (j - n)
      <4>1. tasks[j - n].do = "dispatch" /\ Sent(g, j) = tasks[j - n].msg /\ To(g, j) = tasks[j - n].to
        BY <1>6, <2>2, <3>2
      <4>2. IsQueued(h, i) /\ Leads(h, Sent(h, i), tasks[j - n].msg)
        BY <1>6, <1>7, <2>2, <3>2, <4>1
      <4>3. Along(h, tasks[j - n].to, To(h, i))
        BY <3>2, <4>1, <4>2 DEF MayPost
      <4> QED
        BY <1>5, <1>6, <1>7, <3>2, <4>1, <4>3
    <3>3. CASE j \in DOMAIN h.queue /\ i - n \in DOMAIN tasks /\ i = n + (i - n)
      <4>1. tasks[i - n].do = "dispatch" /\ Sent(g, i) = tasks[i - n].msg /\ To(g, i) = tasks[i - n].to
        BY <1>6, <2>2, <3>3
      <4>2. IsQueued(h, j) /\ Leads(h, tasks[i - n].msg, Sent(h, j))
        BY <1>6, <1>7, <2>2, <3>3, <4>1
      <4>3. Along(h, To(h, j), tasks[i - n].to) /\ To(h, j) # tasks[i - n].to
        BY <3>3, <4>1, <4>2 DEF MayPost
      <4> QED
        BY <1>6, <1>7, <3>3, <4>1, <4>3
    <3>4. CASE i - n \in DOMAIN tasks /\ i = n + (i - n) /\ j - n \in DOMAIN tasks /\ j = n + (j - n)
      <4>1. tasks[i - n].do = "dispatch"
        BY <1>6, <2>2, <3>4
      <4>2. i - n = j - n
        BY <3>4, <4>1
      <4>3. i = j
        BY <3>4, <4>2
      <4> QED
        BY <1>7, <2>2, <4>3, LeadsNotSelf
    <3> QED
      BY <1>4, <3>1, <3>2, <3>3, <3>4
  <2>3. ASSUME NEW d \in DOMAIN g.deferred, NEW i \in DOMAIN Messages(g, d),
               NEW j \in DOMAIN g.queue, IsQueued(g, j)
        PROVE  /\ Leads(g, Messages(g, d)[i], Sent(g, j)) => Along(g, To(g, j), Deferred(d))
               /\ ~Leads(g, Sent(g, j), Messages(g, d)[i])
    <3>1. CASE j \in DOMAIN h.queue
      BY <1>6, <1>7, <2>1, <2>3, <3>1 DEF OrderInv
    <3>2. CASE j - n \in DOMAIN tasks /\ j = n + (j - n)
      <4>1. tasks[j - n].do = "dispatch" /\ Sent(g, j) = tasks[j - n].msg /\ To(g, j) = tasks[j - n].to
        BY <1>6, <2>3, <3>2
      <4>2. d \in DOMAIN h.deferred /\ i \in DOMAIN Messages(h, d)
        BY <1>7
      <4>3. /\ Leads(h, Messages(h, d)[i], tasks[j - n].msg) => Along(h, tasks[j - n].to, Deferred(d))
            /\ ~Leads(h, tasks[j - n].msg, Messages(h, d)[i])
        BY <3>2, <4>1, <4>2 DEF MayPost
      <4> QED
        BY <1>7, <4>1, <4>3
    <3> QED
      BY <1>4, <3>1, <3>2
  <2>4. \A d \in DOMAIN g.deferred : \A i \in DOMAIN Messages(g, d) :
        \A e \in DOMAIN g.deferred : \A j \in DOMAIN Messages(g, e) :
          Leads(g, Messages(g, d)[i], Messages(g, e)[j]) => d = e /\ i < j
    BY <1>7, <2>1 DEF OrderInv
  <2> QED
    BY <2>2, <2>3, <2>4 DEF OrderInv
<1>10. ListenInv(g)
  <2>1. ListenInv(h)
    BY CoreIs
  <2>2. ASSUME NEW p \in DOMAIN g.deferred, NEW i \in DOMAIN Listeners(g, p), NEW d,
               d = Listeners(g, p)[i]
        PROVE  /\ d \in DOMAIN g.deferred /\ Self(g, d) # None /\ ~IsDone(g, d)
               /\ \A j \in DOMAIN g.queue : IsQueued(g, j) /\ Sent(g, j) = ToAnswer(d) =>
                    Along(g, To(g, j), Deferred(p))
               /\ \A e \in DOMAIN g.deferred : \A j \in DOMAIN Messages(g, e) :
                    Messages(g, e)[j] = ToAnswer(d) => e = p
    <3>1. p \in DOMAIN h.deferred /\ i \in DOMAIN Listeners(h, p) /\ d = Listeners(h, p)[i]
      BY <1>7, <2>2
    <3>2. /\ d \in DOMAIN h.deferred /\ Self(h, d) # None /\ ~IsDone(h, d)
          /\ \A j \in DOMAIN h.queue : IsQueued(h, j) /\ Sent(h, j) = ToAnswer(d) =>
               Along(h, To(h, j), Deferred(p))
          /\ \A e \in DOMAIN h.deferred : \A j \in DOMAIN Messages(h, e) :
               Messages(h, e)[j] = ToAnswer(d) => e = p
      BY <2>1, <3>1 DEF ListenInv
    <3>3. ASSUME NEW j \in DOMAIN g.queue, IsQueued(g, j), Sent(g, j) = ToAnswer(d)
          PROVE  Along(g, To(g, j), Deferred(p))
      <4>1. CASE j \in DOMAIN h.queue
        BY <1>6, <1>7, <3>2, <3>3, <4>1
      <4>2. CASE j - n \in DOMAIN tasks /\ j = n + (j - n)
        <5>1. /\ tasks[j - n].do = "dispatch" /\ tasks[j - n].msg = ToAnswer(d)
              /\ To(g, j) = tasks[j - n].to
          BY <1>6, <3>3, <4>2
        <5>2. Along(h, tasks[j - n].to, Deferred(p))
          BY <3>1, <4>2, <5>1 DEF MayPost
        <5> QED
          BY <1>7, <5>1, <5>2
      <4> QED
        BY <1>4, <4>1, <4>2
    <3> QED
      BY <1>7, <3>2, <3>3
  <2>3. ASSUME NEW i \in DOMAIN g.queue, NEW j \in DOMAIN g.queue,
               g.queue[i].do = "progress", IsQueued(g, j),
               Sent(g, j) = ToAnswer(g.queue[i].of), Final(To(g, j))
        PROVE  i < j
    <3>1. CASE i \in DOMAIN h.queue /\ j \in DOMAIN h.queue
      BY <1>3, <1>6, <2>1, <2>3, <3>1 DEF ListenInv
    <3>2. CASE i \in DOMAIN h.queue /\ j - n \in DOMAIN tasks /\ j = n + (j - n)
      BY <1>5, <3>2
    <3>3. CASE j \in DOMAIN h.queue /\ i - n \in DOMAIN tasks /\ i = n + (i - n)
      <4>1. tasks[i - n].do = "progress" /\ Sent(h, j) = ToAnswer(tasks[i - n].of)
            /\ IsQueued(h, j) /\ Final(To(h, j))
        BY <1>3, <1>6, <2>3, <3>3
      <4> QED
        BY <3>3, <4>1 DEF MayTell
    <3>4. CASE i - n \in DOMAIN tasks /\ i = n + (i - n) /\ j - n \in DOMAIN tasks /\ j = n + (j - n)
      <4>1. tasks[j - n].do = "dispatch" /\ tasks[i - n].do = "progress"
        BY <1>3, <1>6, <2>3, <3>4
      <4>2. j - n = i - n
        BY <3>4, <4>1
      <4> QED
        BY <4>1, <4>2
    <3> QED
      BY <1>4, <3>1, <3>2, <3>3, <3>4
  <2> QED
    BY <2>2, <2>3 DEF ListenInv
<1>11. CoreInv(g) /\ Widens(h, g)
  BY <1>3, <1>8, <1>9, <1>10, Queues
<1>12. \A d : IsPlaced(h, d) => IsPlaced(g, d)
  BY <1>5, <1>6, <1>7 DEF IsPlaced, IsQueued
<1>13. \A d : IsLost(g, d) => IsLost(h, d)
  BY <1>7, <1>12 DEF IsLost
<1> QED
  BY <1>6, <1>11, <1>13 DEF Goes, Grows, n

\* The message msg has come to x, before all that is in the queue.
Comes(h, x, msg) ==
  /\ IsMessageAt(h, x, msg)
  /\ \A j : IsQueued(h, j) =>
       /\ Leads(h, Sent(h, j), msg) => Along(h, x, To(h, j)) /\ To(h, j) # x
       /\ Leads(h, msg, Sent(h, j)) => Along(h, To(h, j), x)
  /\ \A d \in DOMAIN h.deferred : \A i \in DOMAIN Messages(h, d) :
       /\ Leads(h, Messages(h, d)[i], msg) => Along(h, x, Deferred(d))
       /\ ~Leads(h, msg, Messages(h, d)[i])
  /\ \A p \in DOMAIN h.deferred : \A i \in DOMAIN Listeners(h, p) :
       msg = ToAnswer(Listeners(h, p)[i]) => Along(h, x, Deferred(p))

HasTaken(h, g, t) ==
  /\ h.queue # <<>> /\ t = Head(h.queue)
  /\ SameRest(h, g) /\ g.deferred = h.deferred /\ g.queue = Tail(h.queue) /\ g.flush # "idle"

\* A task that was the first of the queue.
IsDue(h, t) ==
  /\ IsTask(h, t)
  /\ t.do = "dispatch" => Comes(h, t.to, t.msg)
  /\ \A d : t.do = "dispatch" /\ Final(t.to) /\ t.msg = ToAnswer(d) =>
       \A i \in DOMAIN h.queue : h.queue[i].do = "progress" => h.queue[i].of # d

\* The first task is taken from the queue.
LEMMA Takes ==
  ASSUME NEW h, CoreInv(h), NEW g, NEW t, HasTaken(h, g, t)
  PROVE  /\ CoreInv(g) /\ Widens(h, g) /\ IsDue(g, t)
         /\ \A d : IsLost(g, d) => IsLost(h, d) \/ (t.do = "dispatch" /\ t.msg = ToAnswer(d))
<1> USE DEF HasTaken
<1> DEFINE n == Len(h.queue)
<1>1. /\ n \in Nat \ {0} /\ DOMAIN h.queue = 1..n /\ IsSeq(g.queue)
      /\ DOMAIN g.queue = 1..(n - 1) /\ t = h.queue[1]
      /\ \A i \in 1..(n - 1) : g.queue[i] = h.queue[i + 1]
  BY CoreIs, TailIs DEF ShapeInv
<1> HIDE DEF n
<1>2. /\ 1 \in DOMAIN h.queue
      /\ \A i \in DOMAIN g.queue : i + 1 \in DOMAIN h.queue /\ ~(i + 1 < 1) /\ i + 1 # 1
      /\ \A i \in DOMAIN h.queue : i = 1 \/ (i - 1 \in DOMAIN g.queue /\ i = (i - 1) + 1)
      /\ \A i, j \in DOMAIN g.queue : i < j <=> i + 1 < j + 1
  BY <1>1
<1>3. \A i \in DOMAIN g.queue :
        /\ g.queue[i] = h.queue[i + 1] /\ (IsQueued(g, i) <=> IsQueued(h, i + 1))
        /\ To(g, i) = To(h, i + 1) /\ Sent(g, i) = Sent(h, i + 1)
  BY <1>1, <1>2 DEF IsQueued, To, Sent
<1>4. /\ \A d : /\ Self(g, d) = Self(h, d) /\ IsDone(g, d) = IsDone(h, d)
                /\ Messages(g, d) = Messages(h, d) /\ Listeners(g, d) = Listeners(h, d)
      /\ \A x, y : Along(g, x, y) <=> Along(h, x, y)
      /\ \A a, b : Leads(g, a, b) <=> Leads(h, a, b)
      /\ \A task : IsTask(g, task) <=> IsTask(h, task)
  BY SameDeferreds DEF SameRest
<1>5. QueueInv(g)
  BY <1>2, <1>3, <1>4, CoreIs DEF QueueInv
<1>6. OrderInv(g)
  <2>1. OrderInv(h)
    BY CoreIs
  <2>2. ASSUME NEW i \in DOMAIN g.queue, NEW j \in DOMAIN g.queue,
               IsQueued(g, i), IsQueued(g, j), Leads(g, Sent(g, i), Sent(g, j))
        PROVE  Along(g, To(g, j), To(g, i)) /\ (To(g, i) = To(g, j) => i < j)
    BY <1>2, <1>3, <1>4, <2>1, <2>2 DEF OrderInv
  <2>3. ASSUME NEW d \in DOMAIN g.deferred, NEW i \in DOMAIN Messages(g, d),
               NEW j \in DOMAIN g.queue, IsQueued(g, j)
        PROVE  /\ Leads(g, Messages(g, d)[i], Sent(g, j)) => Along(g, To(g, j), Deferred(d))
               /\ ~Leads(g, Sent(g, j), Messages(g, d)[i])
    BY <1>2, <1>3, <1>4, <2>1, <2>3 DEF OrderInv
  <2>4. \A d \in DOMAIN g.deferred : \A i \in DOMAIN Messages(g, d) :
        \A e \in DOMAIN g.deferred : \A j \in DOMAIN Messages(g, e) :
          Leads(g, Messages(g, d)[i], Messages(g, e)[j]) => d = e /\ i < j
    BY <1>4, <2>1 DEF OrderInv
  <2> QED
    BY <2>2, <2>3, <2>4 DEF OrderInv
<1>7. ListenInv(g)
  <2>1. ListenInv(h)
    BY CoreIs
  <2>2. ASSUME NEW p \in DOMAIN g.deferred, NEW i \in DOMAIN Listeners(g, p), NEW d,
               d = Listeners(g, p)[i]
        PROVE  /\ d \in DOMAIN g.deferred /\ Self(g, d) # None /\ ~IsDone(g, d)
               /\ \A j \in DOMAIN g.queue : IsQueued(g, j) /\ Sent(g, j) = ToAnswer(d) =>
                    Along(g, To(g, j), Deferred(p))
               /\ \A e \in DOMAIN g.deferred : \A j \in DOMAIN Messages(g, e) :
                    Messages(g, e)[j] = ToAnswer(d) => e = p
    BY <1>2, <1>3, <1>4, <2>1, <2>2 DEF ListenInv
  <2>3. \A i, j \in DOMAIN g.queue :
          /\ g.queue[i].do = "progress" /\ IsQueued(g, j)
          /\ Sent(g, j) = ToAnswer(g.queue[i].of) /\ Final(To(g, j))
          => i < j
    BY <1>2, <1>3, <2>1 DEF ListenInv
  <2> QED
    BY <2>2, <2>3 DEF ListenInv
<1>8. CoreInv(g) /\ Widens(h, g)
  BY <1>1, <1>5, <1>6, <1>7, Queues
<1>9. IsTask(g, t)
  BY <1>1, <1>2, <1>4, CoreIs DEF QueueInv
<1>10. ASSUME t.do = "dispatch" PROVE Comes(g, t.to, t.msg)
  <2>1. IsQueued(h, 1) /\ To(h, 1) = t.to /\ Sent(h, 1) = t.msg
    BY <1>1, <1>2, <1>10 DEF IsQueued, To, Sent
  <2>2. IsMessageAt(g, t.to, t.msg)
    BY <1>9, <1>10 DEF IsTask
  <2>3. OrderInv(h) /\ ListenInv(h)
    BY CoreIs
  <2>4. ASSUME NEW j, IsQueued(g, j)
        PROVE  /\ Leads(g, Sent(g, j), t.msg) => Along(g, t.to, To(g, j)) /\ To(g, j) # t.to
               /\ Leads(g, t.msg, Sent(g, j)) => Along(g, To(g, j), t.to)
    <3>1. j \in DOMAIN g.queue
      BY <2>4 DEF IsQueued
    <3> QED
      BY <1>2, <1>3, <1>4, <2>1, <2>3, <2>4, <3>1 DEF OrderInv
  <2>5. \A d \in DOMAIN g.deferred : \A i \in DOMAIN Messages(g, d) :
          /\ Leads(g, Messages(g, d)[i], t.msg) => Along(g, t.to, Deferred(d))
          /\ ~Leads(g, t.msg, Messages(g, d)[i])
    BY <1>2, <1>4, <2>1, <2>3 DEF OrderInv
  <2>6. \A p \in DOMAIN g.deferred : \A i \in DOMAIN Listeners(g, p) :
          t.msg = ToAnswer(Listeners(g, p)[i]) => Along(g, t.to, Deferred(p))
    BY <1>2, <1>4, <2>1, <2>3 DEF ListenInv
  <2> QED
    BY <2>2, <2>4, <2>5, <2>6 DEF Comes
<1>11. ASSUME NEW d, t.do = "dispatch", Final(t.to), t.msg = ToAnswer(d),
              NEW i \in DOMAIN g.queue, g.queue[i].do = "progress"
       PROVE  g.queue[i].of # d
  <2>1. IsQueued(h, 1) /\ To(h, 1) = t.to /\ Sent(h, 1) = t.msg
    BY <1>1, <1>2, <1>11 DEF IsQueued, To, Sent
  <2> QED
    BY <1>2, <1>3, <1>11, <2>1, CoreIs DEF ListenInv
<1>12. ASSUME NEW d, IsLost(g, d)
       PROVE  IsLost(h, d) \/ (t.do = "dispatch" /\ t.msg = ToAnswer(d))
  <2>1. ASSUME NEW i, IsQueued(h, i), Sent(h, i) = ToAnswer(d)
        PROVE  IsPlaced(g, d) \/ (t.do = "dispatch" /\ t.msg = ToAnswer(d))
    <3>1. i \in DOMAIN h.queue
      BY <2>1 DEF IsQueued
    <3>2. CASE i = 1
      BY <1>1, <2>1, <3>2 DEF IsQueued, Sent
    <3>3. CASE i - 1 \in DOMAIN g.queue /\ i = (i - 1) + 1
      BY <1>3, <2>1, <3>3 DEF IsPlaced
    <3> QED
      BY <1>2, <3>1, <3>2, <3>3
  <2> QED
    BY <1>4, <1>12, <2>1 DEF IsLost, IsPlaced
<1> QED
  BY <1>8, <1>9, <1>10, <1>11, <1>12 DEF IsDue

\* A message that has come to a resolved deferred goes on to what it has become.
LEMMA ComesOn ==
  ASSUME NEW h, CoreInv(h), NEW d \in DOMAIN h.deferred, IsResolved(h, d), NEW msg,
         Comes(h, Deferred(d), msg)
  PROVE  IsMessageAt(h, Target(h, d), msg) /\ MayPost(h, Target(h, d), msg)
<1> DEFINE t == Target(h, d)
<1>1. KnowsPromise(h, t)
  BY CoreIs DEF KnownInv, IsResolved, Target
<1>2. Along(h, Deferred(d), t)
  BY AlongSelf, AlongNext
<1>3. IsMessageAt(h, t, msg)
  BY <1>1, <1>2, AlongTrans DEF Comes, IsMessageAt, IsThenAt
<1>4. t # Deferred(d) /\ ~Along(h, t, Deferred(d))
  BY AlongNoRing, CoreIs
<1>5. Messages(h, d) = <<>> /\ Listeners(h, d) = <<>>
  BY CoreIs DEF KeptInv
<1> HIDE DEF t
<1>6. \A y : Along(h, Deferred(d), y) /\ y # Deferred(d) => Along(h, t, y)
  BY AlongSplit DEF t
<1>7. ASSUME NEW j, IsQueued(h, j)
      PROVE  /\ Leads(h, Sent(h, j), msg) => Along(h, t, To(h, j))
             /\ Leads(h, msg, Sent(h, j)) => Along(h, To(h, j), t) /\ To(h, j) # t
  BY <1>2, <1>4, <1>6, <1>7, AlongTrans DEF Comes
<1>8. ASSUME NEW e \in DOMAIN h.deferred, NEW i \in DOMAIN Messages(h, e)
      PROVE  /\ Leads(h, Messages(h, e)[i], msg) => Along(h, t, Deferred(e))
             /\ ~Leads(h, msg, Messages(h, e)[i])
  <2>1. e # d
    BY <1>5
  <2> QED
    BY <1>6, <2>1, DeferredsDiffer DEF Comes
<1>9. ASSUME NEW p \in DOMAIN h.deferred, NEW i \in DOMAIN Listeners(h, p),
             msg = ToAnswer(Listeners(h, p)[i])
      PROVE  Along(h, t, Deferred(p))
  <2>1. p # d
    BY <1>5
  <2> QED
    BY <1>6, <1>9, <2>1, DeferredsDiffer DEF Comes
<1> QED
  BY <1>3, <1>7, <1>8, <1>9 DEF MayPost, t

LEMMA SameLength ==
  ASSUME NEW s, IsSeq(s), NEW t, IsSeq(t), DOMAIN s = DOMAIN t
  PROVE  Len(s) = Len(t)
<1> DEFINE a == Len(s)
           b == Len(t)
<1>1. a \in Nat /\ b \in Nat /\ 1..a = 1..b
  BY SeqIs
<1> HIDE DEF a, b
<1>2. a = b
  BY <1>1
<1> QED
  BY <1>2 DEF a, b

\* The deferreds are the same, but for the messages they keep.
SameCalls(h, g) ==
  /\ IsSeq(g.deferred) /\ DOMAIN g.deferred = DOMAIN h.deferred
  /\ \A d \in DOMAIN h.deferred :
       SameCall(h, g, d) /\ Target(g, d) = Target(h, d) /\ Waiting(g, d) = Waiting(h, d)

LEMMA CallsFrame ==
  ASSUME NEW h, CoreInv(h), NEW g, SameRest(h, g), SameCalls(h, g)
  PROVE  /\ Widens(h, g) /\ Len(g.deferred) = Len(h.deferred)
         /\ TargetsInv(g) /\ KnownInv(g) /\ FlatInv(g) /\ WaitingInv(g) /\ DoneInv(g)
         /\ \A x, y : Along(g, x, y) <=> Along(h, x, y)
         /\ \A a, b : Leads(g, a, b) <=> Leads(h, a, b)
         /\ \A x, msg : IsMessageAt(g, x, msg) <=> IsMessageAt(h, x, msg)
         /\ \A task : IsTask(g, task) <=> IsTask(h, task)
<1>1. Len(g.deferred) = Len(h.deferred)
  BY SameLength, CoreIs DEF SameCalls, TargetsInv
<1>2. \A d \in DOMAIN h.deferred : IsResolved(g, d) <=> IsResolved(h, d)
  BY DEF IsResolved, SameCalls, Target
<1>3. Own(g) = Own(h) /\ Plain(g) = Plain(h)
  <2>1. Own(g) = Own(h) /\ Own(h) \subseteq DOMAIN h.deferred
    BY <1>1, CoreIs DEF Own
  <2> QED
    BY <2>1 DEF Plain, SameCalls, SameCall
<1>4. \A d \in DOMAIN h.deferred : IsFlat(g, d) <=> IsFlat(h, d)
  BY DEF IsFlat, SameCalls, SameCall
<1>5. \A x : Knows(g, x) <=> Knows(h, x)
  BY <1>1, <1>3 DEF Knows, SameRest
<1>6. \A S : Closed(g, S) <=> Closed(h, S)
  BY <1>2 DEF Closed, SameCalls
<1>7. \A x, y : Along(g, x, y) <=> Along(h, x, y)
  BY <1>6 DEF Along
<1>8. \A a, b : Leads(g, a, b) <=> Leads(h, a, b)
  BY DEF Leads, SameCalls, SameCall
<1>9. \A msg : IsAsk(g, msg) <=> IsAsk(h, msg)
  BY <1>3, <1>5 DEF IsAsk
<1>10. \A x, msg : IsThenAt(g, x, msg) <=> IsThenAt(h, x, msg)
  BY <1>7 DEF IsThenAt, SameCalls, SameCall
<1>11. \A x, msg : IsMessageAt(g, x, msg) <=> IsMessageAt(h, x, msg)
  BY <1>5, <1>9, <1>10 DEF IsMessageAt, KnowsPromise
<1>12. \A task : IsTask(g, task) <=> IsTask(h, task)
  BY <1>3, <1>5, <1>11 DEF IsTask, SameCalls, SameCall
<1>13. More(h, g)
  BY <1>1, <1>4, CoreIs DEF More, SameRest, SameCalls, SameCall
<1>14. TargetsInv(g)
  BY <1>1, CoreIs DEF TargetsInv, SameCalls
<1>15. KnownInv(g)
  <2>1. KnownInv(h)
    BY CoreIs
  <2>2. \A d \in DOMAIN g.deferred :
          /\ Target(g, d) = None \/ KnowsPromise(g, Target(g, d))
          /\ Gathered(g, d) # None =>
               KnowsValue(g, Gathered(g, d)) /\ d \in Own(g) /\ Self(g, d) = None
          /\ Self(g, d) # None => d \in Own(g) /\ KnowsPromise(g, Self(g, d))
    BY <1>3, <1>5, <2>1 DEF KnownInv, KnowsPromise, KnowsValue, SameCalls, SameCall
  <2>3. \A d \in DOMAIN g.deferred :
          /\ OnFulfilled(g, d) = None \/ IsCallback(g, OnFulfilled(g, d))
          /\ OnRejected(g, d) = None
               \/ (IsCallback(g, OnRejected(g, d)) /\ OnRejected(g, d)[1] # "spread")
          /\ OnProgress(g, d) = None \/ IsListener(g, OnProgress(g, d))
    BY <1>13, <2>1, MoreCallback DEF KnownInv, SameCalls, SameCall
  <2>4. \A timer \in g.timers :
          /\ timer[2] \in Plain(g) /\ timer[1] \in {"timeout", "delay"}
          /\ timer[1] = "delay" => KnowsValue(g, timer[3])
    BY <1>3, <1>5, <2>1 DEF KnownInv, KnowsValue, SameRest
  <2>5. \A i \in DOMAIN g.held : Knows(g, g.held[i])
    BY <1>5, <2>1 DEF KnownInv, SameRest
  <2>6. g.outside \subseteq 1..Sources \cup Plain(g) /\ g.unhandled \subseteq 1..g.rejections
    BY <1>3, <2>1 DEF KnownInv, SameRest
  <2> QED
    BY <2>2, <2>3, <2>4, <2>5, <2>6 DEF KnownInv
<1>16. FlatInv(g)
  <2>1. \A d \in DOMAIN h.deferred : IsAll(g, d) <=> IsAll(h, d)
    BY DEF IsAll, SameCalls, SameCall
  <2> QED
    BY <1>2, <1>4, <2>1, CoreIs DEF FlatInv, SameCalls, SameCall
<1>17. WaitingInv(g)
  BY CoreIs DEF WaitingInv, SameCalls, SameCall
<1>18. DoneInv(g)
  <2>1. \A d \in DOMAIN h.deferred : \A k : SeesRejection(g, d, k) <=> SeesRejection(h, d, k)
    BY <1>7 DEF SeesRejection, SameCalls, SameCall
  <2>2. DoneInv(h)
    BY CoreIs
  <2>3. \A d \in DOMAIN g.deferred : IsDone(g, d) =>
          Self(g, d) # None /\ \E y : Final(y) /\ Knows(g, y) /\ Along(g, Self(g, d), y)
    BY <1>5, <1>7, <2>2 DEF DoneInv, SameCalls, SameCall
  <2>4. \A k \in 1..g.rejections :
          k \in g.unhandled
            <=> ~ \E d \in DOMAIN g.deferred : IsDone(g, d) /\ SeesRejection(g, d, k)
    BY <2>1, <2>2 DEF DoneInv, SameCalls, SameCall, SameRest
  <2> QED
    BY <2>3, <2>4 DEF DoneInv
<1>19. \A d \in DOMAIN h.deferred : Len(Waiting(h, d)) <= Len(Waiting(h, d))
  BY SeqIs, CoreIs DEF ShapeInv
<1>20. Widens(h, g)
  BY <1>13, <1>19 DEF Widens, SameRest, SameCalls, SameCall
<1> QED
  BY <1>1, <1>7, <1>8, <1>11, <1>12, <1>14, <1>15, <1>16, <1>17, <1>18, <1>20

\* An unresolved deferred keeps the message that has come to it.
HasKept(h, g, d, msg) ==
  /\ SameRest(h, g) /\ SameCalls(h, g) /\ g.queue = h.queue /\ g.flush = h.flush
  /\ \A e \in DOMAIN h.deferred : e # d =>
       Messages(g, e) = Messages(h, e) /\ Listeners(g, e) = Listeners(h, e)
  /\ Messages(g, d) = Append(Messages(h, d), msg)
  /\ Listeners(g, d) = IF msg.progress = None THEN Listeners(h, d)
                       ELSE Append(Listeners(h, d), msg.progress[2])

LEMMA KeepsMessage ==
  ASSUME NEW h, CoreInv(h), NEW d \in DOMAIN h.deferred, ~IsResolved(h, d), NEW msg,
         Comes(h, Deferred(d), msg), NEW g, HasKept(h, g, d, msg)
  PROVE  Goes(h, g) /\ \A c : msg = ToAnswer(c) => IsPlaced(g, c)
<1> USE DEF HasKept
<1>1. /\ Widens(h, g)
      /\ TargetsInv(g) /\ KnownInv(g) /\ FlatInv(g) /\ WaitingInv(g) /\ DoneInv(g)
      /\ \A x, y : Along(g, x, y) <=> Along(h, x, y)
      /\ \A a, b : Leads(g, a, b) <=> Leads(h, a, b)
      /\ \A x, m0 : IsMessageAt(g, x, m0) <=> IsMessageAt(h, x, m0)
      /\ \A task : IsTask(g, task) <=> IsTask(h, task)
  BY CallsFrame
<1>2. DOMAIN g.deferred = DOMAIN h.deferred
  BY DEF SameCalls
<1> DEFINE u == Messages(h, d)
           v == Messages(g, d)
           n == Len(u)
<1>3. /\ IsSeq(u) /\ n \in Nat /\ DOMAIN u = 1..n
      /\ IsSeq(v) /\ DOMAIN v = 1..(n + 1) /\ v[n + 1] = msg
      /\ \A i \in DOMAIN u : v[i] = u[i]
  BY SeqIs, AppendIs, CoreIs DEF ShapeInv
<1> HIDE DEF u, v, n
<1>4. /\ n + 1 \in DOMAIN v /\ \A i : i \in DOMAIN v <=> i \in DOMAIN u \/ i = n + 1
      /\ \A i \in DOMAIN u : i < n + 1
  BY <1>3
<1>5. /\ \A e \in DOMAIN h.deferred : \A i \in DOMAIN Messages(g, e) :
           \/ i \in DOMAIN Messages(h, e) /\ Messages(g, e)[i] = Messages(h, e)[i]
           \/ e = d /\ i = n + 1 /\ Messages(g, e)[i] = msg
      /\ \A e \in DOMAIN h.deferred : \A i \in DOMAIN Messages(h, e) :
           i \in DOMAIN Messages(g, e) /\ Messages(g, e)[i] = Messages(h, e)[i]
  BY <1>3, <1>4 DEF u, v
<1>6. \A i : IsQueued(g, i) <=> IsQueued(h, i)
  BY DEF IsQueued
<1>7. \A i : To(g, i) = To(h, i) /\ Sent(g, i) = Sent(h, i)
  BY DEF To, Sent
<1>8. IsEnd(h, Deferred(d))
  BY DeferredsDiffer DEF IsEnd
<1>9. \A c : msg.progress # None /\ c = msg.progress[2] =>
        msg = ToListen(c) /\ c \in DOMAIN h.deferred /\ Self(h, c) # None /\ ~IsDone(h, c)
  <2>1. \A c : <<"then", c>>[2] = c
    OBVIOUS
  <2>2. IsMessageAt(h, Deferred(d), msg)
    BY DEF Comes
  <2> QED
    BY <2>1, <2>2, MessagesDiffer DEF IsMessageAt, IsThenAt, IsAsk
<1>10. /\ IsSeq(Listeners(g, d))
       /\ \A i \in DOMAIN Listeners(g, d) :
            \/ i \in DOMAIN Listeners(h, d) /\ Listeners(g, d)[i] = Listeners(h, d)[i]
            \/ msg.progress # None /\ Listeners(g, d)[i] = msg.progress[2]
  <2> DEFINE r == Listeners(h, d)
             w == Listeners(g, d)
             c == msg.progress[2]
  <2>1. IsSeq(r)
    BY CoreIs DEF ShapeInv
  <2>2. w = r \/ (w = Append(r, c) /\ msg.progress # None)
    OBVIOUS
  <2>3. CASE w = r
    BY <2>1, <2>3
  <2>4. CASE w = Append(r, c) /\ msg.progress # None
    <3> HIDE DEF r, w, c
    <3>1. /\ IsSeq(w) /\ DOMAIN w = 1..(Len(r) + 1) /\ w[Len(r) + 1] = c
          /\ \A i \in DOMAIN r : w[i] = r[i]
      BY <2>1, <2>4, AppendIs
    <3>2. DOMAIN r = 1..Len(r) /\ Len(r) \in Nat
      BY <2>1, SeqIs
    <3>3. \A i \in DOMAIN w : i \in DOMAIN r \/ i = Len(r) + 1
      BY <3>1, <3>2
    <3> QED
      BY <2>4, <3>1, <3>3 DEF w, r, c
  <2> QED
    BY <2>2, <2>3, <2>4
<1>11. ShapeInv(g)
  <2>1. /\ DOMAIN g = MemoryFields /\ IsSeq(g.queue) /\ IsSeq(g.held) /\ g.rejections \in Nat
    BY <1>3, CoreIs DEF ShapeInv, SameRest
  <2>2. ASSUME NEW e \in DOMAIN g.deferred
        PROVE  /\ DOMAIN g.deferred[e] = DeferredFields
               /\ IsSeq(Messages(g, e)) /\ IsSeq(Listeners(g, e)) /\ IsSeq(Waiting(g, e))
               /\ IsDone(g, e) \in BOOLEAN
    BY <1>3, <1>10, <2>2, CoreIs DEF ShapeInv, SameCalls, SameCall, v
  <2> QED
    BY <2>1, <2>2 DEF ShapeInv
<1>12. QueueInv(g)
  BY <1>1, CoreIs DEF QueueInv
<1>13. KeptInv(g)
  <2> SUFFICES ASSUME NEW e \in DOMAIN h.deferred
               PROVE  /\ IsResolved(g, e) => Messages(g, e) = <<>> /\ Listeners(g, e) = <<>>
                      /\ \A i \in DOMAIN Messages(g, e) :
                           IsMessageAt(g, Deferred(e), Messages(g, e)[i])
    BY <1>2 DEF KeptInv
  <2>1. IsResolved(g, e) <=> IsResolved(h, e)
    BY DEF IsResolved, SameCalls, Target
  <2>2. IsResolved(g, e) => Messages(g, e) = <<>> /\ Listeners(g, e) = <<>>
    BY <2>1, CoreIs DEF KeptInv
  <2>3. \A i \in DOMAIN Messages(g, e) : IsMessageAt(g, Deferred(e), Messages(g, e)[i])
    BY <1>1, <1>5, CoreIs DEF KeptInv, Comes
  <2> QED
    BY <2>2, <2>3
<1>14. OrderInv(g)
  <2>1. OrderInv(h)
    BY CoreIs
  <2>2. \A i, j \in DOMAIN g.queue :
          IsQueued(g, i) /\ IsQueued(g, j) /\ Leads(g, Sent(g, i), Sent(g, j)) =>
            Along(g, To(g, j), To(g, i)) /\ (To(g, i) = To(g, j) => i < j)
    BY <1>1, <1>6, <1>7, <2>1 DEF OrderInv
  <2>3. ASSUME NEW e \in DOMAIN h.deferred, NEW i \in DOMAIN Messages(g, e),
               NEW j \in DOMAIN g.queue, IsQueued(g, j)
        PROVE  /\ Leads(g, Messages(g, e)[i], Sent(g, j)) => Along(g, To(g, j), Deferred(e))
               /\ ~Leads(g, Sent(g, j), Messages(g, e)[i])
    <3>1. CASE i \in DOMAIN Messages(h, e) /\ Messages(g, e)[i] = Messages(h, e)[i]
      BY <1>1, <1>6, <1>7, <2>1, <2>3, <3>1 DEF OrderInv
    <3>2. CASE e = d /\ i = n + 1 /\ Messages(g, e)[i] = msg
      <4>1. /\ Leads(h, Sent(h, j), msg) =>
                 Along(h, Deferred(d), To(h, j)) /\ To(h, j) # Deferred(d)
            /\ Leads(h, msg, Sent(h, j)) => Along(h, To(h, j), Deferred(d))
        BY <1>6, <2>3 DEF Comes
      <4> QED
        BY <1>1, <1>7, <1>8, <3>2, <4>1, AlongEnd
    <3> QED
      BY <1>5, <3>1, <3>2
  <2>4. ASSUME NEW e \in DOMAIN h.deferred, NEW i \in DOMAIN Messages(g, e),
               NEW f \in DOMAIN h.deferred, NEW j \in DOMAIN Messages(g, f),
               Leads(g, Messages(g, e)[i], Messages(g, f)[j])
        PROVE  e = f /\ i < j
    <3>1. CASE i \in DOMAIN Messages(h, e) /\ Messages(g, e)[i] = Messages(h, e)[i]
      <4>1. CASE j \in DOMAIN Messages(h, f) /\ Messages(g, f)[j] = Messages(h, f)[j]
        BY <1>1, <2>1, <2>4, <3>1, <4>1 DEF OrderInv
      <4>2. CASE f = d /\ j = n + 1 /\ Messages(g, f)[j] = msg
        <5>1. Along(h, Deferred(d), Deferred(e))
          BY <1>1, <2>4, <3>1, <4>2 DEF Comes
        <5>2. e = d
          BY <1>8, <5>1, AlongEnd, DeferredsDiffer
        <5> QED
          BY <1>4, <3>1, <4>2, <5>2 DEF u
      <4> QED
        BY <1>5, <4>1, <4>2
    <3>2. CASE e = d /\ i = n + 1 /\ Messages(g, e)[i] = msg
      <4>1. CASE j \in DOMAIN Messages(h, f) /\ Messages(g, f)[j] = Messages(h, f)[j]
        BY <1>1, <2>4, <3>2, <4>1 DEF Comes
      <4>2. CASE f = d /\ j = n + 1 /\ Messages(g, f)[j] = msg
        BY <1>1, <2>4, <3>2, <4>2, LeadsNotSelf
      <4> QED
        BY <1>5, <4>1, <4>2
    <3> QED
      BY <1>5, <3>1, <3>2
  <2> QED
    BY <1>2, <2>2, <2>3, <2>4 DEF OrderInv
<1>15. ListenInv(g)
  <2>1. ListenInv(h)
    BY CoreIs
  <2>2. ASSUME NEW p \in DOMAIN h.deferred, NEW i \in DOMAIN Listeners(g, p), NEW c,
               c = Listeners(g, p)[i]
        PROVE  /\ c \in DOMAIN g.deferred /\ Self(g, c) # None /\ ~IsDone(g, c)
               /\ \A j \in DOMAIN g.queue : IsQueued(g, j) /\ Sent(g, j) = ToAnswer(c) =>
                    Along(g, To(g, j), Deferred(p))
               /\ \A e \in DOMAIN g.deferred : \A j \in DOMAIN Messages(g, e) :
                    Messages(g, e)[j] = ToAnswer(c) => e = p
    <3>1. CASE i \in DOMAIN Listeners(h, p) /\ c = Listeners(h, p)[i]
      <4>1. /\ c \in DOMAIN h.deferred /\ Self(h, c) # None /\ ~IsDone(h, c)
            /\ \A j \in DOMAIN h.queue : IsQueued(h, j) /\ Sent(h, j) = ToAnswer(c) =>
                 Along(h, To(h, j), Deferred(p))
            /\ \A e \in DOMAIN h.deferred : \A j \in DOMAIN Messages(h, e) :
                 Messages(h, e)[j] = ToAnswer(c) => e = p
        BY <2>1, <3>1 DEF ListenInv
      <4>2. ASSUME NEW e \in DOMAIN h.deferred, NEW j \in DOMAIN Messages(g, e),
                   Messages(g, e)[j] = ToAnswer(c)
            PROVE  e = p
        <5>1. CASE j \in DOMAIN Messages(h, e) /\ Messages(g, e)[j] = Messages(h, e)[j]
          BY <4>1, <4>2, <5>1
        <5>2. CASE e = d /\ j = n + 1 /\ Messages(g, e)[j] = msg
          <6>1. Along(h, Deferred(d), Deferred(p))
            BY <3>1, <4>2, <5>2 DEF Comes
          <6> QED
            BY <1>8, <5>2, <6>1, AlongEnd, DeferredsDiffer
        <5> QED
          BY <1>5, <5>1, <5>2
      <4> QED
        BY <1>1, <1>2, <1>6, <1>7, <4>1, <4>2 DEF SameCalls, SameCall
    <3>2. CASE p = d /\ msg.progress # None /\ c = msg.progress[2]
      <4>1. msg = ToListen(c) /\ c \in DOMAIN h.deferred /\ Self(h, c) # None /\ ~IsDone(h, c)
        BY <1>9, <3>2
      <4>2. Leads(h, msg, ToAnswer(c))
        BY <4>1 DEF Leads
      <4>3. \A j \in DOMAIN g.queue : IsQueued(g, j) /\ Sent(g, j) = ToAnswer(c) =>
              Along(g, To(g, j), Deferred(p))
        BY <1>1, <1>6, <1>7, <3>2, <4>2 DEF Comes
      <4>4. ASSUME NEW e \in DOMAIN h.deferred, NEW j \in DOMAIN Messages(g, e),
                   Messages(g, e)[j] = ToAnswer(c)
            PROVE  FALSE
        BY <1>5, <4>1, <4>2, <4>4, MessagesDiffer DEF Comes
      <4> QED
        BY <1>2, <4>1, <4>3, <4>4 DEF SameCalls, SameCall
    <3> QED
      BY <1>10, <2>2, <3>1, <3>2
  <2>3. \A i, j \in DOMAIN g.queue :
          /\ g.queue[i].do = "progress" /\ IsQueued(g, j)
          /\ Sent(g, j) = ToAnswer(g.queue[i].of) /\ Final(To(g, j))
          => i < j
    BY <1>6, <1>7, <2>1 DEF ListenInv
  <2> QED
    BY <1>2, <2>2, <2>3 DEF ListenInv
<1>16. \A c : IsPlaced(h, c) => IsPlaced(g, c)
  BY <1>2, <1>5, <1>6, <1>7 DEF IsPlaced
<1>17. \A c : msg = ToAnswer(c) => IsPlaced(g, c)
  BY <1>2, <1>3, <1>4 DEF IsPlaced, v
<1>18. \A c : IsLost(g, c) => IsLost(h, c)
  BY <1>16 DEF IsLost, SameCalls, SameCall
<1> QED
  BY <1>1, <1>11, <1>12, <1>13, <1>14, <1>15, <1>17, <1>18 DEF Goes, Grows, CoreInv

\* The promise x is something that d may become.
MayBecome(h, d, x) ==
  /\ d \in DOMAIN h.deferred /\ KnowsPromise(h, x)
  /\ x[1] = "deferred" => Before(d, x[2])
  /\ IsFlat(h, d) => x[1] = "rejected" \/ (x[1] = "fulfilled" /\ LooseItems(x[2]))
  /\ IsAll(h, d) =>
       x[1] = "rejected" \/ \E e \in DOMAIN h.deferred : x = Deferred(e) /\ IsFlat(h, e)

\* A deferred becomes x, and what it has kept goes to x.
HasBecome(h, g, d, x, tasks) ==
  /\ SameRest(h, g) /\ IsSeq(g.deferred) /\ DOMAIN g.deferred = DOMAIN h.deferred
  /\ \A e \in DOMAIN h.deferred :
       /\ SameCall(h, g, e) /\ Waiting(g, e) = Waiting(h, e)
       /\ e # d => /\ Target(g, e) = Target(h, e) /\ Messages(g, e) = Messages(h, e)
                   /\ Listeners(g, e) = Listeners(h, e)
  /\ Target(g, d) = x /\ Messages(g, d) = <<>> /\ Listeners(g, d) = <<>>
  /\ IsSeq(tasks) /\ DOMAIN tasks = DOMAIN Messages(h, d)
  /\ \A i \in DOMAIN tasks : tasks[i] = Dispatching(x, Messages(h, d)[i])
  /\ g.queue = h.queue \o tasks /\ (g.flush = "idle" => g.queue = <<>>)

LEMMA Becomes ==
  ASSUME NEW h, CoreInv(h), NEW d, ~IsResolved(h, d), NEW x, MayBecome(h, d, x),
         NEW g, NEW tasks, HasBecome(h, g, d, x, tasks)
  PROVE  Goes(h, g)
<1> USE DEF MayBecome, HasBecome
<1> DEFINE n == Len(h.queue)
           u == Messages(h, d)
<1>1. n \in Nat /\ DOMAIN h.queue = 1..n /\ IsSeq(h.queue)
  BY CoreIs DEF ShapeInv
<1>2. Len(tasks) \in Nat /\ DOMAIN tasks = 1..Len(tasks) /\ DOMAIN tasks = DOMAIN u
  BY SeqIs
<1>3. /\ IsSeq(g.queue) /\ DOMAIN g.queue = 1..(n + Len(tasks))
      /\ \A i \in DOMAIN h.queue : g.queue[i] = h.queue[i]
      /\ \A i \in DOMAIN tasks : g.queue[n + i] = tasks[i]
  <2>1. IsSeq(tasks) /\ g.queue = h.queue \o tasks
    OBVIOUS
  <2> QED
    BY ONLY <1>1, <1>2, <2>1, ConcatIs
<1>4. \A i \in DOMAIN u : tasks[i].do = "dispatch" /\ tasks[i].to = x /\ tasks[i].msg = u[i]
  BY DEF Dispatching
<1> HIDE DEF n, u
<1>5. \A i \in DOMAIN g.queue :
        \/ i \in DOMAIN h.queue
        \/ i - n \in DOMAIN u /\ i = n + (i - n)
  BY <1>1, <1>2, <1>3
<1>6. /\ \A i \in DOMAIN h.queue : i \in DOMAIN g.queue
      /\ \A i \in DOMAIN u : n + i \in DOMAIN g.queue
      /\ \A i \in DOMAIN h.queue : \A j \in DOMAIN u : i < n + j
      /\ \A i, j \in DOMAIN u : i < j => n + i < n + j
  BY <1>1, <1>2, <1>3
<1>7. /\ \A i \in DOMAIN h.queue :
           /\ IsQueued(g, i) <=> IsQueued(h, i)
           /\ To(g, i) = To(h, i) /\ Sent(g, i) = Sent(h, i)
      /\ \A i \in DOMAIN u : IsQueued(g, n + i) /\ To(g, n + i) = x /\ Sent(g, n + i) = u[i]
  <2>1. \A i \in DOMAIN h.queue :
          /\ IsQueued(g, i) <=> IsQueued(h, i)
          /\ To(g, i) = To(h, i) /\ Sent(g, i) = Sent(h, i)
    BY <1>3, <1>6 DEF IsQueued, To, Sent
  <2>2. ASSUME NEW i \in DOMAIN u
        PROVE  IsQueued(g, n + i) /\ To(g, n + i) = x /\ Sent(g, n + i) = u[i]
    <3>1. n + i \in DOMAIN g.queue /\ g.queue[n + i] = tasks[i]
      BY <1>2, <1>3, <1>6
    <3> QED
      BY <1>4, <3>1 DEF IsQueued, To, Sent
  <2> QED
    BY <2>1, <2>2
<1>8. Len(g.deferred) = Len(h.deferred)
  BY SameLength, CoreIs DEF TargetsInv
<1>9. x # None
  BY KnownIs DEF KnowsPromise, Knows, None
<1>10. /\ \A e \in DOMAIN h.deferred : e # d => (IsResolved(g, e) <=> IsResolved(h, e))
       /\ IsResolved(g, d)
  BY <1>9 DEF IsResolved, Target
<1>11. Own(g) = Own(h) /\ Plain(g) = Plain(h)
  <2>1. Own(g) = Own(h) /\ Own(h) \subseteq DOMAIN h.deferred
    BY <1>8, CoreIs DEF Own
  <2> QED
    BY <2>1 DEF Plain, SameCall
<1>12. \A y : Knows(g, y) <=> Knows(h, y)
  BY <1>8, <1>11 DEF Knows, SameRest
<1>13. ASSUME NEW e \in DOMAIN h.deferred, IsFlat(h, e) PROVE IsFlat(g, e)
  BY <1>13 DEF IsFlat, SameCall
<1>14. More(h, g)
  <2>1. \A e \in DOMAIN h.deferred : IsResolved(h, e) => Target(g, e) = Target(h, e)
    OBVIOUS
  <2> QED
    BY <1>8, <1>13, <2>1, CoreIs DEF More, SameRest, SameCall
<1>15. TargetsInv(g)
  <2>1. TargetsInv(h)
    BY CoreIs
  <2>2. x[1] = "deferred" => x = Deferred(x[2]) /\ x[2] \in DOMAIN h.deferred
    BY KnownIs, CoreIs DEF KnowsPromise, Knows
  <2>3. ASSUME NEW e \in DOMAIN g.deferred
        PROVE  /\ Target(g, e) = None \/ IsPromise(Target(g, e))
               /\ Target(g, e)[1] = "deferred" =>
                    /\ Target(g, e) = Deferred(Target(g, e)[2])
                    /\ Target(g, e)[2] \in DOMAIN g.deferred /\ Before(e, Target(g, e)[2])
    <3>1. CASE e = d
      BY <2>2, <3>1 DEF KnowsPromise
    <3>2. CASE e # d
      BY <2>1, <3>2 DEF TargetsInv
    <3> QED
      BY <3>1, <3>2
  <2> QED
    BY <1>8, <2>1, <2>3 DEF TargetsInv
<1>16. \A y, z : Along(h, y, z) => Along(g, y, z)
  BY <1>14, MoreAlong
<1>17. /\ \A y : Along(g, y, Deferred(d)) => Along(g, y, x)
       /\ ~Along(g, x, Deferred(d)) /\ Along(g, x, x)
  BY <1>10, <1>15, AlongNext, AlongNoRing, AlongSelf
<1>18. \A a, b : Leads(g, a, b) <=> Leads(h, a, b)
  BY DEF Leads, SameCall
<1>19. /\ \A e \in DOMAIN h.deferred : \A i \in DOMAIN Messages(g, e) :
            e # d /\ i \in DOMAIN Messages(h, e) /\ Messages(g, e)[i] = Messages(h, e)[i]
       /\ \A e \in DOMAIN h.deferred : \A i \in DOMAIN Listeners(g, e) :
            e # d /\ i \in DOMAIN Listeners(h, e) /\ Listeners(g, e)[i] = Listeners(h, e)[i]
  OBVIOUS
<1>20. ShapeInv(g)
  <2>1. IsSeq(<<>>)
    BY DEF IsSeq
  <2>2. \A e \in DOMAIN h.deferred :
          IsSeq(Messages(g, e)) /\ IsSeq(Listeners(g, e))
    BY <2>1, CoreIs DEF ShapeInv
  <2> QED
    BY <1>3, <2>2, CoreIs DEF ShapeInv, SameRest, SameCall
<1>21. KnownInv(g)
  <2>1. KnownInv(h)
    BY CoreIs
  <2>2. \A e \in DOMAIN g.deferred :
          /\ Target(g, e) = None \/ KnowsPromise(g, Target(g, e))
          /\ Gathered(g, e) # None =>
               KnowsValue(g, Gathered(g, e)) /\ e \in Own(g) /\ Self(g, e) = None
          /\ Self(g, e) # None => e \in Own(g) /\ KnowsPromise(g, Self(g, e))
    BY <1>11, <1>12, <2>1 DEF KnownInv, KnowsPromise, KnowsValue, SameCall
  <2>3. \A e \in DOMAIN g.deferred :
          /\ OnFulfilled(g, e) = None \/ IsCallback(g, OnFulfilled(g, e))
          /\ OnRejected(g, e) = None
               \/ (IsCallback(g, OnRejected(g, e)) /\ OnRejected(g, e)[1] # "spread")
          /\ OnProgress(g, e) = None \/ IsListener(g, OnProgress(g, e))
    BY <1>14, <2>1, MoreCallback DEF KnownInv, SameCall
  <2>4. \A timer \in g.timers :
          /\ timer[2] \in Plain(g) /\ timer[1] \in {"timeout", "delay"}
          /\ timer[1] = "delay" => KnowsValue(g, timer[3])
    BY <1>11, <1>12, <2>1 DEF KnownInv, KnowsValue, SameRest
  <2>5. \A i \in DOMAIN g.held : Knows(g, g.held[i])
    BY <1>12, <2>1 DEF KnownInv, SameRest
  <2>6. g.outside \subseteq 1..Sources \cup Plain(g) /\ g.unhandled \subseteq 1..g.rejections
    BY <1>11, <2>1 DEF KnownInv, SameRest
  <2> QED
    BY <2>2, <2>3, <2>4, <2>5, <2>6 DEF KnownInv
<1>22. FlatInv(g)
  <2>1. \A e \in DOMAIN h.deferred : IsAll(g, e) <=> IsAll(h, e)
    BY DEF IsAll, SameCall
  <2>2. FlatInv(h)
    BY CoreIs
  <2>3. ASSUME NEW e \in DOMAIN g.deferred, IsAll(g, e), IsResolved(g, e)
        PROVE  \/ Target(g, e)[1] = "rejected"
               \/ \E f \in DOMAIN g.deferred : Target(g, e) = Deferred(f) /\ IsFlat(g, f)
    <3>1. CASE e = d
      BY <1>13, <2>1, <2>3, <3>1
    <3>2. CASE e # d
      BY <1>10, <1>13, <2>1, <2>2, <2>3, <3>2 DEF FlatInv
    <3> QED
      BY <3>1, <3>2
  <2>4. \A e \in DOMAIN g.deferred : OnFulfilled(g, e) = <<"spread", <<"same">>>> =>
          \E f \in DOMAIN g.deferred : Self(g, e) = Deferred(f) /\ IsAll(g, f)
    BY <2>1, <2>2 DEF FlatInv, SameCall
  <2> QED
    BY <2>3, <2>4 DEF FlatInv
<1>23. WaitingInv(g)
  BY CoreIs DEF WaitingInv, SameCall
<1>24. \A y, msg : IsMessageAt(h, y, msg) => IsMessageAt(g, y, msg)
  BY <1>14, MoreMessage
<1>25. QueueInv(g)
  <2>1. ASSUME NEW i \in DOMAIN g.queue PROVE IsTask(g, g.queue[i])
    <3>1. CASE i \in DOMAIN h.queue
      BY <1>3, <1>14, <3>1, MoreMessage, CoreIs DEF QueueInv
    <3>2. CASE i - n \in DOMAIN u /\ i = n + (i - n)
      <4>1. IsMessageAt(g, Deferred(d), u[i - n])
        BY <1>24, <3>2, CoreIs DEF KeptInv, u
      <4>2. Along(g, Deferred(d), x)
        BY <1>17, AlongSelf
      <4>3. KnowsPromise(g, x)
        BY <1>12 DEF KnowsPromise
      <4>4. IsMessageAt(g, x, u[i - n])
        BY <4>1, <4>2, <4>3, AlongTrans DEF IsMessageAt, IsThenAt
      <4>5. g.queue[i] = tasks[i - n]
        BY <1>2, <1>3, <3>2
      <4> QED
        BY <1>4, <3>2, <4>4, <4>5 DEF IsTask
    <3> QED
      BY <1>5, <3>1, <3>2
  <2> QED
    BY <2>1 DEF QueueInv
<1>26. KeptInv(g)
  <2>1. KeptInv(h)
    BY CoreIs
  <2>2. \A e \in DOMAIN g.deferred :
          IsResolved(g, e) => Messages(g, e) = <<>> /\ Listeners(g, e) = <<>>
    BY <1>10, <2>1 DEF KeptInv
  <2>3. \A e \in DOMAIN g.deferred : \A i \in DOMAIN Messages(g, e) :
          IsMessageAt(g, Deferred(e), Messages(g, e)[i])
    BY <1>19, <1>24, <2>1 DEF KeptInv
  <2> QED
    BY <2>2, <2>3 DEF KeptInv
<1>27. OrderInv(h)
  BY CoreIs
<1>28. OrderInv(g)
  <2>1. ASSUME NEW i \in DOMAIN g.queue, NEW j \in DOMAIN g.queue,
               IsQueued(g, i), IsQueued(g, j), Leads(g, Sent(g, i), Sent(g, j))
        PROVE  Along(g, To(g, j), To(g, i)) /\ (To(g, i) = To(g, j) => i < j)
    <3>1. CASE i \in DOMAIN h.queue /\ j \in DOMAIN h.queue
      BY <1>7, <1>16, <1>18, <1>27, <2>1, <3>1 DEF OrderInv
    <3>2. CASE i \in DOMAIN h.queue /\ j - n \in DOMAIN u /\ j = n + (j - n)
      <4>1. Leads(h, Sent(h, i), u[j - n]) /\ IsQueued(h, i)
        BY <1>7, <1>18, <2>1, <3>2
      <4> QED
        BY <1>27, <3>2, <4>1 DEF OrderInv, u
    <3>3. CASE j \in DOMAIN h.queue /\ i - n \in DOMAIN u /\ i = n + (i - n)
      <4>1. Leads(h, u[i - n], Sent(h, j)) /\ IsQueued(h, j) /\ To(g, i) = x /\ To(g, j) = To(h, j)
        BY <1>7, <1>18, <2>1, <3>3
      <4>2. Along(h, To(h, j), Deferred(d))
        BY <1>27, <3>3, <4>1 DEF OrderInv, u
      <4> QED
        BY <1>16, <1>17, <4>1, <4>2
    <3>4. CASE i - n \in DOMAIN u /\ i = n + (i - n) /\ j - n \in DOMAIN u /\ j = n + (j - n)
      <4>1. Leads(h, u[i - n], u[j - n]) /\ To(g, i) = x /\ To(g, j) = x
        BY <1>7, <1>18, <2>1, <3>4
      <4>2. i - n < j - n
        BY <1>27, <3>4, <4>1 DEF OrderInv, u
      <4> QED
        BY <1>6, <1>17, <3>4, <4>1, <4>2
    <3> QED
      BY <1>5, <3>1, <3>2, <3>3, <3>4
  <2>2. ASSUME NEW e \in DOMAIN h.deferred, NEW i \in DOMAIN Messages(g, e),
               NEW j \in DOMAIN g.queue, IsQueued(g, j)
        PROVE  /\ Leads(g, Messages(g, e)[i], Sent(g, j)) => Along(g, To(g, j), Deferred(e))
               /\ ~Leads(g, Sent(g, j), Messages(g, e)[i])
    <3>0. e # d /\ i \in DOMAIN Messages(h, e) /\ Messages(g, e)[i] = Messages(h, e)[i]
      BY <1>19
    <3>1. CASE j \in DOMAIN h.queue
      BY <1>7, <1>16, <1>18, <1>27, <2>2, <3>0, <3>1 DEF OrderInv
    <3>2. CASE j - n \in DOMAIN u /\ j = n + (j - n)
      <4>1. Sent(g, j) = u[j - n]
        BY <1>7, <3>2
      <4> QED
        BY <1>18, <1>27, <3>0, <3>2, <4>1 DEF OrderInv, u
    <3> QED
      BY <1>5, <3>1, <3>2
  <2>3. \A e \in DOMAIN h.deferred : \A i \in DOMAIN Messages(g, e) :
        \A f \in DOMAIN h.deferred : \A j \in DOMAIN Messages(g, f) :
          Leads(g, Messages(g, e)[i], Messages(g, f)[j]) => e = f /\ i < j
    BY <1>18, <1>19, <1>27 DEF OrderInv
  <2> QED
    BY <2>1, <2>2, <2>3 DEF OrderInv
<1>29. ListenInv(g)
  <2>1. ListenInv(h)
    BY CoreIs
  <2>2. ASSUME NEW p \in DOMAIN h.deferred, NEW i \in DOMAIN Listeners(g, p), NEW c,
               c = Listeners(g, p)[i]
        PROVE  /\ c \in DOMAIN g.deferred /\ Self(g, c) # None /\ ~IsDone(g, c)
               /\ \A j \in DOMAIN g.queue : IsQueued(g, j) /\ Sent(g, j) = ToAnswer(c) =>
                    Along(g, To(g, j), Deferred(p))
               /\ \A e \in DOMAIN g.deferred : \A j \in DOMAIN Messages(g, e) :
                    Messages(g, e)[j] = ToAnswer(c) => e = p
    <3>1. p # d /\ i \in DOMAIN Listeners(h, p) /\ c = Listeners(h, p)[i]
      BY <1>19, <2>2
    <3>2. /\ c \in DOMAIN h.deferred /\ Self(h, c) # None /\ ~IsDone(h, c)
          /\ \A j \in DOMAIN h.queue : IsQueued(h, j) /\ Sent(h, j) = ToAnswer(c) =>
               Along(h, To(h, j), Deferred(p))
          /\ \A e \in DOMAIN h.deferred : \A j \in DOMAIN Messages(h, e) :
               Messages(h, e)[j] = ToAnswer(c) => e = p
      BY <2>1, <3>1 DEF ListenInv
    <3>3. ASSUME NEW j \in DOMAIN g.queue, IsQueued(g, j), Sent(g, j) = ToAnswer(c)
          PROVE  Along(g, To(g, j), Deferred(p))
      <4>1. CASE j \in DOMAIN h.queue
        BY <1>7, <1>16, <3>2, <3>3, <4>1
      <4>2. CASE j - n \in DOMAIN u /\ j = n + (j - n)
        <5>1. u[j - n] = ToAnswer(c)
          BY <1>7, <3>3, <4>2
        <5> QED
          BY <3>1, <3>2, <4>2, <5>1 DEF u
      <4> QED
        BY <1>5, <4>1, <4>2
    <3> QED
      BY <1>19, <3>2, <3>3 DEF SameCall
  <2>3. ASSUME NEW i \in DOMAIN g.queue, NEW j \in DOMAIN g.queue,
               g.queue[i].do = "progress", IsQueued(g, j),
               Sent(g, j) = ToAnswer(g.queue[i].of), Final(To(g, j))
        PROVE  i < j
    <3>1. CASE i \in DOMAIN h.queue /\ j \in DOMAIN h.queue
      BY <1>3, <1>7, <2>1, <2>3, <3>1 DEF ListenInv
    <3>2. CASE i \in DOMAIN h.queue /\ j - n \in DOMAIN u /\ j = n + (j - n)
      BY <1>6, <3>2
    <3>3. CASE i - n \in DOMAIN u /\ i = n + (i - n)
      <4>1. g.queue[i] = tasks[i - n]
        BY <1>2, <1>3, <3>3
      <4> QED
        BY <1>4, <2>3, <3>3, <4>1
    <3> QED
      BY <1>5, <3>1, <3>2, <3>3
  <2> QED
    BY <2>2, <2>3 DEF ListenInv
<1>30. DoneInv(g)
  <2>1. DoneInv(h)
    BY CoreIs
  <2>2. \A e \in DOMAIN g.deferred : IsDone(g, e) =>
          Self(g, e) # None /\ \E y : Final(y) /\ Knows(g, y) /\ Along(g, Self(g, e), y)
    BY <1>12, <1>16, <2>1 DEF DoneInv, SameCall
  <2>3. \A k \in 1..g.rejections :
          k \in g.unhandled
            <=> ~ \E e \in DOMAIN g.deferred : IsDone(g, e) /\ SeesRejection(g, e, k)
    BY <1>14, <1>15, <2>1, MoreSees DEF DoneInv, SameCall, SameRest
  <2> QED
    BY <2>2, <2>3 DEF DoneInv
<1>31. ASSUME NEW c, IsPlaced(h, c) PROVE IsPlaced(g, c)
  <2>1. ASSUME NEW i, IsQueued(h, i), Sent(h, i) = ToAnswer(c) PROVE IsPlaced(g, c)
    <3>1. i \in DOMAIN h.queue
      BY <2>1 DEF IsQueued
    <3> QED
      BY <1>6, <1>7, <2>1, <3>1 DEF IsPlaced
  <2>2. ASSUME NEW e \in DOMAIN h.deferred, NEW i \in DOMAIN Messages(h, e),
               Messages(h, e)[i] = ToAnswer(c)
        PROVE  IsPlaced(g, c)
    <3>1. CASE e = d
      BY <1>6, <1>7, <2>2, <3>1 DEF IsPlaced, u
    <3>2. CASE e # d
      BY <2>2, <3>2 DEF IsPlaced
    <3> QED
      BY <3>1, <3>2
  <2> QED
    BY <1>31, <2>1, <2>2 DEF IsPlaced
<1>32. \A c : IsLost(g, c) => IsLost(h, c)
  BY <1>31 DEF IsLost, SameCall
<1>33. \A e \in DOMAIN h.deferred : Len(Waiting(h, e)) <= Len(Waiting(h, e))
  BY SeqIs, CoreIs DEF ShapeInv
<1>34. Widens(h, g)
  BY <1>14, <1>33 DEF Widens, SameRest, SameCall
<1> QED
  BY <1>15, <1>20, <1>21, <1>22, <1>23, <1>25, <1>26, <1>28, <1>29, <1>30, <1>32, <1>34
  DEF Goes, Grows, CoreInv

\* Call d of then is done, with the outcome o.
HasAnswered(h, g, d, y, o) ==
  /\ DOMAIN g = MemoryFields /\ IsSeq(g.deferred) /\ DOMAIN g.deferred = DOMAIN h.deferred
  /\ g.queue = h.queue /\ g.flush = h.flush /\ g.held = h.held /\ g.late = h.late
  /\ g.rejections = h.rejections /\ g.timers = h.timers /\ g.outside = h.outside
  /\ \A k : k \in g.unhandled <=> k \in h.unhandled /\ ~(y[1] = "rejected" /\ y[2] = k)
  /\ \A e \in DOMAIN h.deferred :
       /\ DOMAIN g.deferred[e] = DeferredFields
       /\ Target(g, e) = Target(h, e) /\ Self(g, e) = Self(h, e)
       /\ Gathered(g, e) = Gathered(h, e)
       /\ OnFulfilled(g, e) = OnFulfilled(h, e) /\ OnRejected(g, e) = OnRejected(h, e)
       /\ OnProgress(g, e) = OnProgress(h, e)
       /\ Messages(g, e) = Messages(h, e) /\ Listeners(g, e) = Listeners(h, e)
       /\ e # d => IsDone(g, e) = IsDone(h, e) /\ AnswerOf(g, e) = AnswerOf(h, e)
       /\ Waiting(g, e) = IF Self(h, d) = Deferred(e) THEN Tail(Waiting(h, e)) ELSE Waiting(h, e)
  /\ IsDone(g, d) = TRUE
  /\ Self(h, d)[1] = "deferred" => AnswerOf(g, d) = o
  /\ Self(h, d)[1] # "deferred" => AnswerOf(g, d) = AnswerOf(h, d)

\* Its message has come to y, and it is the first of those that wait.
IsUpNext(h, d, y) ==
  /\ d \in DOMAIN h.deferred /\ ~IsDone(h, d) /\ Final(y) /\ Comes(h, y, ToAnswer(d))
  /\ \A i \in DOMAIN h.queue : h.queue[i].do = "progress" => h.queue[i].of # d
  /\ \A p \in DOMAIN h.deferred : Self(h, d) = Deferred(p) => Waiting(h, p)[1] = d

\* Call d of then is answered, where its message has come to y.
LEMMA Answers ==
  ASSUME NEW h, CoreInv(h), NEW d, NEW y, IsUpNext(h, d, y), NEW g, NEW o,
         HasAnswered(h, g, d, y, o)
  PROVE  /\ CoreInv(g) /\ Plain(g) = Plain(h)
         /\ \A e : IsLost(g, e) => IsLost(h, e) /\ e # d
<1>0. /\ d \in DOMAIN h.deferred /\ ~IsDone(h, d) /\ Final(y) /\ Comes(h, y, ToAnswer(d))
      /\ \A i \in DOMAIN h.queue : h.queue[i].do = "progress" => h.queue[i].of # d
      /\ \A p \in DOMAIN h.deferred : Self(h, d) = Deferred(p) => Waiting(h, p)[1] = d
      /\ DOMAIN g = MemoryFields /\ IsSeq(g.deferred) /\ DOMAIN g.deferred = DOMAIN h.deferred
      /\ g.queue = h.queue /\ g.flush = h.flush /\ g.held = h.held /\ g.late = h.late
      /\ g.rejections = h.rejections /\ g.timers = h.timers /\ g.outside = h.outside
      /\ \A k : k \in g.unhandled <=> k \in h.unhandled /\ ~(y[1] = "rejected" /\ y[2] = k)
      /\ \A e \in DOMAIN h.deferred :
           /\ DOMAIN g.deferred[e] = DeferredFields
           /\ Target(g, e) = Target(h, e) /\ Self(g, e) = Self(h, e)
           /\ Gathered(g, e) = Gathered(h, e)
           /\ OnFulfilled(g, e) = OnFulfilled(h, e) /\ OnRejected(g, e) = OnRejected(h, e)
           /\ OnProgress(g, e) = OnProgress(h, e)
           /\ Messages(g, e) = Messages(h, e) /\ Listeners(g, e) = Listeners(h, e)
           /\ e # d => IsDone(g, e) = IsDone(h, e) /\ AnswerOf(g, e) = AnswerOf(h, e)
           /\ Waiting(g, e) = IF Self(h, d) = Deferred(e) THEN Tail(Waiting(h, e))
                              ELSE Waiting(h, e)
      /\ IsDone(g, d) = TRUE
  BY DEF IsUpNext, HasAnswered
<1> USE <1>0
<1>1. Len(g.deferred) = Len(h.deferred)
  BY SameLength, CoreIs DEF TargetsInv
<1>2. Own(g) = Own(h) /\ Plain(g) = Plain(h) /\ Own(h) \subseteq DOMAIN h.deferred
  <2>1. Own(g) = Own(h) /\ Own(h) \subseteq DOMAIN h.deferred
    BY <1>1, CoreIs DEF Own
  <2> QED
    BY <2>1 DEF Plain
<1>3. \A x : Knows(g, x) <=> Knows(h, x)
  BY <1>1, <1>2 DEF Knows
<1>4. \A e \in DOMAIN h.deferred : IsResolved(g, e) <=> IsResolved(h, e)
  BY DEF IsResolved, Target
<1>5. \A x, z : Along(g, x, z) <=> Along(h, x, z)
  BY <1>4, AlongMore DEF Target
<1>6. \A a, b : Leads(g, a, b) <=> Leads(h, a, b)
  BY DEF Leads
<1>7. KnowsPromise(h, y) /\ Self(h, d) # None /\ Along(h, Self(h, d), y)
  BY MessagesDiffer DEF Comes, IsMessageAt, IsThenAt
<1>8. IsEnd(h, y) /\ \A e : y # Deferred(e)
  BY FinalEnds
<1>9. Leads(h, ToListen(d), ToAnswer(d))
  BY DEF Leads
<1>10. /\ \A j : IsQueued(h, j) => Sent(h, j) # ToListen(d)
       /\ \A e \in DOMAIN h.deferred : \A i \in DOMAIN Messages(h, e) :
            Messages(h, e)[i] # ToListen(d)
       /\ \A p \in DOMAIN h.deferred : \A i \in DOMAIN Listeners(h, p) : Listeners(h, p)[i] # d
  BY <1>8, <1>9, AlongEnd DEF Comes
<1>11. ASSUME NEW x, NEW msg, IsMessageAt(h, x, msg), msg # ToListen(d)
       PROVE  IsMessageAt(g, x, msg)
  <2>1. IsAsk(h, msg) => IsAsk(g, msg)
    BY <1>2, <1>3 DEF IsAsk
  <2>2. IsThenAt(h, x, msg) => IsThenAt(g, x, msg)
    BY <1>5, <1>11 DEF IsThenAt
  <2> QED
    BY <1>3, <1>11, <2>1, <2>2 DEF IsMessageAt, KnowsPromise
<1>12. ShapeInv(g)
  <2>1. ASSUME NEW e \in DOMAIN h.deferred PROVE IsSeq(Waiting(g, e)) /\ IsDone(g, e) \in BOOLEAN
    <3>1. IsSeq(Waiting(h, e)) /\ IsDone(h, e) \in BOOLEAN
      BY CoreIs DEF ShapeInv
    <3>2. IsDone(g, e) \in BOOLEAN
      BY <3>1
    <3>3. CASE Self(h, d) = Deferred(e)
      <4>1. \E i \in DOMAIN Waiting(h, e) : Waiting(h, e)[i] = d
        BY <3>3, CoreIs DEF WaitingInv
      <4>2. Waiting(h, e) # <<>>
        BY <4>1
      <4> QED
        BY <3>1, <3>2, <3>3, <4>2, TailIs
    <3>4. CASE Self(h, d) # Deferred(e)
      BY <3>1, <3>2, <3>4
    <3> QED
      BY <3>3, <3>4
  <2> QED
    BY <2>1, CoreIs DEF ShapeInv
<1>13. TargetsInv(g)
  BY <1>1, CoreIs DEF TargetsInv
<1>14. \A cb : /\ IsCallback(h, cb) => IsCallback(g, cb)
               /\ IsListener(h, cb) => IsListener(g, cb)
  BY <1>2, <1>3 DEF IsCallback, IsListener, KnowsPromise, KnowsValue
<1>15. KnownInv(g)
  <2>1. KnownInv(h)
    BY CoreIs
  <2>2. \A e \in DOMAIN g.deferred :
          /\ Target(g, e) = None \/ KnowsPromise(g, Target(g, e))
          /\ Gathered(g, e) # None =>
               KnowsValue(g, Gathered(g, e)) /\ e \in Own(g) /\ Self(g, e) = None
          /\ Self(g, e) # None => e \in Own(g) /\ KnowsPromise(g, Self(g, e))
    BY <1>2, <1>3, <2>1 DEF KnownInv, KnowsPromise, KnowsValue
  <2>3. \A e \in DOMAIN g.deferred :
          /\ OnFulfilled(g, e) = None \/ IsCallback(g, OnFulfilled(g, e))
          /\ OnRejected(g, e) = None
               \/ (IsCallback(g, OnRejected(g, e)) /\ OnRejected(g, e)[1] # "spread")
          /\ OnProgress(g, e) = None \/ IsListener(g, OnProgress(g, e))
    BY <1>14, <2>1 DEF KnownInv
  <2>4. \A timer \in g.timers :
          /\ timer[2] \in Plain(g) /\ timer[1] \in {"timeout", "delay"}
          /\ timer[1] = "delay" => KnowsValue(g, timer[3])
    BY <1>2, <1>3, <2>1 DEF KnownInv, KnowsValue
  <2>5. \A i \in DOMAIN g.held : Knows(g, g.held[i])
    BY <1>3, <2>1 DEF KnownInv
  <2>6. g.outside \subseteq 1..Sources \cup Plain(g) /\ g.unhandled \subseteq 1..g.rejections
    BY <1>2, <2>1 DEF KnownInv
  <2> QED
    BY <2>2, <2>3, <2>4, <2>5, <2>6 DEF KnownInv
<1>16. FlatInv(g)
  <2>1. \A e \in DOMAIN h.deferred :
          (IsAll(g, e) <=> IsAll(h, e)) /\ (IsFlat(g, e) <=> IsFlat(h, e))
    BY DEF IsAll, IsFlat
  <2> QED
    BY <1>4, <2>1, CoreIs DEF FlatInv
<1>17. QueueInv(g)
  <2>1. ASSUME NEW i \in DOMAIN h.queue PROVE IsTask(g, h.queue[i])
    <3>1. IsTask(h, h.queue[i])
      BY CoreIs DEF QueueInv
    <3>2. CASE h.queue[i].do = "dispatch"
      BY <1>10, <1>11, <3>1, <3>2 DEF IsTask, IsQueued, Sent
    <3>3. CASE h.queue[i].do # "dispatch"
      BY <1>2, <1>3, <3>1, <3>3 DEF IsTask
    <3> QED
      BY <3>2, <3>3
  <2> QED
    BY <2>1, CoreIs DEF QueueInv
<1>18. KeptInv(g)
  <2>1. KeptInv(h)
    BY CoreIs
  <2>2. \A e \in DOMAIN h.deferred : \A i \in DOMAIN Messages(h, e) :
          IsMessageAt(g, Deferred(e), Messages(h, e)[i])
    BY <1>10, <1>11, <2>1 DEF KeptInv
  <2> QED
    BY <1>4, <2>1, <2>2 DEF KeptInv
<1>19. /\ \A i : IsQueued(g, i) <=> IsQueued(h, i)
       /\ \A i : Sent(g, i) = Sent(h, i) /\ To(g, i) = To(h, i)
  BY DEF IsQueued, Sent, To
<1>20. OrderInv(g)
  BY <1>5, <1>6, <1>19, CoreIs DEF OrderInv
<1>21. WaitingInv(g)
  <2>1. WaitingInv(h)
    BY CoreIs
  <2>2. ASSUME NEW p \in DOMAIN h.deferred
        PROVE  /\ \A i \in DOMAIN Waiting(g, p) :
                    LET e == Waiting(g, p)[i]
                    IN /\ e \in DOMAIN h.deferred /\ Self(h, e) = Deferred(p) /\ ~IsDone(g, e)
                       /\ \A j \in DOMAIN Waiting(g, p) : i < j => e < Waiting(g, p)[j]
               /\ \A e \in DOMAIN h.deferred : Self(h, e) = Deferred(p) /\ ~IsDone(g, e) =>
                    \E i \in DOMAIN Waiting(g, p) : Waiting(g, p)[i] = e
    <3>1. CASE Self(h, d) = Deferred(p)
      <4> DEFINE u == Waiting(h, p)
                 v == Waiting(g, p)
                 Calls == {e \in DOMAIN h.deferred : Self(h, e) = Deferred(p) /\ ~IsDone(h, e)}
      <4>1. \E i \in DOMAIN u : u[i] = d
        BY <2>1, <3>1 DEF WaitingInv
      <4>2. IsSeq(u) /\ u # <<>> /\ v = Tail(u) /\ u[1] = d
        BY <3>1, <4>1, CoreIs DEF ShapeInv
      <4>3. /\ \A i \in DOMAIN u : u[i] \in Calls
            /\ \A i, j \in DOMAIN u : i < j => u[i] < u[j]
            /\ \A e \in Calls : \E i \in DOMAIN u : u[i] = e
        BY <2>1 DEF WaitingInv
      <4>4. /\ Len(u) \in Nat \ {0} /\ DOMAIN u = 1..Len(u) /\ DOMAIN v = 1..(Len(u) - 1)
            /\ \A i \in 1..(Len(u) - 1) : v[i] = u[i + 1]
        BY <4>2, SeqIs, TailIs
      <4>5. Calls \subseteq Int /\ d \in Calls
        BY <3>1, CoreIs
      <4> HIDE DEF u, v, Calls
      <4>6. \A i \in DOMAIN v : v[i] \in Calls \ {d}
        <5> SUFFICES ASSUME NEW i \in DOMAIN v PROVE v[i] \in Calls /\ v[i] # d
          OBVIOUS
        <5>1. i + 1 \in DOMAIN u /\ 1 \in DOMAIN u /\ 1 < i + 1 /\ v[i] = u[i + 1]
          BY <4>4
        <5>2. d < u[i + 1] /\ u[i + 1] \in Calls
          BY <4>2, <4>3, <5>1
        <5>3. \A a, b \in Int : a < b => a # b
          OBVIOUS
        <5>4. u[i + 1] \in Int /\ d \in Int
          BY <4>5, <5>2
        <5>5. u[i + 1] # d
          BY <5>2, <5>3, <5>4
        <5> QED
          BY <5>1, <5>2, <5>5
      <4>7. \A i, j \in DOMAIN v : i < j => v[i] < v[j]
        <5> SUFFICES ASSUME NEW i \in DOMAIN v, NEW j \in DOMAIN v, i < j PROVE v[i] < v[j]
          OBVIOUS
        <5>1. i + 1 \in DOMAIN u /\ j + 1 \in DOMAIN u /\ i + 1 < j + 1
          BY <4>4
        <5> QED
          BY <4>3, <4>4, <5>1
      <4>8. \A e \in Calls \ {d} : \E i \in DOMAIN v : v[i] = e
        <5> SUFFICES ASSUME NEW e \in Calls \ {d} PROVE \E i \in DOMAIN v : v[i] = e
          OBVIOUS
        <5>1. PICK i \in DOMAIN u : u[i] = e
          BY <4>3
        <5>2. i # 1
          BY <4>2, <5>1
        <5>3. i - 1 \in DOMAIN v /\ v[i - 1] = u[i]
          BY <4>4, <5>2
        <5> QED
          BY <5>1, <5>3
      <4> QED
        BY <4>6, <4>7, <4>8 DEF v, Calls
    <3>2. CASE Self(h, d) # Deferred(p)
      <4>1. Waiting(g, p) = Waiting(h, p)
        BY <3>2
      <4>2. \A i \in DOMAIN Waiting(h, p) : Waiting(h, p)[i] # d
        BY <2>1, <3>2 DEF WaitingInv
      <4> QED
        BY <2>1, <4>1, <4>2 DEF WaitingInv
    <3> QED
      BY <3>1, <3>2
  <2>3. \A e \in DOMAIN h.deferred : ~IsDone(g, e) => AnswerOf(g, e) = Pending
    BY <2>1 DEF WaitingInv
  <2> QED
    BY <2>2, <2>3 DEF WaitingInv
<1>22. ListenInv(g)
  BY <1>5, <1>10, <1>19, CoreIs DEF ListenInv
<1>23. DoneInv(g)
  <2>1. DoneInv(h)
    BY CoreIs
  <2>2. ASSUME NEW k PROVE SeesRejection(h, d, k) <=> y[1] = "rejected" /\ y[2] = k
    <3>1. ASSUME SeesRejection(h, d, k) PROVE y[1] = "rejected" /\ y[2] = k
      <4>1. PICK z : z[1] = "rejected" /\ z[2] = k /\ Along(h, Self(h, d), z)
        BY <3>1 DEF SeesRejection
      <4>2. IsEnd(h, z)
        BY <4>1, DeferredIs DEF IsEnd
      <4> QED
        BY <1>7, <1>8, <4>1, <4>2, AlongEnds
    <3>2. ASSUME y[1] = "rejected", y[2] = k PROVE SeesRejection(h, d, k)
      BY <1>7, <3>2 DEF SeesRejection
    <3> QED
      BY <3>1, <3>2
  <2>3. \A e \in DOMAIN h.deferred : \A k : SeesRejection(g, e, k) <=> SeesRejection(h, e, k)
    BY <1>5 DEF SeesRejection
  <2>4. ASSUME NEW k \in 1..h.rejections
        PROVE  k \in g.unhandled <=>
                 ~ \E e \in DOMAIN h.deferred : IsDone(g, e) /\ SeesRejection(h, e, k)
    <3>1. k \in h.unhandled <=>
            ~ \E e \in DOMAIN h.deferred : IsDone(h, e) /\ SeesRejection(h, e, k)
      BY <2>1 DEF DoneInv
    <3> QED
      BY <2>2, <3>1
  <2>5. ASSUME NEW e \in DOMAIN h.deferred, IsDone(g, e)
        PROVE  Self(h, e) # None /\ \E z : Final(z) /\ Knows(g, z) /\ Along(g, Self(h, e), z)
    <3>1. CASE e = d
      BY <1>3, <1>5, <1>7, <3>1 DEF KnowsPromise
    <3>2. CASE e # d
      BY <1>3, <1>5, <2>1, <2>5, <3>2 DEF DoneInv
    <3> QED
      BY <3>1, <3>2
  <2> QED
    BY <2>3, <2>4, <2>5 DEF DoneInv
<1>24. \A e : IsPlaced(g, e) <=> IsPlaced(h, e)
  BY <1>19 DEF IsPlaced
<1>25. \A e : IsLost(g, e) => IsLost(h, e) /\ e # d
  BY <1>24 DEF IsLost
<1> QED
  BY <1>2, <1>12, <1>13, <1>15, <1>16, <1>17, <1>18, <1>20, <1>21, <1>22, <1>23, <1>25 DEF CoreInv


-----------------------------------------------------------------------------
(* nextTick, defer and Q *)

LEMMA NextTicksIs ==
  ASSUME NEW h, CoreInv(h), NEW tasks, IsSeq(tasks)
  PROVE  LET g == NextTicks(h, tasks)
         IN /\ SameRest(h, g) /\ g.deferred = h.deferred /\ g.queue = h.queue \o tasks
            /\ (g.flush = "idle" => g.queue = <<>>) /\ g.it = h.it
<1> DEFINE g == NextTicks(h, tasks)
<1>1. DOMAIN h = MemoryFields /\ IsSeq(h.queue) /\ (h.flush = "idle" => h.queue = <<>>)
  BY CoreIs DEF ShapeInv, QueueInv
<1>2. DOMAIN g = MemoryFields
  BY <1>1 DEF NextTicks
<1>3. g.queue = h.queue \o tasks
  BY <1>1 DEF NextTicks, MemoryFields
<1>4. g.flush = IF h.flush = "idle" /\ tasks # <<>> THEN "requested" ELSE h.flush
  BY <1>1 DEF NextTicks, MemoryFields
<1>5. <<>> \o <<>> = <<>>
  OBVIOUS
<1>6. g.flush = "idle" => g.queue = <<>>
  BY <1>1, <1>3, <1>4, <1>5
<1>7. /\ g.timers = h.timers /\ g.rejections = h.rejections /\ g.unhandled = h.unhandled
      /\ g.outside = h.outside /\ g.held = h.held /\ g.late = h.late
      /\ g.deferred = h.deferred /\ g.it = h.it
  BY <1>1 DEF NextTicks, MemoryFields
<1> QED
  BY <1>2, <1>3, <1>6, <1>7 DEF SameRest

LEMMA NextTickIs ==
  ASSUME NEW h, CoreInv(h), NEW task
  PROVE  LET g == NextTick(h, task)
         IN /\ SameRest(h, g) /\ g.deferred = h.deferred /\ g.queue = h.queue \o <<task>>
            /\ g.flush # "idle" /\ g.it = h.it
<1> DEFINE g == NextTick(h, task)
<1>1. DOMAIN h = MemoryFields /\ IsSeq(h.queue)
  BY CoreIs DEF ShapeInv
<1>2. DOMAIN g = MemoryFields
  BY <1>1 DEF NextTick
<1>3. Append(h.queue, task) = h.queue \o <<task>>
  <2>1. PICK V : h.queue \in Seq(V)
    BY <1>1 DEF IsSeq
  <2>2. h.queue \in Seq(V \cup {task}) /\ task \in V \cup {task}
    BY <2>1
  <2> QED
    BY <2>2, AppendIsConcat
<1>4. g.queue = Append(h.queue, task)
  BY <1>1 DEF NextTick, MemoryFields
<1>5. g.flush = IF h.flush = "idle" THEN "requested" ELSE h.flush
  BY <1>1 DEF NextTick, MemoryFields
<1>6. /\ g.timers = h.timers /\ g.rejections = h.rejections /\ g.unhandled = h.unhandled
      /\ g.outside = h.outside /\ g.held = h.held /\ g.late = h.late
      /\ g.deferred = h.deferred /\ g.it = h.it
  BY <1>1 DEF NextTick, MemoryFields
<1> QED
  BY <1>2, <1>3, <1>4, <1>5, <1>6 DEF SameRest

LEMMA OneIsSeq ==
  ASSUME NEW x
  PROVE  IsSeq(<<x>>) /\ DOMAIN <<x>> = {1} /\ <<x>>[1] = x
<1>1. <<x>> \in Seq({x})
  OBVIOUS
<1>2. IsSeq(<<x>>)
  BY <1>1, Zenon DEF IsSeq
<1>3. Len(<<x>>) = 1 /\ <<x>>[1] = x
  OBVIOUS
<1>4. DOMAIN <<x>> = 1..1
  BY <1>1, <1>3
<1>5. DOMAIN <<x>> = {1}
  BY <1>4
<1> QED
  BY <1>2, <1>3, <1>5

LEMMA PostsOne ==
  ASSUME NEW h, CoreInv(h), NEW task, IsTask(h, task),
         task.do = "dispatch" => MayPost(h, task.to, task.msg), task.do # "progress"
  PROVE  LET g == NextTick(h, task)
         IN /\ Goes(h, g) /\ g.deferred = h.deferred /\ g.it = h.it
            /\ g.rejections = h.rejections
            /\ g.queue = h.queue \o <<task>>
            /\ \A d : task.do = "dispatch" /\ task.msg = ToAnswer(d) => IsPlaced(g, d)
<1> DEFINE g == NextTick(h, task)
           tasks == <<task>>
<1>1. IsSeq(tasks) /\ DOMAIN tasks = {1} /\ tasks[1] = task
  BY OneIsSeq
<1>2. /\ SameRest(h, g) /\ g.deferred = h.deferred /\ g.queue = h.queue \o tasks
      /\ g.flush # "idle" /\ g.it = h.it
  BY NextTickIs
<1> HIDE DEF g, tasks
<1>3. /\ Goes(h, g)
      /\ task.do = "dispatch" =>
           IsQueued(g, Len(h.queue) + 1) /\ Sent(g, Len(h.queue) + 1) = task.msg
  <2>1. ArePosts(h, tasks)
    BY <1>1 DEF ArePosts
  <2>2. /\ Goes(h, g)
        /\ \A i \in DOMAIN tasks : tasks[i].do = "dispatch" =>
              IsQueued(g, Len(h.queue) + i) /\ Sent(g, Len(h.queue) + i) = tasks[i].msg
                /\ To(g, Len(h.queue) + i) = tasks[i].to
    <3>1. g.flush = "idle" => g.queue = <<>>
      BY <1>2
    <3>2. IsSeq(tasks)
      BY <1>1
    <3>3. SameRest(h, g) /\ g.deferred = h.deferred /\ g.queue = h.queue \o tasks
      BY <1>2
    <3> QED
      BY ONLY CoreInv(h), <2>1, <3>1, <3>2, <3>3, Posts
  <2> QED
    BY <1>1, <2>2
<1>4. g.rejections = h.rejections
  BY <1>2 DEF SameRest
<1>5. ASSUME NEW d, task.do = "dispatch", task.msg = ToAnswer(d) PROVE IsPlaced(g, d)
  <2>1. Len(h.queue) + 1 \in DOMAIN g.queue
    BY <1>3, <1>5 DEF IsQueued
  <2> QED
    BY <1>3, <1>5, <2>1 DEF IsPlaced
<1> QED
  BY <1>2, <1>3, <1>4, <1>5 DEF g, tasks

\* A new value of a step, and what else no invariant looks at.
LEMMA GivesIs ==
  ASSUME NEW h, CoreInv(h), NEW x
  PROVE  /\ LET g == Gives(h, x)
            IN /\ Goes(h, g) /\ g.deferred = h.deferred /\ g.it = x
               /\ g.rejections = h.rejections /\ Plain(g) = Plain(h) /\ g.queue = h.queue
         /\ LET g == Throws(h, x)
            IN /\ Goes(h, g) /\ g.deferred = h.deferred /\ g.it = <<"throw", x>>
               /\ g.rejections = h.rejections /\ Plain(g) = Plain(h) /\ g.queue = h.queue
<1>1. DOMAIN h = MemoryFields
  BY CoreIs DEF ShapeInv
<1>2. /\ h.outside \subseteq 1..Sources \cup Plain(h)
  BY CoreIs DEF KnownInv
<1>3. ASSUME NEW y
      PROVE  LET g == [h EXCEPT !.it = y]
             IN /\ Goes(h, g) /\ g.deferred = h.deferred /\ g.it = y
                /\ g.rejections = h.rejections /\ Plain(g) = Plain(h) /\ g.queue = h.queue
  <2> DEFINE g == [h EXCEPT !.it = y]
  <2>1. /\ DOMAIN g = MemoryFields /\ g.deferred = h.deferred
        /\ g.queue = h.queue /\ g.flush = h.flush /\ g.held = h.held /\ g.late = h.late
        /\ g.rejections = h.rejections /\ g.unhandled = h.unhandled
        /\ g.timers = h.timers /\ g.outside = h.outside /\ g.it = y
    BY <1>1 DEF MemoryFields
  <2> HIDE DEF g
  <2>2. Goes(h, g) /\ Plain(g) = Plain(h)
    BY <1>2, <2>1, Alike
  <2> QED
    BY <2>1, <2>2 DEF g
<1> QED
  BY <1>3 DEF Gives, Throws

LEMMA RejectionIs ==
  ASSUME NEW h, CoreInv(h), NEW e, KnowsValue(h, e)
  PROVE  LET g == Rejection(h, e)
         IN /\ Goes(h, g) /\ g.deferred = h.deferred /\ Plain(g) = Plain(h)
            /\ KnowsPromise(g, g.it) /\ g.it[1] = "rejected"
<1> DEFINE g == Rejection(h, e)
<1>1. DOMAIN h = MemoryFields /\ h.rejections \in Nat
  BY CoreIs DEF ShapeInv
<1>2. /\ DOMAIN g = MemoryFields /\ g.deferred = h.deferred
      /\ g.queue = h.queue /\ g.flush = h.flush /\ g.held = h.held /\ g.late = h.late
      /\ g.rejections = h.rejections + 1 /\ g.unhandled = h.unhandled \cup {h.rejections + 1}
      /\ g.timers = h.timers /\ g.outside = h.outside
      /\ g.it = <<"rejected", h.rejections + 1, e>>
  BY <1>1 DEF Rejection, MemoryFields
<1>3. h.outside \subseteq 1..Sources \cup Plain(h)
  BY CoreIs DEF KnownInv
<1> HIDE DEF g
<1>4. Goes(h, g) /\ Plain(g) = Plain(h)
  BY <1>2, <1>3, Alike
<1>5. KnowsValue(g, e)
  BY <1>4, MoreKnows DEF Goes, Grows, Widens, KnowsValue
<1>6. g.rejections \in 1..g.rejections
  BY <1>1, <1>2
<1>7. KnowsPromise(g, g.it) /\ g.it[1] = "rejected"
  BY <1>2, <1>5, <1>6, KnownRejected DEF KnowsValue, KnowsPromise, Knows, Final
<1> QED
  BY <1>2, <1>4, <1>7 DEF g


LEMMA NewDeferredIs ==
  /\ DOMAIN NewDeferred = DeferredFields
  /\ NewDeferred.target = None /\ NewDeferred.messages = <<>> /\ NewDeferred.listeners = <<>>
  /\ NewDeferred.self = None /\ NewDeferred.fulfilled = None /\ NewDeferred.rejected = None
  /\ NewDeferred.progressed = None /\ NewDeferred.done = FALSE /\ NewDeferred.answer = Pending
  /\ NewDeferred.array = None /\ NewDeferred.waiting = <<>>
BY DEF NewDeferred, DeferredFields

LEMMA NoPromiseIsNone == \A d : None # Deferred(d) /\ ~IsPromise(None)
<1>1. None[1] = "none"
  BY DEF None
<1> QED
  BY <1>1, DeferredIs DEF IsPromise

\* Nothing has happened to the deferred yet.
IsFresh(g, n) ==
  /\ DOMAIN g.deferred[n] = DeferredFields /\ Target(g, n) = None
  /\ Messages(g, n) = <<>> /\ Listeners(g, n) = <<>> /\ Waiting(g, n) = <<>>
  /\ IsDone(g, n) = FALSE /\ AnswerOf(g, n) = Pending

\* The deferred n is new, and of no call of then; it has the array a or none.
IsAdded(h, g, n, a) ==
  /\ n = Len(h.deferred) + 1 /\ IsSeq(g.deferred) /\ Len(g.deferred) = n
  /\ \A d \in DOMAIN h.deferred : g.deferred[d] = h.deferred[d]
  /\ IsFresh(g, n) /\ Self(g, n) = None /\ Gathered(g, n) = a
  /\ OnFulfilled(g, n) = None /\ OnRejected(g, n) = None /\ OnProgress(g, n) = None

LEMMA OpensPlain ==
  ASSUME NEW h, CoreInv(h), NEW g, SameRest(h, g), g.queue = h.queue, g.flush = h.flush,
         NEW n, NEW a, a = None \/ KnowsValue(h, a), IsAdded(h, g, n, a)
  PROVE  /\ Goes(h, g) /\ n \in DOMAIN g.deferred /\ n \notin DOMAIN h.deferred /\ n \in Own(g)
         /\ a = None => n \in Plain(g)
         /\ Target(g, n) = None /\ Gathered(g, n) = a
<1> USE DEF IsAdded
<1>1. /\ DOMAIN g.deferred[n] = DeferredFields /\ Target(g, n) = None
      /\ Messages(g, n) = <<>> /\ Listeners(g, n) = <<>> /\ Waiting(g, n) = <<>>
      /\ IsDone(g, n) = FALSE /\ AnswerOf(g, n) = Pending
  BY DEF IsFresh
<1>2. \A d \in DOMAIN h.deferred :
        /\ SameCall(h, g, d) /\ Target(g, d) = Target(h, d)
        /\ Messages(g, d) = Messages(h, d) /\ Listeners(g, d) = Listeners(h, d)
        /\ Waiting(g, d) = Waiting(h, d)
  BY CoreIs
     DEF SameCall, Target, Messages, Listeners, Waiting, IsDone, AnswerOf, Self, Gathered,
         OnFulfilled, OnRejected, OnProgress, ShapeInv
<1>3. OnFulfilled(g, n) # <<"spread", <<"same">>>>
  <2>1. None[1] = "none" /\ <<"spread", <<"same">>>>[1] = "spread"
    BY DEF None
  <2> QED
    BY <1>1, <2>1
<1>4. /\ CoreInv(g) /\ Widens(h, g)
      /\ \A d : IsLost(g, d) => IsLost(h, d) \/ (d = n /\ Self(g, n) # None)
  <2>1. \A d \in DOMAIN h.deferred :
        /\ SameCall(h, g, d) /\ Target(g, d) = Target(h, d)
        /\ Messages(g, d) = Messages(h, d) /\ Listeners(g, d) = Listeners(h, d)
        /\ Self(g, n) = Deferred(d) => Waiting(g, d) = Append(Waiting(h, d), n)
        /\ Self(g, n) # Deferred(d) => Waiting(g, d) = Waiting(h, d)
    BY <1>1, <1>2, NoPromiseIsNone
  <2>2. /\ Self(g, n) = None \/ KnowsPromise(h, Self(g, n))
        /\ Gathered(g, n) = None \/ (KnowsValue(h, Gathered(g, n)) /\ Self(g, n) = None)
        /\ OnFulfilled(g, n) = None \/ IsCallback(h, OnFulfilled(g, n))
        /\ OnRejected(g, n) = None
             \/ (IsCallback(h, OnRejected(g, n)) /\ OnRejected(g, n)[1] # "spread")
        /\ OnProgress(g, n) = None \/ IsListener(h, OnProgress(g, n))
        /\ OnFulfilled(g, n) = <<"spread", <<"same">>>> =>
             \E e \in DOMAIN h.deferred : Self(g, n) = Deferred(e) /\ IsAll(h, e)
    BY <1>3
  <2>3. IsOpened(h, g, n)
    BY <1>1, <2>1, <2>2 DEF IsOpened
  <2> QED
    BY <2>3, Opens
<1>5. n \in DOMAIN g.deferred /\ n \notin DOMAIN h.deferred /\ n \in Own(g)
  <2> DEFINE p == Len(h.deferred)
  <2>1. p \in Nat /\ DOMAIN h.deferred = 1..p /\ Sources \in Nat /\ Sources <= p
    BY CoreIs, SourcesAssumption
  <2>2. DOMAIN g.deferred = 1..n /\ Own(g) = (Sources + 1)..n
    BY SeqIs DEF Own
  <2>3. n = p + 1
    OBVIOUS
  <2> HIDE DEF p
  <2> QED
    BY <2>1, <2>2, <2>3
<1> QED
  BY <1>1, <1>4, <1>5 DEF Goes, Grows, Plain

LEMMA DeferIs ==
  ASSUME NEW h, CoreInv(h)
  PROVE  LET g == Defer(h)
             n == Len(h.deferred) + 1
         IN /\ Goes(h, g) /\ g.it = Deferred(n) /\ Len(g.deferred) = n /\ n \in Plain(g)
            /\ n \in DOMAIN g.deferred /\ n \notin DOMAIN h.deferred
            /\ \A d \in DOMAIN h.deferred : g.deferred[d] = h.deferred[d]
<1> DEFINE g == Defer(h)
           n == Len(h.deferred) + 1
<1>1. DOMAIN h = MemoryFields /\ IsSeq(h.deferred) /\ DOMAIN h.deferred = 1..Len(h.deferred)
  BY CoreIs DEF ShapeInv, TargetsInv
<1>2. /\ g.deferred = Append(h.deferred, NewDeferred)
      /\ g.queue = h.queue /\ g.flush = h.flush /\ g.it = Deferred(n)
  BY <1>1 DEF Defer, MemoryFields
<1>3. SameRest(h, g)
  BY <1>1 DEF Defer, SameRest, MemoryFields
<1> HIDE DEF g
<1>5. /\ IsSeq(g.deferred) /\ Len(g.deferred) = n
      /\ \A d \in DOMAIN h.deferred : g.deferred[d] = h.deferred[d]
      /\ g.deferred[n] = NewDeferred
  BY <1>1, <1>2, AppendIs
<1>6. /\ Goes(h, g) /\ n \in DOMAIN g.deferred /\ n \notin DOMAIN h.deferred /\ n \in Plain(g)
  <2>1. /\ IsFresh(g, n) /\ Self(g, n) = None /\ OnFulfilled(g, n) = None
        /\ OnRejected(g, n) = None /\ OnProgress(g, n) = None /\ Gathered(g, n) = None
    BY <1>5, NewDeferredIs
       DEF IsFresh, Target, Messages, Listeners, Waiting, IsDone, AnswerOf, Self, Gathered,
           OnFulfilled, OnRejected, OnProgress
  <2>2. IsAdded(h, g, n, None)
    BY <1>5, <2>1 DEF IsAdded
  <2> HIDE DEF n
  <2> QED
    BY <1>2, <1>3, <2>2, OpensPlain
<1> QED
  BY <1>2, <1>5, <1>6 DEF g


\* The deferreds that were there are as they were.
SameBefore(h, g) == \A d \in DOMAIN h.deferred : g.deferred[d] = h.deferred[d]

LEMMA ToPromiseIs ==
  ASSUME NEW h, CoreInv(h), NEW x, Knows(h, x)
  PROVE  LET g == ToPromise(h, x)
         IN /\ Goes(h, g) /\ KnowsPromise(g, g.it) /\ SameBefore(h, g)
            /\ IsPromise(x) => g.it = x /\ g.deferred = h.deferred
            /\ ~IsPromise(x) /\ x[1] # "thenable" =>
                 g.it = Fulfilled(x) /\ g.deferred = h.deferred
            /\ x[1] = "thenable" => g.it = Deferred(Len(h.deferred) + 1) /\ ~IsPromise(x)
            /\ g.it[1] = "deferred" => g.it = x \/ g.it[2] \notin DOMAIN h.deferred
<1> DEFINE g == ToPromise(h, x)
<1>1. CASE IsPromise(x)
  <2>1. g = Gives(h, x) /\ x[1] # "thenable"
    BY <1>1 DEF ToPromise, IsPromise
  <2> HIDE DEF g
  <2>2. Goes(h, g) /\ g.deferred = h.deferred /\ g.it = x
    BY <2>1, GivesIs
  <2>3. KnowsPromise(g, g.it)
    BY <1>1, <2>2, MoreKnows DEF KnowsPromise, Goes, Grows, Widens
  <2> QED
    BY <1>1, <2>1, <2>2, <2>3 DEF SameBefore, g
<1>2. CASE x[1] = "thenable"
  <2> DEFINE k == Defer(h)
             n == Len(h.deferred) + 1
             task == [do |-> "coerce", thenable |-> x, deferred |-> n]
  <2>1. ~IsPromise(x)
    BY <1>2 DEF IsPromise
  <2>2. /\ Goes(h, k) /\ k.it = Deferred(n) /\ Len(k.deferred) = n /\ n \in Plain(k)
        /\ n \in DOMAIN k.deferred /\ n \notin DOMAIN h.deferred
        /\ SameBefore(h, k)
    BY DeferIs DEF SameBefore
  <2>3. g = NextTick(k, task)
    BY <1>2, <2>1, <2>2 DEF ToPromise
  <2>4. IsTask(k, task) /\ task.do = "coerce"
    <3>1. x[2] \in {"throws", "keeps"}
      BY <1>2, KnownIs DEF Knows
    <3> HIDE DEF k, n
    <3> QED
      BY <2>2, <3>1 DEF IsTask
  <2>5. CoreInv(k)
    BY <2>2 DEF Goes
  <2> HIDE DEF k, n, task, g
  <2>6. Goes(k, g) /\ g.deferred = k.deferred /\ g.it = k.it
    BY <2>3, <2>4, <2>5, PostsOne
  <2>7. Goes(h, g)
    BY <2>2, <2>6, GoesTrans
  <2>8. KnowsPromise(g, g.it)
    <3>1. n \in 1..Len(g.deferred)
      BY <2>2, <2>5, <2>6, CoreIs
    <3> QED
      BY <2>2, <2>6, <3>1, KnownDeferred DEF KnowsPromise, Knows
  <2> QED
    BY <1>2, <2>1, <2>2, <2>6, <2>7, <2>8, DeferredIs DEF SameBefore, g, n
<1>3. CASE ~IsPromise(x) /\ x[1] # "thenable"
  <2>1. g = Gives(h, Fulfilled(x))
    BY <1>3 DEF ToPromise
  <2> HIDE DEF g
  <2>2. Goes(h, g) /\ g.deferred = h.deferred /\ g.it = Fulfilled(x)
    BY <2>1, GivesIs
  <2>3. Knows(g, x)
    BY <2>2, MoreKnows DEF Goes, Grows, Widens
  <2>4. KnowsPromise(g, g.it) /\ g.it[1] # "deferred"
    BY <1>3, <2>2, <2>3, KnownFulfilled DEF KnowsPromise, Knows, Final
  <2> QED
    BY <1>3, <2>2, <2>4 DEF SameBefore, g
<1> QED
  BY <1>1, <1>2, <1>3

LEMMA BecomeIs ==
  ASSUME NEW h, CoreInv(h), NEW d, NEW x, ~IsResolved(h, d), MayBecome(h, d, x)
  PROVE  Goes(h, Become(h, d, x))
<1> DEFINE msgs == Messages(h, d)
           tasks == [i \in 1..Len(msgs) |-> Dispatching(x, msgs[i])]
           k == NextTicks(h, tasks)
           g == Become(h, d, x)
           r == [h.deferred[d] EXCEPT !.target = x, !.messages = <<>>, !.listeners = <<>>]
<1>1. d \in DOMAIN h.deferred
  BY DEF MayBecome
<1>2. IsSeq(msgs) /\ Len(msgs) \in Nat /\ DOMAIN msgs = 1..Len(msgs)
  BY <1>1, SeqIs, CoreIs DEF ShapeInv
<1>3. IsSeq(tasks) /\ DOMAIN tasks = DOMAIN msgs
  <2> HIDE DEF msgs
  <2>1. DOMAIN tasks = 1..Len(msgs) /\ tasks = [i \in DOMAIN tasks |-> tasks[i]]
    OBVIOUS
  <2> HIDE DEF tasks
  <2> QED
    BY <1>2, <2>1, IsSeqIs
<1>4. \A i \in DOMAIN tasks : tasks[i] = Dispatching(x, msgs[i])
  OBVIOUS
<1>5. g = [k EXCEPT !.deferred[d] =
             [@ EXCEPT !.target = x, !.messages = <<>>, !.listeners = <<>>]]
  BY DEF Become, Messages
<1> HIDE DEF g, tasks
<1>6. /\ SameRest(h, k) /\ k.deferred = h.deferred /\ k.queue = h.queue \o tasks
      /\ (k.flush = "idle" => k.queue = <<>>)
  BY <1>3, NextTicksIs
<1> HIDE DEF k
<1>7. DOMAIN k = MemoryFields
  BY <1>6 DEF SameRest
<1>8. /\ g.deferred = [h.deferred EXCEPT ![d] = r]
      /\ SameRest(h, g) /\ g.queue = k.queue /\ g.flush = k.flush
  <2>1. g.deferred = [h.deferred EXCEPT ![d] = r]
    BY <1>5, <1>6, <1>7 DEF MemoryFields
  <2>2. g.queue = k.queue /\ g.flush = k.flush
    BY <1>5, <1>7 DEF MemoryFields
  <2>3. SameRest(h, g)
    BY <1>5, <1>6, <1>7 DEF SameRest, MemoryFields
  <2> QED
    BY <2>1, <2>2, <2>3
<1>9. /\ DOMAIN r = DeferredFields
      /\ r.target = x /\ r.messages = <<>> /\ r.listeners = <<>>
      /\ r.self = h.deferred[d].self /\ r.fulfilled = h.deferred[d].fulfilled
      /\ r.rejected = h.deferred[d].rejected /\ r.progressed = h.deferred[d].progressed
      /\ r.done = h.deferred[d].done /\ r.answer = h.deferred[d].answer
      /\ r.array = h.deferred[d].array /\ r.waiting = h.deferred[d].waiting
  <2>1. DOMAIN h.deferred[d] = DeferredFields
    BY <1>1, CoreIs DEF ShapeInv
  <2> QED
    BY <2>1 DEF DeferredFields
<1> HIDE DEF r
<1>10. /\ DOMAIN g.deferred = DOMAIN h.deferred /\ g.deferred[d] = r
       /\ \A e \in DOMAIN h.deferred : e # d => g.deferred[e] = h.deferred[e]
  BY <1>1, <1>8
<1>11. IsSeq(g.deferred)
  <2>1. g.deferred = [e \in DOMAIN g.deferred |-> g.deferred[e]]
    BY <1>8
  <2> QED
    BY <1>10, <2>1, IsSeqIs, CoreIs
<1>12. \A e \in DOMAIN h.deferred : SameCall(h, g, e) /\ Waiting(g, e) = Waiting(h, e)
  <2>1. SameCall(h, g, d) /\ Waiting(g, d) = Waiting(h, d)
    BY <1>9, <1>10 DEF SameCall, Self, Gathered, OnFulfilled, OnRejected, OnProgress, IsDone,
                       AnswerOf, Waiting
  <2>2. \A e \in DOMAIN h.deferred : DOMAIN h.deferred[e] = DeferredFields
    BY CoreIs DEF ShapeInv
  <2>3. \A e \in DOMAIN h.deferred : e # d => SameCall(h, g, e) /\ Waiting(g, e) = Waiting(h, e)
    BY <1>10, <2>2 DEF SameCall, Self, Gathered, OnFulfilled, OnRejected, OnProgress, IsDone,
                       AnswerOf, Waiting
  <2> QED
    BY <2>1, <2>3
<1>13. /\ Target(g, d) = x /\ Messages(g, d) = <<>> /\ Listeners(g, d) = <<>>
       /\ \A e \in DOMAIN h.deferred : e # d =>
            /\ Target(g, e) = Target(h, e) /\ Messages(g, e) = Messages(h, e)
            /\ Listeners(g, e) = Listeners(h, e)
  BY <1>9, <1>10 DEF Target, Messages, Listeners
<1>14. \A e \in DOMAIN h.deferred :
         /\ SameCall(h, g, e) /\ Waiting(g, e) = Waiting(h, e)
         /\ e # d => /\ Target(g, e) = Target(h, e) /\ Messages(g, e) = Messages(h, e)
                     /\ Listeners(g, e) = Listeners(h, e)
  BY <1>12, <1>13
<1>15. g.queue = h.queue \o tasks /\ (g.flush = "idle" => g.queue = <<>>)
  BY <1>6, <1>8
<1>16. \A i \in DOMAIN tasks : tasks[i] = Dispatching(x, Messages(h, d)[i])
  BY <1>4
<1>17. DOMAIN tasks = DOMAIN Messages(h, d) /\ IsSeq(tasks)
  BY <1>3
<1> HIDE DEF msgs
<1>18. HasBecome(h, g, d, x, tasks)
  BY <1>8, <1>10, <1>11, <1>13, <1>14, <1>15, <1>16, <1>17 DEF HasBecome
<1> QED
  BY <1>18, Becomes DEF g


\* d may be resolved with x.
MayResolve(h, d, x) ==
  /\ d \in DOMAIN h.deferred /\ Knows(h, x)
  /\ x[1] = "deferred" => Before(d, x[2])
  /\ x[1] = "thenable" => d \in Own(h)
  /\ IsFlat(h, d) =>
       x[1] = "rejected" \/ (~IsPromise(x) /\ x[1] # "thenable" /\ LooseItems(x))
  /\ IsAll(h, d) =>
       x[1] = "rejected" \/ \E e \in DOMAIN h.deferred : x = Deferred(e) /\ IsFlat(h, e)

LEMMA SameBeforeIs ==
  ASSUME NEW h, NEW g, SameBefore(h, g), NEW d \in DOMAIN h.deferred
  PROVE  /\ IsResolved(g, d) <=> IsResolved(h, d)
         /\ IsFlat(g, d) <=> IsFlat(h, d)
         /\ IsAll(g, d) <=> IsAll(h, d)
BY DEF SameBefore, IsResolved, IsFlat, IsAll, Gathered, Target, OnFulfilled, OnRejected, Self

LEMMA ResolveIs ==
  ASSUME NEW h, CoreInv(h), NEW d, NEW x, MayResolve(h, d, x)
  PROVE  Goes(h, Resolve(h, d, x))
<1>1. d \in DOMAIN h.deferred /\ Knows(h, x)
  BY DEF MayResolve
<1>2. CASE IsResolved(h, d)
  BY <1>2, GoesSelf DEF Resolve
<1>3. CASE ~IsResolved(h, d)
  <2> DEFINE g == ToPromise(h, x)
  <2>1. Resolve(h, d, x) = Become(g, d, g.it)
    BY <1>3 DEF Resolve
  <2>2. /\ Goes(h, g) /\ KnowsPromise(g, g.it) /\ SameBefore(h, g)
        /\ IsPromise(x) => g.it = x
        /\ ~IsPromise(x) /\ x[1] # "thenable" => g.it = Fulfilled(x)
        /\ x[1] = "thenable" => g.it = Deferred(Len(h.deferred) + 1) /\ ~IsPromise(x)
    BY <1>1, ToPromiseIs
  <2> HIDE DEF g
  <2>3. CoreInv(g) /\ DOMAIN h.deferred \subseteq DOMAIN g.deferred
    BY <2>2, MoreKnows DEF Goes, Grows, Widens
  <2>4. MayBecome(g, d, g.it)
    <3>1. g.it[1] = "deferred" => Before(d, g.it[2])
      <4>1. CASE IsPromise(x)
        BY <2>2, <4>1 DEF MayResolve
      <4>2. CASE x[1] = "thenable"
        <5>1. d \in (Sources + 1)..Len(h.deferred) /\ g.it[2] = Len(h.deferred) + 1
          BY <2>2, <4>2, DeferredIs DEF MayResolve, Own
        <5> QED
          BY <5>1, CoreIs, SourcesAssumption DEF Before
      <4>3. CASE ~IsPromise(x) /\ x[1] # "thenable"
        BY <2>2, <4>3 DEF Fulfilled
      <4> QED
        BY <4>1, <4>2, <4>3
    <3>2. IsFlat(g, d) =>
            g.it[1] = "rejected" \/ (g.it[1] = "fulfilled" /\ LooseItems(g.it[2]))
      BY <1>1, <2>2, SameBeforeIs DEF MayResolve, Fulfilled, IsPromise
    <3>3. IsAll(g, d) =>
            g.it[1] = "rejected"
              \/ \E e \in DOMAIN g.deferred : g.it = Deferred(e) /\ IsFlat(g, e)
      <4> SUFFICES ASSUME IsAll(g, d)
                   PROVE  g.it[1] = "rejected"
                            \/ \E e \in DOMAIN g.deferred : g.it = Deferred(e) /\ IsFlat(g, e)
        OBVIOUS
      <4>1. x[1] = "rejected" \/ \E e \in DOMAIN h.deferred : x = Deferred(e) /\ IsFlat(h, e)
        BY <1>1, <2>2, SameBeforeIs DEF MayResolve
      <4>2. g.it = x
        BY <2>2, <4>1, DeferredIs DEF IsPromise
      <4> QED
        BY <2>2, <2>3, <4>1, <4>2, SameBeforeIs
    <3> QED
      BY <1>1, <2>2, <2>3, <3>1, <3>2, <3>3 DEF MayBecome
  <2>5. ~IsResolved(g, d)
    BY <1>1, <1>3, <2>2, SameBeforeIs
  <2>6. Goes(g, Become(g, d, g.it))
    BY <2>3, <2>4, <2>5, BecomeIs
  <2> QED
    BY <2>1, <2>2, <2>6, GoesTrans
<1> QED
  BY <1>2, <1>3

LEMMA RejectIs ==
  ASSUME NEW h, CoreInv(h), NEW d \in DOMAIN h.deferred, NEW e, KnowsValue(h, e)
  PROVE  Goes(h, Reject(h, d, e))
<1>1. CASE IsResolved(h, d)
  BY <1>1, GoesSelf DEF Reject
<1>2. CASE ~IsResolved(h, d)
  <2> DEFINE g == Rejection(h, e)
  <2>1. Reject(h, d, e) = Become(g, d, g.it)
    BY <1>2 DEF Reject
  <2>2. /\ Goes(h, g) /\ g.deferred = h.deferred /\ KnowsPromise(g, g.it)
        /\ g.it[1] = "rejected"
    BY RejectionIs
  <2> HIDE DEF g
  <2>3. MayBecome(g, d, g.it) /\ ~IsResolved(g, d) /\ CoreInv(g)
    BY <1>2, <2>2 DEF MayBecome, IsResolved, Goes
  <2>4. Goes(g, Become(g, d, g.it))
    BY <2>3, BecomeIs
  <2> QED
    BY <2>1, <2>2, <2>4, GoesTrans
<1> QED
  BY <1>1, <1>2

LEMMA NotifyIs ==
  ASSUME NEW h, CoreInv(h), NEW d \in DOMAIN h.deferred, NEW x, Knows(h, x)
  PROVE  Goes(h, Notify(h, d, x))
<1>1. CASE IsResolved(h, d)
  BY <1>1, GoesSelf DEF Notify
<1>2. CASE ~IsResolved(h, d)
  <2> DEFINE calls == Listeners(h, d)
             tasks == [i \in 1..Len(calls) |-> [do |-> "progress", of |-> calls[i], value |-> x]]
             g == NextTicks(h, tasks)
  <2>1. Notify(h, d, x) = g
    BY <1>2 DEF Notify, Listeners
  <2>2. Len(calls) \in Nat /\ DOMAIN calls = 1..Len(calls)
    BY SeqIs, CoreIs DEF ShapeInv
  <2>3. DOMAIN tasks = 1..Len(calls) /\ tasks = [i \in DOMAIN tasks |-> tasks[i]]
    OBVIOUS
  <2>4. \A i \in DOMAIN tasks :
          tasks[i].do = "progress" /\ tasks[i].of = calls[i] /\ tasks[i].value = x
    BY <2>3
  <2> HIDE DEF tasks
  <2>5. IsSeq(tasks)
    BY <2>2, <2>3, IsSeqIs
  <2>6. ASSUME NEW i \in DOMAIN tasks
        PROVE  IsTask(h, tasks[i]) /\ MayTell(h, tasks[i].of)
    <3>1. /\ calls[i] \in DOMAIN h.deferred /\ Self(h, calls[i]) # None /\ ~IsDone(h, calls[i])
          /\ \A j \in DOMAIN h.queue : IsQueued(h, j) /\ Sent(h, j) = ToAnswer(calls[i]) =>
               Along(h, To(h, j), Deferred(d))
      BY <2>2, <2>3, CoreIs DEF ListenInv
    <3>2. IsTask(h, tasks[i])
      BY <2>4, <3>1 DEF IsTask
    <3>3. MayTell(h, calls[i])
      BY <3>1, FinalEnds, AlongEnd DEF MayTell, IsQueued
    <3> QED
      BY <2>4, <3>2, <3>3
  <2>7. ArePosts(h, tasks)
    BY <2>4, <2>6 DEF ArePosts
  <2>8. /\ SameRest(h, g) /\ g.deferred = h.deferred /\ g.queue = h.queue \o tasks
        /\ (g.flush = "idle" => g.queue = <<>>)
    BY <2>5, NextTicksIs
  <2> HIDE DEF g, calls
  <2>9. Goes(h, g)
    BY <2>5, <2>7, <2>8, Posts
  <2> QED
    BY <2>1, <2>9
<1> QED
  BY <1>1, <1>2

LEMMA SendIs ==
  ASSUME NEW h, CoreInv(h), NEW d \in DOMAIN h.deferred, NEW msg, Comes(h, Deferred(d), msg)
  PROVE  LET g == Send(h, d, msg)
         IN Goes(h, g) /\ \A c : msg = ToAnswer(c) => IsPlaced(g, c)
<1> DEFINE g == Send(h, d, msg)
<1>1. CASE IsResolved(h, d)
  <2> DEFINE task == Dispatching(Target(h, d), msg)
  <2>1. g = NextTick(h, task)
    BY <1>1 DEF Send, Target
  <2>2. task.do = "dispatch" /\ task.to = Target(h, d) /\ task.msg = msg
    BY DEF Dispatching
  <2> HIDE DEF g, task
  <2>3. IsMessageAt(h, Target(h, d), msg) /\ MayPost(h, Target(h, d), msg)
    BY <1>1, ComesOn
  <2>4. IsTask(h, task)
    BY <2>2, <2>3 DEF IsTask
  <2> QED
    BY <2>1, <2>2, <2>3, <2>4, PostsOne DEF g
<1>2. CASE ~IsResolved(h, d)
  <2> DEFINE calls == IF msg.progress = None THEN h.deferred[d].listeners
                      ELSE Append(h.deferred[d].listeners, msg.progress[2])
             msgs == Append(h.deferred[d].messages, msg)
             r == [h.deferred[d] EXCEPT !.messages = msgs, !.listeners = calls]
  <2>1. g = [h EXCEPT !.deferred = [h.deferred EXCEPT ![d] = r]]
    BY <1>2 DEF Send
  <2>2. DOMAIN h = MemoryFields /\ DOMAIN h.deferred[d] = DeferredFields
    BY CoreIs DEF ShapeInv
  <2> HIDE DEF g, r
  <2>3. g.deferred = [h.deferred EXCEPT ![d] = r]
    BY <2>1, <2>2 DEF MemoryFields
  <2>4. SameRest(h, g) /\ g.queue = h.queue /\ g.flush = h.flush
    BY <2>1, <2>2 DEF SameRest, MemoryFields
  <2>5. /\ DOMAIN r = DeferredFields
        /\ r.messages = Append(h.deferred[d].messages, msg)
        /\ r.listeners = IF msg.progress = None THEN h.deferred[d].listeners
                         ELSE Append(h.deferred[d].listeners, msg.progress[2])
        /\ r.target = h.deferred[d].target
        /\ r.self = h.deferred[d].self /\ r.fulfilled = h.deferred[d].fulfilled
        /\ r.rejected = h.deferred[d].rejected /\ r.progressed = h.deferred[d].progressed
        /\ r.done = h.deferred[d].done /\ r.answer = h.deferred[d].answer
        /\ r.array = h.deferred[d].array /\ r.waiting = h.deferred[d].waiting
    BY <2>2 DEF DeferredFields, r
  <2>6. /\ DOMAIN g.deferred = DOMAIN h.deferred /\ g.deferred[d] = r
        /\ \A e \in DOMAIN h.deferred : e # d => g.deferred[e] = h.deferred[e]
    BY <2>3
  <2>7. IsSeq(g.deferred)
    <3>1. g.deferred = [e \in DOMAIN g.deferred |-> g.deferred[e]]
      BY <2>3
    <3> QED
      BY <2>6, <3>1, IsSeqIs, CoreIs
  <2>8. SameCalls(h, g)
    <3>1. SameCall(h, g, d) /\ Target(g, d) = Target(h, d) /\ Waiting(g, d) = Waiting(h, d)
      BY <2>5, <2>6 DEF SameCall, Self, Gathered, OnFulfilled, OnRejected, OnProgress, IsDone,
                        AnswerOf, Waiting, Target
    <3>2. \A e \in DOMAIN h.deferred : DOMAIN h.deferred[e] = DeferredFields
      BY CoreIs DEF ShapeInv
    <3>3. \A e \in DOMAIN h.deferred : e # d =>
            SameCall(h, g, e) /\ Target(g, e) = Target(h, e) /\ Waiting(g, e) = Waiting(h, e)
      BY <2>6, <3>2 DEF SameCall, Self, Gathered, OnFulfilled, OnRejected, OnProgress, IsDone,
                        AnswerOf, Waiting, Target
    <3> QED
      BY <2>6, <2>7, <3>1, <3>3 DEF SameCalls
  <2>9. /\ Messages(g, d) = Append(Messages(h, d), msg)
        /\ Listeners(g, d) = IF msg.progress = None THEN Listeners(h, d)
                             ELSE Append(Listeners(h, d), msg.progress[2])
        /\ \A e \in DOMAIN h.deferred : e # d =>
             Messages(g, e) = Messages(h, e) /\ Listeners(g, e) = Listeners(h, e)
    BY <2>5, <2>6 DEF Messages, Listeners
  <2>10. HasKept(h, g, d, msg)
    BY <2>4, <2>8, <2>9 DEF HasKept
  <2> QED
    BY <1>2, <2>10, KeepsMessage DEF g
<1> QED
  BY <1>1, <1>2


-----------------------------------------------------------------------------
(* then, and the messages to promises *)

LEMMA WaitsIs ==
  ASSUME NEW h, CoreInv(h), NEW x, KnowsPromise(h, x), NEW n
  PROVE  LET w == Waits(h.deferred, x, n)
         IN /\ IsSeq(w) /\ DOMAIN w = DOMAIN h.deferred
            /\ \A d \in DOMAIN h.deferred :
                 /\ DOMAIN w[d] = DeferredFields
                 /\ w[d].target = h.deferred[d].target
                 /\ w[d].messages = h.deferred[d].messages
                 /\ w[d].listeners = h.deferred[d].listeners
                 /\ w[d].self = h.deferred[d].self /\ w[d].fulfilled = h.deferred[d].fulfilled
                 /\ w[d].rejected = h.deferred[d].rejected
                 /\ w[d].progressed = h.deferred[d].progressed
                 /\ w[d].done = h.deferred[d].done /\ w[d].answer = h.deferred[d].answer
                 /\ w[d].array = h.deferred[d].array
                 /\ x = Deferred(d) => w[d].waiting = Append(h.deferred[d].waiting, n)
                 /\ x # Deferred(d) => w[d].waiting = h.deferred[d].waiting
<1> DEFINE w == Waits(h.deferred, x, n)
<1>1. /\ IsSeq(h.deferred) /\ Len(h.deferred) \in Nat /\ DOMAIN h.deferred = 1..Len(h.deferred)
      /\ \A d \in DOMAIN h.deferred : DOMAIN h.deferred[d] = DeferredFields
  BY CoreIs DEF ShapeInv, TargetsInv
<1>2. CASE x[1] # "deferred"
  <2>1. w = h.deferred /\ \A d : x # Deferred(d)
    BY <1>2, DeferredIs DEF Waits
  <2> QED
    BY <1>1, <2>1
<1>3. CASE x[1] = "deferred"
  <2> DEFINE p == x[2]
             r == [h.deferred[p] EXCEPT !.waiting = Append(@, n)]
  <2>1. x = Deferred(p) /\ p \in DOMAIN h.deferred
    BY <1>1, <1>3, KnownIs DEF KnowsPromise, Knows
  <2>2. w = [h.deferred EXCEPT ![p] = r]
    BY <1>3 DEF Waits
  <2>3. /\ DOMAIN r = DeferredFields
        /\ r.target = h.deferred[p].target /\ r.messages = h.deferred[p].messages
        /\ r.listeners = h.deferred[p].listeners
        /\ r.self = h.deferred[p].self /\ r.fulfilled = h.deferred[p].fulfilled
        /\ r.rejected = h.deferred[p].rejected /\ r.progressed = h.deferred[p].progressed
        /\ r.done = h.deferred[p].done /\ r.answer = h.deferred[p].answer
        /\ r.array = h.deferred[p].array /\ r.waiting = Append(h.deferred[p].waiting, n)
    BY <1>1, <2>1 DEF DeferredFields
  <2> HIDE DEF r, p, w
  <2>4. /\ DOMAIN w = DOMAIN h.deferred /\ w[p] = r
        /\ \A d \in DOMAIN h.deferred : d # p => w[d] = h.deferred[d]
        /\ w = [d \in DOMAIN w |-> w[d]]
    BY <2>1, <2>2
  <2>5. IsSeq(w)
    BY <1>1, <2>4, IsSeqIs
  <2>6. \A d : x = Deferred(d) => d = p
    BY <2>1, DeferredsDiffer
  <2>7. ASSUME NEW d \in DOMAIN h.deferred
        PROVE  /\ DOMAIN w[d] = DeferredFields
               /\ w[d].target = h.deferred[d].target
               /\ w[d].messages = h.deferred[d].messages
               /\ w[d].listeners = h.deferred[d].listeners
               /\ w[d].self = h.deferred[d].self /\ w[d].fulfilled = h.deferred[d].fulfilled
               /\ w[d].rejected = h.deferred[d].rejected
               /\ w[d].progressed = h.deferred[d].progressed
               /\ w[d].done = h.deferred[d].done /\ w[d].answer = h.deferred[d].answer
               /\ w[d].array = h.deferred[d].array
               /\ x = Deferred(d) => w[d].waiting = Append(h.deferred[d].waiting, n)
               /\ x # Deferred(d) => w[d].waiting = h.deferred[d].waiting
    <3>1. CASE d = p
      BY <2>1, <2>3, <2>4, <3>1
    <3>2. CASE d # p
      BY <1>1, <2>4, <2>6, <3>2
    <3> QED
      BY <3>1, <3>2
  <2> QED
    BY <2>4, <2>5, <2>7 DEF w
<1> QED
  BY <1>2, <1>3

\* then may be called on x so.
MayThen(h, x, fulfilled, rejected, progressed) ==
  /\ KnowsPromise(h, x)
  /\ fulfilled = None \/ IsCallback(h, fulfilled)
  /\ rejected = None \/ (IsCallback(h, rejected) /\ rejected[1] # "spread")
  /\ progressed = None \/ IsListener(h, progressed)
  /\ fulfilled = <<"spread", <<"same">>>> =>
       \E e \in DOMAIN h.deferred : x = Deferred(e) /\ IsAll(h, e)

\* The deferred of the call, before its messages are on their way.
ThenOpens(h, x, fulfilled, rejected, progressed) ==
  LET d == Len(h.deferred) + 1
      made == [NewDeferred EXCEPT !.self = x, !.fulfilled = fulfilled, !.rejected = rejected,
                                  !.progressed = progressed]
  IN [h EXCEPT !.deferred = Append(Waits(@, x, d), made)]

LEMMA ThenOpensIs ==
  ASSUME NEW h, CoreInv(h), NEW x, NEW fulfilled, NEW rejected, NEW progressed,
         MayThen(h, x, fulfilled, rejected, progressed), NEW n, n = Len(h.deferred) + 1
  PROVE  LET g == ThenOpens(h, x, fulfilled, rejected, progressed)
         IN /\ IsOpened(h, g, n) /\ Self(g, n) = x
            /\ OnFulfilled(g, n) = fulfilled /\ OnRejected(g, n) = rejected
<1> DEFINE w == Waits(h.deferred, x, n)
           made == [NewDeferred EXCEPT !.self = x, !.fulfilled = fulfilled,
                                       !.rejected = rejected, !.progressed = progressed]
           g == ThenOpens(h, x, fulfilled, rejected, progressed)
<1>1. g = [h EXCEPT !.deferred = Append(w, made)]
  BY DEF ThenOpens
<1>2. /\ DOMAIN made = DeferredFields /\ made.self = x /\ made.fulfilled = fulfilled
      /\ made.rejected = rejected /\ made.progressed = progressed
      /\ made.target = None /\ made.messages = <<>> /\ made.listeners = <<>>
      /\ made.done = FALSE /\ made.answer = Pending /\ made.array = None /\ made.waiting = <<>>
  BY NewDeferredIs DEF DeferredFields
<1> HIDE DEF made, g
<1>3. DOMAIN h = MemoryFields
  BY CoreIs DEF ShapeInv
<1>4. g.deferred = Append(w, made)
  BY <1>1, <1>3 DEF MemoryFields
<1>5. SameRest(h, g) /\ g.queue = h.queue /\ g.flush = h.flush
  BY <1>1, <1>3 DEF SameRest, MemoryFields
<1>6. KnowsPromise(h, x)
  BY DEF MayThen
<1>7. IsSeq(w) /\ DOMAIN w = DOMAIN h.deferred
  BY <1>6, WaitsIs
<1>8. \A d \in DOMAIN h.deferred :
                 /\ DOMAIN w[d] = DeferredFields
                 /\ w[d].target = h.deferred[d].target
                 /\ w[d].messages = h.deferred[d].messages
                 /\ w[d].listeners = h.deferred[d].listeners
                 /\ w[d].self = h.deferred[d].self /\ w[d].fulfilled = h.deferred[d].fulfilled
                 /\ w[d].rejected = h.deferred[d].rejected
                 /\ w[d].progressed = h.deferred[d].progressed
                 /\ w[d].done = h.deferred[d].done /\ w[d].answer = h.deferred[d].answer
                 /\ w[d].array = h.deferred[d].array
                 /\ x = Deferred(d) => w[d].waiting = Append(h.deferred[d].waiting, n)
                 /\ x # Deferred(d) => w[d].waiting = h.deferred[d].waiting
  BY <1>6, WaitsIs
<1> HIDE DEF w
<1>9. Len(w) = Len(h.deferred)
  BY <1>7, SameLength, CoreIs DEF TargetsInv
<1>10. /\ IsSeq(g.deferred) /\ Len(g.deferred) = n /\ g.deferred[n] = made
       /\ \A d \in DOMAIN h.deferred : g.deferred[d] = w[d]
  BY <1>4, <1>7, <1>9, AppendIs
<1>11. /\ Self(g, n) = x /\ OnFulfilled(g, n) = fulfilled /\ OnRejected(g, n) = rejected
       /\ OnProgress(g, n) = progressed /\ Target(g, n) = None /\ Messages(g, n) = <<>>
       /\ Listeners(g, n) = <<>> /\ Waiting(g, n) = <<>> /\ IsDone(g, n) = FALSE
       /\ AnswerOf(g, n) = Pending /\ Gathered(g, n) = None
       /\ DOMAIN g.deferred[n] = DeferredFields
  BY <1>2, <1>10 DEF Self, OnFulfilled, OnRejected, OnProgress, Target, Messages, Listeners,
                     Waiting, IsDone, AnswerOf, Gathered
<1>12. ASSUME NEW d \in DOMAIN h.deferred
       PROVE  /\ SameCall(h, g, d) /\ Target(g, d) = Target(h, d)
              /\ Messages(g, d) = Messages(h, d) /\ Listeners(g, d) = Listeners(h, d)
              /\ x = Deferred(d) => Waiting(g, d) = Append(Waiting(h, d), n)
              /\ x # Deferred(d) => Waiting(g, d) = Waiting(h, d)
  <2>1. g.deferred[d] = w[d]
    BY <1>10
  <2>2. SameCall(h, g, d) /\ Target(g, d) = Target(h, d)
    BY <1>8, <2>1 DEF SameCall, Self, OnFulfilled, OnRejected, OnProgress, Target, IsDone,
                      AnswerOf, Gathered
  <2>3. Messages(g, d) = Messages(h, d) /\ Listeners(g, d) = Listeners(h, d)
    BY <1>8, <2>1 DEF Messages, Listeners
  <2>4. /\ x = Deferred(d) => Waiting(g, d) = Append(Waiting(h, d), n)
        /\ x # Deferred(d) => Waiting(g, d) = Waiting(h, d)
    BY <1>8, <2>1 DEF Waiting
  <2> QED
    BY <2>2, <2>3, <2>4
<1>13. IsOpened(h, g, n)
  BY <1>5, <1>10, <1>11, <1>12 DEF IsOpened, MayThen
<1> QED
  BY <1>11, <1>13 DEF g


LEMMA ThenIs ==
  ASSUME NEW h, CoreInv(h), NEW x, NEW fulfilled, NEW rejected, NEW progressed,
         MayThen(h, x, fulfilled, rejected, progressed), NEW n, n = Len(h.deferred) + 1
  PROVE  LET g == Then(h, x, fulfilled, rejected, progressed)
         IN /\ Goes(h, g) /\ g.it = Deferred(n)
            /\ n \in DOMAIN g.deferred /\ n \notin DOMAIN h.deferred
            /\ Self(g, n) = x /\ OnFulfilled(g, n) = fulfilled /\ OnRejected(g, n) = rejected
<1> DEFINE k1 == ThenOpens(h, x, fulfilled, rejected, progressed)
           task == Dispatching(x, ToAnswer(n))
           k2 == NextTick(k1, task)
           k3 == IF x[1] = "deferred" THEN Send(k2, x[2], ToListen(n)) ELSE k2
           g == Then(h, x, fulfilled, rejected, progressed)
<1>1. g = Gives(k3, Deferred(n))
  BY DEF Then, ThenOpens
<1>2. KnowsPromise(h, x) /\ x # None
  BY NoPromiseIsNone DEF MayThen, KnowsPromise
<1>3. /\ IsOpened(h, k1, n) /\ Self(k1, n) = x
      /\ OnFulfilled(k1, n) = fulfilled /\ OnRejected(k1, n) = rejected
  BY ThenOpensIs
<1>4. task.do = "dispatch" /\ task.to = x /\ task.msg = ToAnswer(n)
  BY DEF Dispatching
<1> HIDE DEF g, k1, task
<1>5. /\ CoreInv(k1) /\ Widens(h, k1)
      /\ \A d : IsLost(k1, d) => IsLost(h, d) \/ d = n
  BY <1>3, Opens
<1>6. /\ k1.queue = h.queue
      /\ \A d \in DOMAIN h.deferred :
           Messages(k1, d) = Messages(h, d) /\ Listeners(k1, d) = Listeners(h, d)
      /\ Messages(k1, n) = <<>> /\ Listeners(k1, n) = <<>> /\ ~IsDone(k1, n)
      /\ Len(k1.deferred) = n /\ IsSeq(k1.deferred)
  BY <1>3 DEF IsOpened
<1>7. /\ n \in DOMAIN k1.deferred /\ n \notin DOMAIN h.deferred
      /\ \A d \in DOMAIN k1.deferred : d \in DOMAIN h.deferred \/ d = n
      /\ \A d \in DOMAIN h.deferred : ~(n < d)
  <2>1. Len(h.deferred) \in Nat /\ DOMAIN h.deferred = 1..Len(h.deferred)
    BY CoreIs
  <2>2. DOMAIN k1.deferred = 1..n
    BY <1>6, SeqIs
  <2> QED
    BY <2>1, <2>2
<1>8. ASSUME NEW y, NEW msg, IsMessageAt(h, y, msg)
      PROVE  /\ msg # ToAnswer(n) /\ msg # ToListen(n)
             /\ Leads(k1, msg, ToAnswer(n)) => Along(k1, x, y)
             /\ ~Leads(k1, ToAnswer(n), msg)
  <2>1. msg # ToAnswer(n) /\ msg # ToListen(n)
    BY <1>7, <1>8, MessagesDiffer DEF IsMessageAt, IsThenAt
  <2>2. ASSUME NEW d \in DOMAIN h.deferred, msg = ToAnswer(d), Self(k1, d) = x
        PROVE  Along(k1, x, y)
    <3>1. Along(h, Self(h, d), y)
      BY <1>8, <2>2, MessagesDiffer DEF IsMessageAt, IsThenAt
    <3>2. Self(h, d) = x
      BY <1>5, <2>2 DEF Widens, More
    <3> QED
      BY <1>5, <3>1, <3>2, MoreAlong DEF Widens
  <2>3. Leads(k1, msg, ToAnswer(n)) => Along(k1, x, y)
    BY <1>3, <1>7, <2>1, <2>2, MessagesDiffer DEF Leads
  <2>4. \A e : msg = ToAnswer(e) => e \in DOMAIN h.deferred
    BY <1>8, MessagesDiffer DEF IsMessageAt, IsThenAt
  <2>5. ~Leads(k1, ToAnswer(n), msg)
    BY <1>7, <2>4, MessagesDiffer DEF Leads
  <2> QED
    BY <2>1, <2>3, <2>5
<1>9. /\ \A j : IsQueued(k1, j) => IsMessageAt(h, To(k1, j), Sent(k1, j))
      /\ \A d \in DOMAIN k1.deferred : \A i \in DOMAIN Messages(k1, d) :
           IsMessageAt(h, Deferred(d), Messages(k1, d)[i])
      /\ \A p \in DOMAIN k1.deferred : \A i \in DOMAIN Listeners(k1, p) :
           Listeners(k1, p)[i] \in DOMAIN h.deferred
  <2>1. \A j : IsQueued(k1, j) => IsMessageAt(h, To(k1, j), Sent(k1, j))
    BY <1>6, CoreMessages DEF IsQueued, To, Sent
  <2>2. DOMAIN <<>> = {}
    OBVIOUS
  <2>3. \A d \in DOMAIN h.deferred : \A i \in DOMAIN Listeners(h, d) :
          Listeners(h, d)[i] \in DOMAIN h.deferred
    BY CoreIs DEF ListenInv
  <2> QED
    BY <1>6, <1>7, <2>1, <2>2, <2>3, CoreMessages
<1>10. MayPost(k1, x, ToAnswer(n))
  BY <1>7, <1>8, <1>9, MessagesDiffer DEF MayPost
<1>11. KnowsPromise(k1, x)
  BY <1>2, <1>5, MoreKnows DEF KnowsPromise, Widens
<1>12. IsTask(k1, task)
  BY <1>2, <1>3, <1>4, <1>7, <1>11, AlongSelf DEF IsTask, IsMessageAt, IsThenAt
<1>13. /\ Goes(k1, k2) /\ k2.deferred = k1.deferred /\ k2.rejections = k1.rejections
       /\ k2.queue = k1.queue \o <<task>> /\ IsPlaced(k2, n)
  BY <1>4, <1>5, <1>10, <1>12, PostsOne
<1> HIDE DEF k2
<1>14. CoreInv(k2)
  BY <1>13 DEF Goes
<1>15. ASSUME NEW j, IsQueued(k2, j), Sent(k2, j) = ToAnswer(n) PROVE To(k2, j) = x
  <2>1. IsSeq(k1.queue) /\ IsSeq(<<task>>) /\ <<task>>[1] = task /\ Len(<<task>>) = 1
    BY <1>5, OneIsSeq, CoreIs DEF ShapeInv
  <2>2. \/ j \in 1..Len(k1.queue) /\ k2.queue[j] = k1.queue[j]
        \/ j = Len(k1.queue) + 1 /\ k2.queue[j] = task
    <3> DEFINE u == k1.queue
               v == <<task>>
    <3>1. /\ Len(u) \in Nat /\ j \in DOMAIN (u \o v)
          /\ \A i \in 1..Len(u) : (u \o v)[i] = u[i]
          /\ \A i \in 1..Len(v) : (u \o v)[Len(u) + i] = v[i]
          /\ \A i \in DOMAIN (u \o v) :
               \/ i \in 1..Len(u)
               \/ i - Len(u) \in 1..Len(v) /\ i = Len(u) + (i - Len(u))
      <4>1. IsSeq(u) /\ IsSeq(v) /\ Len(u) \in Nat
        BY <2>1, SeqIs
      <4>2. j \in DOMAIN (u \o v)
        BY <1>13, <1>15 DEF IsQueued
      <4> HIDE DEF u, v
      <4> QED
        BY <4>1, <4>2, ConcatIs
    <3>2. Len(v) = 1 /\ v[1] = task /\ k2.queue = u \o v
      BY <1>13, <2>1
    <3> HIDE DEF u, v
    <3>3. j \in 1..Len(u) \/ j = Len(u) + 1
      <4>1. CASE j \in 1..Len(u)
        BY <4>1
      <4>2. CASE j - Len(u) \in 1..Len(v) /\ j = Len(u) + (j - Len(u))
        <5>1. j - Len(u) = 1
          BY <3>1, <3>2, <4>2
        <5> QED
          BY <4>2, <5>1
      <4> QED
        BY <3>1, <4>1, <4>2
    <3>4. (u \o v)[Len(u) + 1] = task
      <4>1. 1 \in 1..Len(v)
        BY <3>2
      <4> QED
        BY <3>1, <3>2, <4>1
    <3> QED
      BY <3>1, <3>2, <3>3, <3>4 DEF u
  <2>3. CASE j \in 1..Len(k1.queue) /\ k2.queue[j] = k1.queue[j]
    <3>1. IsQueued(k1, j) /\ Sent(k1, j) = ToAnswer(n)
      BY <1>5, <1>15, <2>3, CoreIs DEF IsQueued, Sent
    <3> QED
      BY <1>8, <1>9, <3>1
  <2>4. CASE j = Len(k1.queue) + 1 /\ k2.queue[j] = task
    BY <1>4, <2>4 DEF To
  <2> QED
    BY <2>2, <2>3, <2>4
<1>16. Self(k2, n) = x /\ ~IsDone(k2, n) /\ n \in DOMAIN k2.deferred
  BY <1>3, <1>6, <1>7, <1>13 DEF Self, IsDone
<1>17. Comes(k2, x, ToListen(n))
  <2>1. KnowsPromise(k2, x)
    BY <1>11, <1>13, MoreKnows DEF KnowsPromise, Goes, Grows, Widens
  <2>2. IsMessageAt(k2, x, ToListen(n))
    BY <1>2, <1>16, <2>1, AlongSelf DEF IsMessageAt, IsThenAt
  <2>3. \A msg : ~Leads(k2, msg, ToListen(n))
    BY MessagesDiffer DEF Leads
  <2>4. \A msg : Leads(k2, ToListen(n), msg) => msg = ToAnswer(n)
    BY MessagesDiffer DEF Leads
  <2>5. \A d \in DOMAIN k2.deferred : \A i \in DOMAIN Messages(k2, d) :
          Messages(k2, d)[i] # ToAnswer(n)
    BY <1>8, <1>9, <1>13 DEF Messages
  <2> QED
    BY <1>15, <2>2, <2>3, <2>4, <2>5, AlongSelf, MessagesDiffer DEF Comes
<1>18. Goes(k2, k3)
  <2>1. CASE x[1] = "deferred"
    <3>1. x = Deferred(x[2]) /\ x[2] \in DOMAIN k2.deferred
      <4>1. x = Deferred(x[2]) /\ x[2] \in DOMAIN h.deferred
        BY <1>2, <2>1, KnownIs, CoreIs DEF KnowsPromise, Knows
      <4>2. DOMAIN h.deferred \subseteq DOMAIN k2.deferred
        BY <1>5, <1>13, MoreKnows DEF Widens
      <4> QED
        BY <4>1, <4>2
    <3> QED
      BY <1>14, <1>17, <2>1, <3>1, SendIs
  <2>2. CASE x[1] # "deferred"
    BY <1>14, <2>2, GoesSelf
  <2> QED
    BY <2>1, <2>2
<1> HIDE DEF k3
<1>19. Goes(k3, g) /\ g.it = Deferred(n)
  BY <1>1, <1>18, GivesIs DEF Goes
<1>20. Goes(k1, g) /\ Goes(k2, g)
  BY <1>5, <1>13, <1>14, <1>18, <1>19, GoesTrans
<1>21. Widens(h, g)
  BY <1>5, <1>20, WidensTrans DEF Goes, Grows
<1>22. ~IsLost(k2, n)
  BY <1>13 DEF IsLost
<1>23. ASSUME NEW d, IsLost(g, d) PROVE IsLost(h, d)
  BY <1>5, <1>20, <1>22, <1>23 DEF Goes, Grows
<1>24. Goes(h, g)
  BY <1>20, <1>21, <1>23 DEF Goes, Grows
<1>25. /\ n \in DOMAIN g.deferred /\ Self(g, n) = x
       /\ OnFulfilled(g, n) = fulfilled /\ OnRejected(g, n) = rejected
  BY <1>3, <1>7, <1>20, MoreKnows DEF Goes, Grows, Widens, More
<1> QED
  BY <1>7, <1>19, <1>24, <1>25 DEF g


\* A step that gives a promise of its own.
GivesNew(h, g) ==
  Goes(h, g) /\ \E n \in DOMAIN g.deferred : n \notin DOMAIN h.deferred /\ g.it = Deferred(n)

\* What a step gives is known, and closes no ring.
IsGiven(h, g, x) ==
  Knows(g, x) /\ (x[1] = "deferred" => x[2] \in 1..Sources \/ x[2] \notin DOMAIN h.deferred)

\* A step that gives something, or throws it.
Yields(h, g) ==
  /\ Goes(h, g)
  /\ \/ g.it[1] = "throw" /\ KnowsValue(g, g.it[2])
     \/ IsGiven(h, g, g.it)

LEMMA GoesIs ==
  ASSUME NEW h, NEW g, Goes(h, g)
  PROVE  /\ CoreInv(g) /\ DOMAIN h.deferred \subseteq DOMAIN g.deferred
         /\ Own(h) \subseteq Own(g) /\ Plain(h) \subseteq Plain(g)
         /\ \A x : /\ Knows(h, x) => Knows(g, x)
                   /\ KnowsValue(h, x) => KnowsValue(g, x)
                   /\ KnowsPromise(h, x) => KnowsPromise(g, x)
         /\ \A cb : /\ IsCallback(h, cb) => IsCallback(g, cb)
                    /\ IsListener(h, cb) => IsListener(g, cb)
BY MoreKnows, MoreCallback DEF Goes, Grows, Widens, KnowsValue, KnowsPromise

LEMMA YieldsTrans ==
  ASSUME NEW h, CoreInv(h), NEW k, NEW g, Goes(h, k)
  PROVE  /\ Yields(k, g) => Yields(h, g)
         /\ GivesNew(k, g) => GivesNew(h, g)
         /\ Goes(k, g) => Goes(h, g)
BY GoesTrans, GoesIs DEF Yields, GivesNew, IsGiven

LEMMA NewIs ==
  ASSUME NEW h, NEW g, GivesNew(h, g)
  PROVE  Goes(h, g) /\ Yields(h, g) /\ KnowsPromise(g, g.it) /\ IsGiven(h, g, g.it)
<1>1. PICK n \in DOMAIN g.deferred : n \notin DOMAIN h.deferred /\ g.it = Deferred(n)
  BY DEF GivesNew
<1>2. Goes(h, g) /\ CoreInv(g)
  BY DEF GivesNew, Goes
<1>3. n \in 1..Len(g.deferred)
  BY <1>2, CoreIs
<1> QED
  BY <1>1, <1>2, <1>3, KnownDeferred, DeferredIs DEF Yields, IsGiven, KnowsPromise, Knows

\* The callbacks that the library gives.
LEMMA CallbacksAre ==
  ASSUME NEW h
  PROVE  /\ \A y : Knows(h, y) /\ Loose(y) => IsCallback(h, <<"returns", y>>)
         /\ \A e : KnowsValue(h, e) => IsCallback(h, <<"throws", e>>)
         /\ \A d \in Plain(h) : /\ IsCallback(h, <<"resolve", d>>)
                                /\ \A verb : IsCallback(h, <<"clears", d, verb>>)
         /\ \A d \in Own(h) :
              /\ IsCallback(h, <<"reject", d>>) /\ IsCallback(h, <<"miss", d>>)
              /\ IsListener(h, <<"notify", d>>)
              /\ \A i : /\ IsListener(h, <<"notify", d, i>>)
                        /\ Gathered(h, d) # None => IsCallback(h, <<"gather", d, i>>)
         /\ IsCallback(h, <<"all">>) /\ IsCallback(h, <<"allResolved">>)
         /\ IsCallback(h, <<"allSettled">>) /\ IsCallback(h, <<"race">>)
         /\ IsCallback(h, <<"unhandled">>) /\ IsCallback(h, <<"delay">>)
         /\ \A side : IsCallback(h, <<"tells", side>>)
         /\ \A x : KnowsPromise(h, x) => IsCallback(h, <<"inspect", x>>)
         /\ \A f \in Function : IsCallback(h, <<"spread", f>>)
         /\ IsCallback(h, <<"spread", <<"same">>>>)
         /\ \A x : KnowsValue(h, x) => IsCallback(h, <<"tap", x>>)
         /\ \A x, verb : KnowsValue(h, x) /\ verb \in {"returns", "throws"} =>
              IsCallback(h, <<"finally", x, verb>>)
         /\ \A verb \in {"next", "throw"}, rest \in Generator :
              IsCallback(h, <<"continue", verb, rest>>)
BY DEF IsCallback, IsListener

LEMMA NotSpread == \A f : f[1] # "spread" => f # <<"spread", <<"same">>>>
OBVIOUS

LEMMA FunctionIs ==
  ASSUME NEW f \in Function
  PROVE  /\ f # None /\ f[1] # "spread"
         /\ f[1] \in {"returns", "throws", "callsBack", "keepsBack"}
         /\ f[1] = "returns" => f[2] \in Input
         /\ f[1] = "throws" => f[2] \in Reason
         /\ f[1] = "callsBack" => f[2] \in Reason \cup {None} /\ f[3] \in Input
         /\ \A h : IsCallback(h, f) /\ IsListener(h, f)
<1>1. None[1] = "none"
  BY DEF None
<1>2. CASE f \in {"returns"} \X Input
  BY <1>1, <1>2 DEF IsCallback, IsListener
<1>3. CASE f \in {"throws"} \X Reason
  BY <1>1, <1>3 DEF IsCallback, IsListener
<1>4. CASE f \in {"callsBack"} \X (Reason \cup {None}) \X Input
  BY <1>1, <1>4 DEF IsCallback, IsListener
<1>5. CASE f = <<"keepsBack">>
  BY <1>1, <1>5 DEF IsCallback, IsListener
<1> QED
  BY <1>2, <1>3, <1>4, <1>5 DEF Function, End

\* when may be called on x so.
MayWhen(h, x, fulfilled, rejected, progressed) ==
  /\ Knows(h, x)
  /\ fulfilled = None \/ IsCallback(h, fulfilled)
  /\ rejected = None \/ (IsCallback(h, rejected) /\ rejected[1] # "spread")
  /\ progressed = None \/ IsListener(h, progressed)
  /\ fulfilled = <<"spread", <<"same">>>> =>
       \E e \in DOMAIN h.deferred : x = Deferred(e) /\ IsAll(h, e)

LEMMA WhenIs ==
  ASSUME NEW h, CoreInv(h), NEW x, NEW fulfilled, NEW rejected, NEW progressed,
         MayWhen(h, x, fulfilled, rejected, progressed)
  PROVE  LET g == When(h, x, fulfilled, rejected, progressed)
         IN /\ GivesNew(h, g)
            /\ ~IsPromise(x) /\ x[1] # "thenable" =>
                 /\ Self(g, g.it[2]) = Fulfilled(x)
                 /\ OnFulfilled(g, g.it[2]) = fulfilled /\ OnRejected(g, g.it[2]) = rejected
<1> DEFINE k == ToPromise(h, x)
           g == When(h, x, fulfilled, rejected, progressed)
           n == Len(k.deferred) + 1
<1>1. g = Then(k, k.it, fulfilled, rejected, progressed)
  BY DEF When
<1>2. /\ Goes(h, k) /\ KnowsPromise(k, k.it) /\ SameBefore(h, k)
      /\ IsPromise(x) => k.it = x /\ k.deferred = h.deferred
      /\ ~IsPromise(x) /\ x[1] # "thenable" => k.it = Fulfilled(x)
  BY ToPromiseIs DEF MayWhen
<1> HIDE DEF k, g
<1>3. CoreInv(k) /\ DOMAIN h.deferred \subseteq DOMAIN k.deferred
  BY <1>2, GoesIs
<1>4. MayThen(k, k.it, fulfilled, rejected, progressed)
  <2>1. /\ fulfilled = None \/ IsCallback(k, fulfilled)
        /\ rejected = None \/ (IsCallback(k, rejected) /\ rejected[1] # "spread")
        /\ progressed = None \/ IsListener(k, progressed)
    BY <1>2, GoesIs DEF MayWhen
  <2>2. ASSUME fulfilled = <<"spread", <<"same">>>>
        PROVE  \E e \in DOMAIN k.deferred : k.it = Deferred(e) /\ IsAll(k, e)
    <3>1. PICK e \in DOMAIN h.deferred : x = Deferred(e) /\ IsAll(h, e)
      BY <2>2 DEF MayWhen
    <3>2. IsAll(k, e)
      BY <1>2, <3>1, SameBeforeIs
    <3> QED
      BY <1>2, <1>3, <3>1, <3>2, DeferredIs DEF IsPromise
  <2> QED
    BY <1>2, <2>1, <2>2 DEF MayThen
<1>5. /\ Goes(k, g) /\ g.it = Deferred(n)
      /\ n \in DOMAIN g.deferred /\ n \notin DOMAIN k.deferred
      /\ Self(g, n) = k.it /\ OnFulfilled(g, n) = fulfilled /\ OnRejected(g, n) = rejected
  BY <1>1, <1>3, <1>4, ThenIs
<1>6. GivesNew(k, g)
  BY <1>5 DEF GivesNew
<1>7. GivesNew(h, g)
  BY <1>2, <1>6, YieldsTrans
<1> QED
  BY <1>2, <1>5, <1>7, DeferredIs DEF g

\* Without a spread.
LEMMA WhenPlain ==
  ASSUME NEW h, CoreInv(h), NEW x, Knows(h, x), NEW fulfilled, NEW rejected, NEW progressed,
         fulfilled = None \/ (IsCallback(h, fulfilled) /\ fulfilled[1] # "spread"),
         rejected = None \/ (IsCallback(h, rejected) /\ rejected[1] # "spread"),
         progressed = None \/ IsListener(h, progressed)
  PROVE  GivesNew(h, When(h, x, fulfilled, rejected, progressed))
<1>1. None[1] = "none"
  BY DEF None
<1>2. MayWhen(h, x, fulfilled, rejected, progressed)
  BY <1>1, NotSpread DEF MayWhen
<1> QED
  BY <1>2, WhenIs

LEMMA DispatchIs ==
  ASSUME NEW h, CoreInv(h), NEW x, KnowsPromise(h, x), NEW op, NEW arg,
         \/ op = "data" /\ arg \in Function
         \/ op = "apply" /\ Knows(h, arg)
  PROVE  GivesNew(h, Dispatch(h, x, op, arg))
<1> DEFINE k == Defer(h)
           n == Len(h.deferred) + 1
           msg == Message(op, arg, <<"deferred", n>>, None, None)
           task == Dispatching(x, msg)
           g == Dispatch(h, x, op, arg)
<1>1. /\ Goes(h, k) /\ k.it = Deferred(n) /\ Len(k.deferred) = n /\ n \in Plain(k)
      /\ n \in DOMAIN k.deferred /\ n \notin DOMAIN h.deferred
  BY DeferIs
<1>2. g = NextTick(k, task)
  BY <1>1 DEF Dispatch
<1>3. /\ msg.op = op /\ msg.arg = arg /\ msg.resolve = <<"deferred", n>>
      /\ msg.rejected = None /\ msg.progress = None
  BY DEF Message
<1>4. task.do = "dispatch" /\ task.to = x /\ task.msg = msg
  BY DEF Dispatching
<1> HIDE DEF k, n, msg, task, g
<1>5. CoreInv(k) /\ KnowsPromise(k, x) /\ (op = "apply" => Knows(k, arg))
  BY <1>1, GoesIs
<1>6. IsAsk(k, msg)
  BY <1>1, <1>3, <1>5 DEF IsAsk
<1>7. IsTask(k, task)
  BY <1>4, <1>5, <1>6 DEF IsTask, IsMessageAt
<1>8. MayPost(k, x, msg)
  BY <1>6, AsksLeadNothing, MessagesDiffer DEF MayPost
<1>9. Goes(k, g) /\ g.deferred = k.deferred /\ g.it = k.it
  BY <1>2, <1>4, <1>5, <1>7, <1>8, PostsOne
<1>10. Goes(h, g)
  BY <1>1, <1>9, GoesTrans
<1> QED
  BY <1>1, <1>9, <1>10 DEF GivesNew, g

LEMMA AskIs ==
  ASSUME NEW h, CoreInv(h), NEW x, Knows(h, x), NEW op, NEW arg,
         \/ op = "data" /\ arg \in Function
         \/ op = "apply" /\ Knows(h, arg)
  PROVE  GivesNew(h, Ask(h, x, op, arg))
<1> DEFINE k == ToPromise(h, x)
<1>1. Ask(h, x, op, arg) = Dispatch(k, k.it, op, arg)
  BY DEF Ask
<1>2. Goes(h, k) /\ KnowsPromise(k, k.it)
  BY ToPromiseIs
<1> HIDE DEF k
<1>3. CoreInv(k) /\ (op = "apply" => Knows(k, arg))
  BY <1>2, GoesIs
<1>4. GivesNew(k, Dispatch(k, k.it, op, arg))
  BY <1>2, <1>3, DispatchIs
<1> QED
  BY <1>1, <1>2, <1>4, YieldsTrans

-----------------------------------------------------------------------------
(* The loops *)

LEMMA NearestKnown ==
  ASSUME NEW h, CoreInv(h), NEW x, Knows(h, x)
  PROVE  Knows(h, Nearest(h, x)) /\ IsEnd(h, Nearest(h, x)) /\ Along(h, x, Nearest(h, x))
<1> DEFINE U == {x} \cup {Target(h, e) : e \in DOMAIN h.deferred}
                \cup {Deferred(e) : e \in DOMAIN h.deferred}
           S == {z \in U : Knows(h, z)}
<1>1. x \in S
  OBVIOUS
<1>2. Closed(h, S)
  <2> SUFFICES ASSUME NEW e \in DOMAIN h.deferred, IsResolved(h, e) PROVE Knows(h, Target(h, e))
    BY DEF Closed
  <2> QED
    BY CoreIs DEF KnownInv, KnowsPromise, IsResolved, Target
<1>3. x[1] = "deferred" => x = Deferred(x[2]) /\ x[2] \in DOMAIN h.deferred
  BY CoreIs, KnownIs DEF Knows
<1>4. Along(h, x, Nearest(h, x)) /\ IsEnd(h, Nearest(h, x))
  BY <1>3, CoreIs, NearestEnds
<1> HIDE DEF S
<1>5. Nearest(h, x) \in S
  BY <1>1, <1>2, <1>4 DEF Along
<1> QED
  BY <1>4, <1>5 DEF S

\* What a promise is seen to have come to.
LEMMA InspectIs ==
  ASSUME NEW h, CoreInv(h), NEW x, KnowsPromise(h, x)
  PROVE  LET y == Nearest(h, x)
         IN /\ IsPromise(y) /\ KnowsPromise(h, y)
            /\ y[1] = "deferred" => Inspect(h, x) = Pending
            /\ y[1] = "fulfilled" =>
                 Inspect(h, x) = y /\ y = Fulfilled(y[2]) /\ KnowsValue(h, y[2])
            /\ y[1] = "rejected" =>
                 Inspect(h, x) = <<"rejected", y[3]>> /\ KnowsValue(h, y[3])
<1> DEFINE y == Nearest(h, x)
           U == {x} \cup {Target(h, e) : e \in DOMAIN h.deferred}
                \cup {Deferred(e) : e \in DOMAIN h.deferred}
           S == {z \in U : IsPromise(z)}
<1>1. Knows(h, y) /\ Along(h, x, y)
  BY NearestKnown DEF KnowsPromise
<1>2. x \in S
  BY DEF KnowsPromise
<1>3. Closed(h, S)
  <2> SUFFICES ASSUME NEW e \in DOMAIN h.deferred, IsResolved(h, e) PROVE IsPromise(Target(h, e))
    BY DEF Closed
  <2> QED
    BY CoreIs DEF TargetsInv, IsResolved, Target
<1> HIDE DEF S
<1>4. y \in S
  BY <1>1, <1>2, <1>3 DEF Along
<1>5. IsPromise(y)
  BY <1>4 DEF S
<1>6. /\ y[1] = "fulfilled" => y = Fulfilled(y[2]) /\ KnowsValue(h, y[2])
      /\ y[1] = "rejected" => KnowsValue(h, y[3])
  BY <1>1, KnownIs DEF Knows, KnowsValue
<1>7. /\ y[1] = "deferred" => Inspect(h, x) = Pending
      /\ y[1] = "fulfilled" => Inspect(h, x) = y
      /\ y[1] = "rejected" => Inspect(h, x) = <<"rejected", y[3]>>
  BY DEF Inspect
<1> QED
  BY <1>1, <1>5, <1>6, <1>7 DEF KnowsPromise

\* The function of Loop.
Turns(h, of, d, items) ==
  CHOOSE after :
    after = [n \in 0..Len(items) |->
               IF n = 0 THEN h ELSE ForItem(after[n - 1], of, d, n, items[n])]

LEMMA LoopIs ==
  ASSUME NEW h, NEW of, NEW d, NEW items, IsSeq(items)
  PROVE  LET L == Loop(h, of, d, items)
         IN /\ L[0] = h
            /\ \A n \in 1..Len(items) : L[n] = ForItem(L[n - 1], of, d, n, items[n])
<1> DEFINE N == Len(items)
           G(f, n) == IF n = 0 THEN h ELSE ForItem(f[n - 1], of, d, n, items[n])
           Of(f, k) == f = [n \in 0..k |-> G(f, n)]
           S == {k \in Nat : \E f : Of(f, k)}
<1>1. N \in Nat
  BY SeqIs
<1>2. 0 \in S
  <2> DEFINE f == [n \in 0..0 |-> h]
  <2>1. Of(f, 0)
    OBVIOUS
  <2>2. \E e : Of(e, 0)
    BY <2>1
  <2> QED
    BY <2>2
<1>3. ASSUME NEW k \in Nat, k \in S PROVE k + 1 \in S
  <2>1. PICK f : Of(f, k)
    BY <1>3
  <2> DEFINE g == [n \in 0..(k + 1) |-> G(f, n)]
  <2>2. \A n \in 0..k : f[n] = G(f, n)
    <3> DEFINE e == [n \in 0..k |-> G(f, n)]
    <3>1. f = e
      BY <2>1
    <3>2. \A n \in 0..k : e[n] = G(f, n)
      <4> HIDE DEF G
      <4> QED
        OBVIOUS
    <3> HIDE DEF e
    <3> SUFFICES ASSUME NEW n \in 0..k PROVE f[n] = G(f, n)
      OBVIOUS
    <3>3. f[n] = e[n]
      BY <3>1
    <3> HIDE DEF G
    <3> QED
      BY <3>2, <3>3
  <2>3. \A n \in 0..(k + 1) : g[n] = G(f, n)
    <3> HIDE DEF G
    <3> QED
      OBVIOUS
  <2> HIDE DEF g
  <2>4. \A n \in 0..k : g[n] = f[n]
    <3> HIDE DEF G
    <3> QED
      BY <2>2, <2>3
  <2>5. \A n \in 0..(k + 1) : G(f, n) = G(g, n)
    <3> SUFFICES ASSUME NEW n \in 0..(k + 1), n # 0 PROVE f[n - 1] = g[n - 1]
      OBVIOUS
    <3>1. n - 1 \in 0..k
      OBVIOUS
    <3> QED
      BY <2>4, <3>1
  <2>6. g = [n \in 0..(k + 1) |-> G(f, n)]
    BY DEF g
  <2>7. Of(g, k + 1)
    <3> HIDE DEF G
    <3> QED
      BY <2>5, <2>6
  <2> QED
    BY <2>7
<1> HIDE DEF S
<1>4. N \in S
  BY <1>1, <1>2, <1>3, NatSet
<1>5. PICK f : Of(f, N)
  BY <1>4 DEF S
<1> DEFINE c == Turns(h, of, d, items)
<1>6. Of(c, N)
  BY <1>5 DEF Turns
<1>7. Loop(h, of, d, items) = c
  BY DEF Loop, Turns
<1> HIDE DEF c
<1> DEFINE e == [n \in 0..N |-> G(c, n)]
<1>8. c = e
  BY <1>6
<1>9. \A n \in 0..N : e[n] = G(c, n)
  <2> HIDE DEF G
  <2> QED
    OBVIOUS
<1> HIDE DEF e
<1>10. ASSUME NEW n \in 0..N PROVE c[n] = G(c, n)
  <2>1. c[n] = e[n]
    BY <1>8
  <2> HIDE DEF G
  <2> QED
    BY <1>9, <2>1
<1>11. \A n \in 1..N : n \in 0..N /\ n # 0
  BY <1>1
<1>12. 0 \in 0..N
  BY <1>1
<1> QED
  BY <1>7, <1>10, <1>11, <1>12

\* Only the array and the count of the deferred differ.
IsCounted(h, d, r) ==
  /\ d \in DOMAIN h.deferred /\ DOMAIN r = DeferredFields
  /\ r.target = h.deferred[d].target /\ r.messages = h.deferred[d].messages
  /\ r.listeners = h.deferred[d].listeners /\ r.self = h.deferred[d].self
  /\ r.fulfilled = h.deferred[d].fulfilled /\ r.rejected = h.deferred[d].rejected
  /\ r.progressed = h.deferred[d].progressed /\ r.done = h.deferred[d].done
  /\ r.answer = h.deferred[d].answer /\ r.waiting = h.deferred[d].waiting
  /\ \/ r.array = h.deferred[d].array
     \/ /\ Gathered(h, d) # None /\ KnowsValue(h, r.array)
        /\ IsFlat(h, d) => r.array[1] = "array" /\ LooseItems(r.array)

LEMMA CountsOne ==
  ASSUME NEW h, CoreInv(h), NEW d, NEW r, IsCounted(h, d, r)
  PROVE  LET g == [h EXCEPT !.deferred = [h.deferred EXCEPT ![d] = r]]
         IN Goes(h, g) /\ Plain(g) = Plain(h) /\ Gathered(g, d) = r.array
<1> DEFINE g == [h EXCEPT !.deferred = [h.deferred EXCEPT ![d] = r]]
<1>1. DOMAIN h = MemoryFields /\ IsSeq(h.deferred)
      /\ \A e \in DOMAIN h.deferred : DOMAIN h.deferred[e] = DeferredFields
  BY CoreIs DEF ShapeInv, TargetsInv
<1>2. /\ g.deferred = [h.deferred EXCEPT ![d] = r]
      /\ DOMAIN g = MemoryFields
      /\ g.queue = h.queue /\ g.flush = h.flush /\ g.held = h.held /\ g.late = h.late
      /\ g.rejections = h.rejections /\ g.unhandled = h.unhandled /\ g.timers = h.timers
      /\ g.outside = h.outside
  BY <1>1 DEF MemoryFields
<1> HIDE DEF g
<1>3. /\ DOMAIN g.deferred = DOMAIN h.deferred
      /\ \A e \in DOMAIN h.deferred : e # d => g.deferred[e] = h.deferred[e]
      /\ g.deferred[d] = r /\ d \in DOMAIN h.deferred
  BY <1>2 DEF IsCounted
<1>4. IsSeq(g.deferred)
  <2> DEFINE s == g.deferred
  <2>1. DOMAIN s = 1..Len(h.deferred) /\ Len(h.deferred) \in Nat
    BY <1>1, <1>3, SeqIs
  <2>2. s = [i \in DOMAIN s |-> s[i]]
    BY <1>2
  <2> HIDE DEF s
  <2>3. IsSeq(s)
    BY <2>1, <2>2, IsSeqIs
  <2> QED
    BY <2>3 DEF s
<1>5. ASSUME NEW e \in DOMAIN h.deferred
      PROVE  /\ DOMAIN g.deferred[e] = DeferredFields
             /\ Target(g, e) = Target(h, e) /\ Self(g, e) = Self(h, e)
             /\ IsDone(g, e) = IsDone(h, e) /\ AnswerOf(g, e) = AnswerOf(h, e)
             /\ OnFulfilled(g, e) = OnFulfilled(h, e) /\ OnRejected(g, e) = OnRejected(h, e)
             /\ OnProgress(g, e) = OnProgress(h, e)
             /\ Messages(g, e) = Messages(h, e) /\ Listeners(g, e) = Listeners(h, e)
             /\ Waiting(g, e) = Waiting(h, e)
  <2>1. CASE e # d
    BY <1>1, <1>3, <2>1 DEF Target, Self, IsDone, AnswerOf, OnFulfilled, OnRejected, OnProgress,
        Messages, Listeners, Waiting
  <2>2. CASE e = d
    BY <1>3, <2>2 DEF IsCounted, Target, Self, IsDone, AnswerOf, OnFulfilled, OnRejected,
        OnProgress, Messages, Listeners, Waiting
  <2> QED
    BY <2>1, <2>2
<1>6. ASSUME NEW e \in DOMAIN h.deferred
      PROVE  \/ Gathered(g, e) = Gathered(h, e)
             \/ /\ Gathered(h, e) # None /\ KnowsValue(h, Gathered(g, e))
                /\ IsFlat(h, e) => Gathered(g, e)[1] = "array" /\ LooseItems(Gathered(g, e))
  <2>1. CASE e # d
    BY <1>3, <2>1 DEF Gathered
  <2>2. CASE e = d
    <3>1. Gathered(g, e) = r.array
      BY <1>3, <2>2 DEF Gathered
    <3> QED
      BY <2>2, <3>1 DEF IsCounted, Gathered
  <2> QED
    BY <2>1, <2>2
<1>7. Goes(h, g) /\ Plain(g) = Plain(h)
  BY <1>2, <1>3, <1>4, <1>5, <1>6, Counts
<1> QED
  BY <1>3, <1>7 DEF g, Gathered

\* The count goes up or down.
LEMMA CountIs ==
  ASSUME NEW h, CoreInv(h), NEW d \in DOMAIN h.deferred
  PROVE  /\ Goes(h, [h EXCEPT !.deferred[d].pendingCount = @ + 1])
         /\ Goes(h, [h EXCEPT !.deferred[d].pendingCount = @ - 1])
<1> DEFINE r == h.deferred[d]
           u == [r EXCEPT !.pendingCount = @ + 1]
           v == [r EXCEPT !.pendingCount = @ - 1]
<1>1. DOMAIN h = MemoryFields /\ DOMAIN r = DeferredFields
  BY CoreIs DEF ShapeInv
<1>2. IsCounted(h, d, u) /\ IsCounted(h, d, v)
  <2> HIDE DEF r
  <2>1. /\ DOMAIN u = DeferredFields
        /\ u.target = r.target /\ u.messages = r.messages /\ u.listeners = r.listeners
        /\ u.self = r.self /\ u.fulfilled = r.fulfilled /\ u.rejected = r.rejected
        /\ u.progressed = r.progressed /\ u.done = r.done /\ u.answer = r.answer
        /\ u.waiting = r.waiting /\ u.array = r.array
    BY <1>1 DEF DeferredFields
  <2>2. /\ DOMAIN v = DeferredFields
        /\ v.target = r.target /\ v.messages = r.messages /\ v.listeners = r.listeners
        /\ v.self = r.self /\ v.fulfilled = r.fulfilled /\ v.rejected = r.rejected
        /\ v.progressed = r.progressed /\ v.done = r.done /\ v.answer = r.answer
        /\ v.waiting = r.waiting /\ v.array = r.array
    BY <1>1 DEF DeferredFields
  <2> HIDE DEF u, v
  <2> QED
    BY <2>1, <2>2 DEF IsCounted, r
<1>3. /\ [h EXCEPT !.deferred[d].pendingCount = @ + 1]
           = [h EXCEPT !.deferred = [h.deferred EXCEPT ![d] = u]]
      /\ [h EXCEPT !.deferred[d].pendingCount = @ - 1]
           = [h EXCEPT !.deferred = [h.deferred EXCEPT ![d] = v]]
  OBVIOUS
<1> HIDE DEF u, v
<1> QED
  BY <1>2, <1>3, CountsOne

\* The array of all has an item more: in its loop, or when it comes.
Found(h, d, i, x) == [h EXCEPT !.deferred[d].array = With(@, i, x)]

Came(h, d, i, x) ==
  LET r == h.deferred[d]
  IN [h EXCEPT !.deferred[d] =
        [r EXCEPT !.array = With(r.array, i, x), !.pendingCount = r.pendingCount - 1]]

LEMMA GathersIs ==
  ASSUME NEW h, CoreInv(h), NEW d \in DOMAIN h.deferred, Gathered(h, d) # None,
         NEW i, NEW x, KnowsValue(h, x)
  PROVE  /\ Goes(h, Found(h, d, i, x)) /\ Goes(h, Came(h, d, i, x))
         /\ Gathered(Came(h, d, i, x), d) # None
<1> DEFINE r == h.deferred[d]
           a == With(r.array, i, x)
           u == [r EXCEPT !.array = a]
           v == [r EXCEPT !.array = a, !.pendingCount = r.pendingCount - 1]
<1>1. DOMAIN h = MemoryFields /\ DOMAIN r = DeferredFields
  BY CoreIs DEF ShapeInv
<1>2. r.array = Gathered(h, d) /\ KnowsValue(h, r.array)
  BY CoreIs DEF KnownInv, Gathered
<1>3. KnowsValue(h, a)
  BY <1>2, WithKnown DEF KnowsValue, Knows
<1>4. a[1] = "array" /\ a[2] = [Items(r.array) EXCEPT ![i] = x]
  BY DEF With, Array
<1>5. Loose(x)
  BY DEF KnowsValue, IsPromise, Loose
<1> HIDE DEF r, a
<1>6. IsFlat(h, d) => LooseItems(a)
  <2> SUFFICES ASSUME LooseItems(r.array), NEW j \in DOMAIN Items(a) PROVE Loose(Items(a)[j])
    BY <1>2 DEF IsFlat, LooseItems
  <2>1. Items(a) = [Items(r.array) EXCEPT ![i] = x]
    BY <1>4 DEF Items
  <2>2. j \in DOMAIN Items(r.array) /\ Items(a)[j] = IF j = i THEN x ELSE Items(r.array)[j]
    BY <2>1
  <2> QED
    BY <1>5, <2>2 DEF LooseItems
<1>7. /\ DOMAIN u = DeferredFields
      /\ u.target = r.target /\ u.messages = r.messages /\ u.listeners = r.listeners
      /\ u.self = r.self /\ u.fulfilled = r.fulfilled /\ u.rejected = r.rejected
      /\ u.progressed = r.progressed /\ u.done = r.done /\ u.answer = r.answer
      /\ u.waiting = r.waiting /\ u.array = a
  BY <1>1 DEF DeferredFields
<1>8. /\ DOMAIN v = DeferredFields
      /\ v.target = r.target /\ v.messages = r.messages /\ v.listeners = r.listeners
      /\ v.self = r.self /\ v.fulfilled = r.fulfilled /\ v.rejected = r.rejected
      /\ v.progressed = r.progressed /\ v.done = r.done /\ v.answer = r.answer
      /\ v.waiting = r.waiting /\ v.array = a
  BY <1>1 DEF DeferredFields
<1>9. Found(h, d, i, x) = [h EXCEPT !.deferred = [h.deferred EXCEPT ![d] = u]]
  BY DEF a, r, Found
<1>10. Came(h, d, i, x) = [h EXCEPT !.deferred = [h.deferred EXCEPT ![d] = v]]
  BY DEF a, r, Came
<1> HIDE DEF u, v
<1>11. IsCounted(h, d, u) /\ IsCounted(h, d, v)
  BY <1>3, <1>4, <1>6, <1>7, <1>8 DEF IsCounted, r
<1>12. /\ Goes(h, [h EXCEPT !.deferred = [h.deferred EXCEPT ![d] = u]])
       /\ Goes(h, [h EXCEPT !.deferred = [h.deferred EXCEPT ![d] = v]])
       /\ Gathered([h EXCEPT !.deferred = [h.deferred EXCEPT ![d] = v]], d) = a
  BY <1>8, <1>11, CountsOne
<1>13. a # None
  BY <1>4 DEF None
<1> QED
  BY <1>9, <1>10, <1>12, <1>13

\* The loop may be for d.
MayLoop(h, of, d) ==
  \/ of = "all" /\ d \in Own(h) /\ Gathered(h, d) # None
  \/ of \in {"any", "race"} /\ d \in Plain(h)
  \/ of \in {"Q", "noop", "regardless"}

\* The loop leaves something in h.it for each item.
IsMap(of) == of \in {"Q", "noop", "regardless"}

LEMMA MayLoopMore ==
  ASSUME NEW h, NEW g, Goes(h, g), NEW of, NEW d, MayLoop(h, of, d)
  PROVE  MayLoop(g, of, d)
<1>1. Own(h) \subseteq Own(g) /\ Plain(h) \subseteq Plain(g) /\ More(h, g)
  BY GoesIs DEF Goes, Grows, Widens
<1>2. ASSUME d \in Own(h), Gathered(h, d) # None PROVE Gathered(g, d) # None
  <2>1. d \in DOMAIN h.deferred
    BY <1>1, <1>2, SourcesAssumption DEF Own, More
  <2> QED
    BY <1>1, <1>2, <2>1 DEF More
<1> QED
  BY <1>1, <1>2 DEF MayLoop

\* A count, and a call of when.
LEMMA CountedWhen ==
  ASSUME NEW h, CoreInv(h), NEW k, Goes(h, k), NEW x, Knows(h, x),
         NEW fulfilled, IsCallback(h, fulfilled), fulfilled[1] # "spread",
         NEW rejected, IsCallback(h, rejected), rejected[1] # "spread",
         NEW progressed, progressed = None \/ IsListener(h, progressed)
  PROVE  GivesNew(h, When(k, x, fulfilled, rejected, progressed))
<1>1. /\ CoreInv(k) /\ Knows(k, x) /\ IsCallback(k, fulfilled) /\ IsCallback(k, rejected)
      /\ progressed = None \/ IsListener(k, progressed)
  BY GoesIs
<1>2. GivesNew(k, When(k, x, fulfilled, rejected, progressed))
  BY <1>1, WhenPlain
<1> QED
  BY <1>2, YieldsTrans

LEMMA ForItemIs ==
  ASSUME NEW h, CoreInv(h), NEW of, NEW d, MayLoop(h, of, d), NEW i, NEW x, Knows(h, x)
  PROVE  LET g == ForItem(h, of, d, i, x)
         IN Goes(h, g) /\ (IsMap(of) => KnowsPromise(g, g.it))
<1> DEFINE g == ForItem(h, of, d, i, x)
<1> SUFFICES Goes(h, g) /\ (IsMap(of) => KnowsPromise(g, g.it))
  OBVIOUS
<1>0. d \in Own(h) => d \in DOMAIN h.deferred
  BY CoreIs
<1>1. CASE of = "all" /\ IsPromise(x) /\ Inspect(h, x)[1] = "fulfilled"
  <2>1. g = [h EXCEPT !.deferred[d].array = With(@, i, Inspect(h, x)[2])]
    BY <1>1 DEF ForItem
  <2>2. KnowsValue(h, Inspect(h, x)[2])
    <3> DEFINE y == Nearest(h, x)
    <3>1. /\ IsPromise(y)
          /\ y[1] = "deferred" => Inspect(h, x) = Pending
          /\ y[1] = "fulfilled" => Inspect(h, x) = y /\ KnowsValue(h, y[2])
          /\ y[1] = "rejected" => Inspect(h, x) = <<"rejected", y[3]>>
      BY <1>1, InspectIs DEF KnowsPromise
    <3> HIDE DEF y
    <3> QED
      BY <1>1, <3>1 DEF IsPromise, Pending
  <2>3. d \in DOMAIN h.deferred /\ Gathered(h, d) # None
    BY <1>0, <1>1 DEF MayLoop
  <2> DEFINE y == Inspect(h, x)[2]
  <2>4. KnowsValue(h, y) /\ g = Found(h, d, i, y)
    BY <2>1, <2>2 DEF Found
  <2> HIDE DEF y, g
  <2>5. Goes(h, g)
    BY <2>3, <2>4, GathersIs
  <2> QED
    BY <1>1, <2>5 DEF IsMap
<1>2. CASE of = "all" /\ ~(IsPromise(x) /\ Inspect(h, x)[1] = "fulfilled")
  <2> DEFINE k == [h EXCEPT !.deferred[d].pendingCount = @ + 1]
  <2>1. g = When(k, x, <<"gather", d, i>>, <<"reject", d>>, <<"notify", d, i>>)
    BY <1>2 DEF ForItem
  <2>2. d \in Own(h) /\ d \in DOMAIN h.deferred /\ Gathered(h, d) # None
    BY <1>0, <1>2 DEF MayLoop
  <2>3. Goes(h, k)
    BY <2>2, CountIs
  <2>4. /\ IsCallback(h, <<"gather", d, i>>) /\ IsCallback(h, <<"reject", d>>)
        /\ IsListener(h, <<"notify", d, i>>)
    BY <2>2, CallbacksAre
  <2> HIDE DEF k
  <2>5. GivesNew(h, g)
    BY <2>1, <2>3, <2>4, CountedWhen
  <2> QED
    BY <1>2, <2>5 DEF IsMap, GivesNew
<1>3. CASE of = "any"
  <2> DEFINE k == [h EXCEPT !.deferred[d].pendingCount = @ + 1]
  <2>1. g = When(k, x, <<"resolve", d>>, <<"miss", d>>, <<"notify", d, i>>)
    BY <1>3 DEF ForItem
  <2>2. d \in Plain(h) /\ d \in Own(h) /\ d \in DOMAIN h.deferred
    BY <1>0, <1>3, CoreIs DEF MayLoop
  <2>3. Goes(h, k)
    BY <2>2, CountIs
  <2>4. /\ IsCallback(h, <<"resolve", d>>) /\ IsCallback(h, <<"miss", d>>)
        /\ IsListener(h, <<"notify", d, i>>)
    BY <2>2, CallbacksAre
  <2> HIDE DEF k
  <2>5. GivesNew(h, g)
    BY <2>1, <2>3, <2>4, CountedWhen
  <2> QED
    BY <1>3, <2>5 DEF IsMap, GivesNew
<1>4. CASE of = "race"
  <2>1. g = When(h, x, <<"resolve", d>>, <<"reject", d>>, None)
    BY <1>4 DEF ForItem
  <2>2. d \in Plain(h) /\ d \in Own(h)
    BY <1>4, CoreIs DEF MayLoop
  <2>3. IsCallback(h, <<"resolve", d>>) /\ IsCallback(h, <<"reject", d>>)
    BY <2>2, CallbacksAre
  <2>4. GivesNew(h, g)
    BY <2>1, <2>3, GoesSelf, CountedWhen
  <2> QED
    BY <1>4, <2>4 DEF IsMap, GivesNew
<1>5. CASE of = "Q"
  <2>1. g = ToPromise(h, x)
    BY <1>5 DEF ForItem
  <2> QED
    BY <2>1, ToPromiseIs
<1>6. CASE of = "noop"
  <2>1. g = When(h, x, <<"returns", Undefined>>, <<"returns", Undefined>>, None)
    BY <1>6 DEF ForItem
  <2>2. Knows(h, Undefined) /\ Loose(Undefined)
    BY KnownPlain DEF Undefined, Tagged, Knows, Loose
  <2>3. IsCallback(h, <<"returns", Undefined>>)
    BY <2>2, CallbacksAre
  <2>4. GivesNew(h, g)
    BY <2>1, <2>3, GoesSelf, CountedWhen
  <2> QED
    BY <2>4, NewIs
<1>7. CASE of = "regardless"
  <2> DEFINE k == ToPromise(h, x)
  <2>1. g = Then(k, k.it, <<"inspect", k.it>>, <<"inspect", k.it>>, None)
    BY <1>7 DEF ForItem
  <2>2. Goes(h, k) /\ KnowsPromise(k, k.it)
    BY ToPromiseIs
  <2> HIDE DEF k
  <2>3. CoreInv(k) /\ IsCallback(k, <<"inspect", k.it>>)
    BY <2>2, GoesIs, CallbacksAre
  <2>4. MayThen(k, k.it, <<"inspect", k.it>>, <<"inspect", k.it>>, None)
    BY <2>2, <2>3 DEF MayThen
  <2>5. GivesNew(k, g)
    BY <2>1, <2>3, <2>4, ThenIs DEF GivesNew
  <2>6. GivesNew(h, g)
    BY <2>2, <2>5, YieldsTrans
  <2> QED
    BY <2>6, NewIs
<1> HIDE DEF g
<1> QED
  BY <1>1, <1>2, <1>3, <1>4, <1>5, <1>6, <1>7 DEF MayLoop

LEMMA LoopGoes ==
  ASSUME NEW h, CoreInv(h), NEW of, NEW d, MayLoop(h, of, d),
         NEW items, IsSeq(items), \A i \in DOMAIN items : Knows(h, items[i])
  PROVE  LET L == Loop(h, of, d, items)
         IN \A n \in 0..Len(items) :
              /\ Goes(h, L[n])
              /\ IsMap(of) => \A i \in 1..n : KnowsPromise(L[n], L[i].it)
<1> DEFINE L == Loop(h, of, d, items)
           N == Len(items)
           Good(n) == /\ Goes(h, L[n])
                      /\ IsMap(of) => \A i \in 1..n : KnowsPromise(L[n], L[i].it)
           S == {n \in Nat : n \in 0..N => Good(n)}
<1>1. N \in Nat /\ DOMAIN items = 1..N
  BY SeqIs
<1>2. L[0] = h /\ \A n \in 1..N : L[n] = ForItem(L[n - 1], of, d, n, items[n])
  BY LoopIs
<1> HIDE DEF L, N
<1>3. 0 \in S
  BY <1>2, GoesSelf
<1>4. ASSUME NEW n \in Nat, n \in S, n + 1 \in 0..N PROVE Good(n + 1)
  <2> DEFINE k == L[n]
             g == L[n + 1]
  <2>1. n \in 0..N /\ n + 1 \in 1..N /\ (n + 1) - 1 = n
    BY <1>1, <1>4
  <2>2. Good(n)
    BY <1>4, <2>1
  <2>3. g = ForItem(k, of, d, n + 1, items[n + 1])
    BY <1>2, <2>1
  <2>4. Goes(h, k) /\ Knows(h, items[n + 1])
    BY <1>1, <2>1, <2>2
  <2>5. CoreInv(k) /\ MayLoop(k, of, d) /\ Knows(k, items[n + 1])
    BY <2>4, GoesIs, MayLoopMore
  <2>6. Goes(k, g) /\ (IsMap(of) => KnowsPromise(g, g.it))
    BY <2>3, <2>5, ForItemIs
  <2>7. Goes(h, g)
    BY <2>4, <2>6, GoesTrans
  <2>8. ASSUME IsMap(of), NEW i \in 1..(n + 1) PROVE KnowsPromise(g, L[i].it)
    <3>1. CASE i = n + 1
      BY <2>6, <2>8, <3>1
    <3>2. CASE i # n + 1
      <4>1. i \in 1..n
        BY <3>2
      <4>2. KnowsPromise(k, L[i].it)
        BY <2>2, <2>8, <4>1
      <4> QED
        BY <2>6, <4>2, GoesIs
    <3> QED
      BY <3>1, <3>2
  <2> QED
    BY <2>7, <2>8
<1> HIDE DEF Good
<1>5. \A n \in Nat : n \in S => n + 1 \in S
  BY <1>4
<1> HIDE DEF S
<1>6. \A n \in Nat : n \in S
  BY <1>3, <1>5, NatSet
<1>7. \A n \in 0..N : Good(n)
  BY <1>1, <1>6 DEF S
<1> QED
  BY <1>7 DEF Good, L, N

LEMMA OverItemsIs ==
  ASSUME NEW h, CoreInv(h), NEW of, NEW d, MayLoop(h, of, d),
         NEW items, IsSeq(items), \A i \in DOMAIN items : Knows(h, items[i])
  PROVE  Goes(h, OverItems(h, of, d, items))
<1>1. Len(items) \in 0..Len(items)
  BY SeqIs
<1> QED
  BY <1>1, LoopGoes DEF OverItems

LEMMA KnowsArray ==
  ASSUME NEW h, NEW s, IsSeq(s), \A i \in DOMAIN s : Knows(h, s[i])
  PROVE  KnowsValue(h, Array(s)) /\ Array(s)[1] = "array" /\ Array(s)[2] = s
<1> DEFINE n == Len(h.deferred)
           k == h.rejections
           free == Plain(h)
<1>1. \A x : Knows(h, x) <=> Known(n, k, free, x)
  BY DEF Knows
<1> HIDE DEF n, k, free
<1>2. \A i \in DOMAIN s : Known(n, k, free, s[i])
  BY <1>1
<1>3. Known(n, k, free, Array(s)) /\ ~IsPromise(Array(s)) /\ Array(s)[1] = "array" /\ Array(s)[2] = s
  BY <1>2, KnownArray
<1> QED
  BY <1>1, <1>3 DEF KnowsValue

LEMMA MapItemsIs ==
  ASSUME NEW h, CoreInv(h), NEW of, IsMap(of),
         NEW items, IsSeq(items), \A i \in DOMAIN items : Knows(h, items[i])
  PROVE  LET g == MapItems(h, of, items)
         IN Goes(h, g) /\ KnowsValue(g, g.it) /\ g.it[1] = "array"
<1> DEFINE L == Loop(h, of, None, items)
           N == Len(items)
           a == [i \in 1..N |-> L[i].it]
           k == L[N]
           g == MapItems(h, of, items)
<1>1. N \in Nat /\ MayLoop(h, of, None)
  BY SeqIs DEF MayLoop, IsMap
<1>2. Goes(h, k) /\ \A i \in 1..N : KnowsPromise(k, L[i].it)
  <2>1. N \in 0..N
    BY <1>1
  <2> QED
    BY <1>1, <2>1, LoopGoes
<1>3. g = Gives(k, Array(a))
  BY DEF MapItems, Mapped
<1> HIDE DEF L, N, k, g
<1>4. IsSeq(a) /\ DOMAIN a = 1..N /\ \A i \in 1..N : a[i] = L[i].it
  <2>1. DOMAIN a = 1..N /\ a = [i \in DOMAIN a |-> a[i]] /\ \A i \in 1..N : a[i] = L[i].it
    OBVIOUS
  <2> HIDE DEF a
  <2> QED
    BY <1>1, <2>1, IsSeqIs
<1> HIDE DEF a
<1>5. CoreInv(k)
  BY <1>2, GoesIs
<1>6. KnowsValue(k, Array(a)) /\ Array(a)[1] = "array"
  <2>1. \A i \in DOMAIN a : Knows(k, a[i])
    BY <1>2, <1>4 DEF KnowsPromise
  <2> QED
    BY <1>4, <2>1, KnowsArray
<1>7. Goes(k, g) /\ g.it = Array(a)
  BY <1>3, <1>5, GivesIs
<1>8. Goes(h, g) /\ KnowsValue(g, g.it) /\ g.it[1] = "array"
  BY <1>2, <1>6, <1>7, GoesTrans, GoesIs
<1> QED
  BY <1>8 DEF g

-----------------------------------------------------------------------------
(* all, any and the others *)

LEMMA UsualKnown ==
  ASSUME NEW h, CoreInv(h)
  PROVE  /\ KnowsValue(h, Undefined) /\ \A what : KnowsValue(h, Error(what))
         /\ \A x \in Input : Knows(h, x) /\ Loose(x)
         /\ \A x \in Reason : KnowsValue(h, x)
         /\ \A f \in Function : KnowsValue(h, <<"function", f>>)
         /\ \A d \in Plain(h) : KnowsValue(h, <<"nodeback", d>>)
         /\ \A y : KnowsValue(h, <<"snapshot", y>>)
<1> DEFINE n == Len(h.deferred)
           k == h.rejections
           free == Plain(h)
<1>1. \A x : Knows(h, x) <=> Known(n, k, free, x)
  BY DEF Knows
<1>2. n \in Nat /\ k \in Nat /\ Sources <= n
  BY CoreIs
<1>3. \A d \in Plain(h) : d \in free
  OBVIOUS
<1> HIDE DEF n, k, free
<1>4. KnowsValue(h, Undefined)
  BY <1>1, KnownPlain DEF Undefined, Tagged, KnowsValue, IsPromise
<1>5. \A what : KnowsValue(h, Error(what))
  BY <1>1, KnownPlain DEF Error, Tagged, KnowsValue, IsPromise
<1>6. \A y : KnowsValue(h, <<"snapshot", y>>)
  BY <1>1, KnownPlain DEF Tagged, KnowsValue, IsPromise
<1>7. \A x \in Input : Knows(h, x) /\ Loose(x)
  BY <1>1, <1>2, InputKnown
<1>8. \A x \in Reason : KnowsValue(h, x)
  BY <1>1, ReasonKnown DEF KnowsValue
<1>9. \A f \in Function : KnowsValue(h, <<"function", f>>)
  BY <1>1, KnownFunction DEF KnowsValue, IsPromise
<1>10. \A d \in Plain(h) : KnowsValue(h, <<"nodeback", d>>)
  BY <1>1, <1>3, KnownNodeback DEF KnowsValue, IsPromise
<1> QED
  BY <1>4, <1>5, <1>6, <1>7, <1>8, <1>9, <1>10

LEMMA ItemsKnows ==
  ASSUME NEW h, NEW x, Knows(h, x)
  PROVE  IsSeq(Items(x)) /\ \A i \in DOMAIN Items(x) : Knows(h, Items(x)[i])
<1> DEFINE n == Len(h.deferred)
           k == h.rejections
           free == Plain(h)
<1>1. \A y : Knows(h, y) <=> Known(n, k, free, y)
  BY DEF Knows
<1> HIDE DEF n, k, free
<1> QED
  BY <1>1, ItemsKnown

\* A deferred that neither then nor all has made may be resolved with what it may
\* become.
LEMMA FreeResolves ==
  ASSUME NEW h, CoreInv(h), NEW d \in DOMAIN h.deferred, Self(h, d) = None,
         Gathered(h, d) = None, NEW x, Knows(h, x), x[1] = "deferred" => Before(d, x[2]),
         x[1] = "thenable" => d \in Own(h)
  PROVE  Goes(h, Resolve(h, d, x))
<1>1. ~IsFlat(h, d)
  BY DEF IsFlat, None
<1>2. ~IsAll(h, d)
  BY DEF IsAll, None, Fulfilled
<1> QED
  BY <1>1, <1>2, ResolveIs DEF MayResolve

LEMMA PlainResolves ==
  ASSUME NEW h, CoreInv(h), NEW d \in Plain(h), NEW x, Knows(h, x), Loose(x)
  PROVE  Goes(h, Resolve(h, d, x))
<1>1. d \in Own(h) /\ d \in DOMAIN h.deferred /\ Self(h, d) = None /\ Gathered(h, d) = None
  BY CoreIs DEF Plain
<1>2. ~(d <= Sources)
  BY <1>1, CoreIs, SourcesAssumption DEF Own
<1>3. x[1] = "deferred" => Before(d, x[2])
  BY <1>2, SourcesAssumption DEF Loose, Before
<1> QED
  BY <1>1, <1>3, FreeResolves

LEMMA ValueLoose ==
  ASSUME NEW h, NEW x, KnowsValue(h, x)
  PROVE  Knows(h, x) /\ Loose(x)
BY DEF KnowsValue, IsPromise, Loose

\* The value of a step is a deferred that it has made before.
LEMMA GivesDeferred ==
  ASSUME NEW h, CoreInv(h), NEW k, Goes(h, k), NEW d \in DOMAIN k.deferred, d \notin DOMAIN h.deferred
  PROVE  GivesNew(h, Gives(k, Deferred(d)))
<1> DEFINE g == Gives(k, Deferred(d))
<1>1. Goes(k, g) /\ g.deferred = k.deferred /\ g.it = Deferred(d)
  BY GoesIs, GivesIs
<1> HIDE DEF g
<1>2. Goes(h, g)
  BY <1>1, GoesTrans
<1> QED
  BY <1>1, <1>2 DEF GivesNew, g

\* The value of a step is one of no interest, or it throws.
LEMMA GivesPlain ==
  ASSUME NEW h, CoreInv(h), NEW k, Goes(h, k), NEW x, Knows(k, x), Loose(x)
  PROVE  LET g == Gives(k, x) IN Yields(h, g) /\ g.it = x /\ g.deferred = k.deferred
<1> DEFINE g == Gives(k, x)
<1>1. Goes(k, g) /\ g.deferred = k.deferred /\ g.it = x
  BY GoesIs, GivesIs
<1> HIDE DEF g
<1>2. Goes(h, g) /\ Knows(g, x)
  BY <1>1, GoesTrans, GoesIs
<1> QED
  BY <1>1, <1>2 DEF Yields, IsGiven, Loose, g

LEMMA ThrowsPlain ==
  ASSUME NEW h, CoreInv(h), NEW e, KnowsValue(h, e)
  PROVE  LET g == Throws(h, e)
         IN Yields(h, g) /\ g.it = <<"throw", e>> /\ g.deferred = h.deferred
<1> DEFINE g == Throws(h, e)
<1>1. Goes(h, g) /\ g.deferred = h.deferred /\ g.it = <<"throw", e>>
  BY GivesIs
<1> HIDE DEF g
<1>2. KnowsValue(g, e)
  BY <1>1, GoesIs
<1> QED
  BY <1>1, <1>2 DEF Yields, g

LEMMA AllIs ==
  ASSUME NEW h, CoreInv(h), NEW x, Knows(h, x)
  PROVE  LET g == All(h, x)
         IN /\ GivesNew(h, g)
            /\ x[1] = "array" /\ LooseItems(x) =>
                 \E e \in DOMAIN g.deferred : g.it = Deferred(e) /\ IsAll(g, e)
<1> DEFINE g == All(h, x)
<1>1. g = When(h, x, <<"all">>, None, None)
  BY DEF All
<1>2. MayWhen(h, x, <<"all">>, None, None)
  BY CallbacksAre DEF MayWhen
<1>3. /\ GivesNew(h, g)
      /\ ~IsPromise(x) /\ x[1] # "thenable" =>
                 /\ Self(g, g.it[2]) = Fulfilled(x)
                 /\ OnFulfilled(g, g.it[2]) = <<"all">> /\ OnRejected(g, g.it[2]) = None
  BY <1>1, <1>2, WhenIs
<1> HIDE DEF g
<1>4. PICK n \in DOMAIN g.deferred : g.it = Deferred(n)
  BY <1>3 DEF GivesNew
<1>5. ASSUME x[1] = "array", LooseItems(x) PROVE IsAll(g, n)
  BY <1>3, <1>4, <1>5, DeferredIs DEF IsAll, IsPromise
<1> QED
  BY <1>3, <1>4, <1>5 DEF g

\* All items of d are there.
LEMMA FlatResolves ==
  ASSUME NEW h, CoreInv(h), NEW d \in Own(h), Gathered(h, d) # None
  PROVE  Goes(h, Resolve(h, d, Gathered(h, d)))
<1> DEFINE x == Gathered(h, d)
<1>1. d \in DOMAIN h.deferred
  BY CoreIs
<1>2. KnowsValue(h, x) /\ Self(h, d) = None
  BY <1>1, CoreIs DEF KnownInv
<1> HIDE DEF x
<1>3. ~IsAll(h, d)
  BY <1>2 DEF IsAll, None, Fulfilled
<1>4. IsFlat(h, d) => LooseItems(x) /\ x[1] = "array"
  BY DEF IsFlat, x
<1>5. MayResolve(h, d, x)
  BY <1>1, <1>2, <1>3, <1>4 DEF MayResolve, KnowsValue, IsPromise
<1> QED
  BY <1>5, ResolveIs DEF x

LEMMA GatherIs ==
  ASSUME NEW h, CoreInv(h), NEW d \in Own(h), Gathered(h, d) # None, NEW i, NEW x, KnowsValue(h, x)
  PROVE  Goes(h, Gather(h, d, i, x))
<1> DEFINE g == Came(h, d, i, x)
           k == Resolve(g, d, Gathered(g, d))
<1>1. d \in DOMAIN h.deferred
  BY CoreIs
<1>2. Gather(h, d, i, x) = IF g.deferred[d].pendingCount = 0 THEN k ELSE g
  BY DEF Gather, Came, Counted, Gathered
<1>3. Goes(h, g) /\ Gathered(g, d) # None
  BY <1>1, GathersIs
<1> HIDE DEF g, k
<1>6. CoreInv(g) /\ d \in Own(g)
  BY <1>3, GoesIs
<1>7. Goes(g, k)
  BY <1>3, <1>6, FlatResolves DEF k
<1>8. Goes(h, k)
  BY <1>3, <1>7, GoesTrans
<1> QED
  BY <1>2, <1>3, <1>8

\* The deferred of all, before its loop.
AllOpens(h, x) ==
  LET d == Len(h.deferred) + 1 IN [Defer(h) EXCEPT !.deferred[d].array = x]

LEMMA AllOpensIs ==
  ASSUME NEW h, CoreInv(h), NEW x, KnowsValue(h, x), NEW n, n = Len(h.deferred) + 1
  PROVE  LET g == AllOpens(h, x)
         IN /\ Goes(h, g) /\ n \in DOMAIN g.deferred /\ n \notin DOMAIN h.deferred
            /\ n \in Own(g) /\ Gathered(g, n) = x /\ Gathered(g, n) # None
            /\ x[1] = "array" /\ LooseItems(x) => IsFlat(g, n)
<1> DEFINE k == Defer(h)
           a == [NewDeferred EXCEPT !.array = x]
           g == AllOpens(h, x)
<1>1. DOMAIN h = MemoryFields /\ IsSeq(h.deferred) /\ DOMAIN h.deferred = 1..Len(h.deferred)
      /\ Len(h.deferred) \in Nat
  BY CoreIs DEF ShapeInv, TargetsInv
<1>2. k.deferred = Append(h.deferred, NewDeferred)
  BY <1>1 DEF Defer, MemoryFields
<1>3. g.deferred = [Append(h.deferred, NewDeferred) EXCEPT ![n].array = x]
      /\ g.queue = h.queue /\ g.flush = h.flush
  BY <1>1 DEF AllOpens, Defer, MemoryFields
<1>4. SameRest(h, g)
  BY <1>1 DEF AllOpens, Defer, SameRest, MemoryFields
<1> HIDE DEF g, k
<1> DEFINE s == Append(h.deferred, NewDeferred)
<1>5. /\ IsSeq(s) /\ Len(s) = n /\ DOMAIN s = 1..n /\ n \in 1..n /\ n \in Nat
      /\ \A d \in DOMAIN h.deferred : s[d] = h.deferred[d] /\ d # n /\ d \in 1..n
      /\ s[n] = NewDeferred
  BY <1>1, AppendIs
<1>6. g.deferred = [s EXCEPT ![n].array = x]
  BY <1>3
<1> HIDE DEF s
<1>7. /\ DOMAIN g.deferred = 1..n
      /\ \A d \in DOMAIN h.deferred : g.deferred[d] = h.deferred[d]
      /\ g.deferred[n] = a
      /\ g.deferred = [i \in DOMAIN g.deferred |-> g.deferred[i]]
  BY <1>5, <1>6
<1>8. IsSeq(g.deferred) /\ Len(g.deferred) = n
  BY <1>5, <1>7, IsSeqIs
<1>9. /\ DOMAIN a = DeferredFields
      /\ a.target = None /\ a.messages = <<>> /\ a.listeners = <<>>
      /\ a.self = None /\ a.fulfilled = None /\ a.rejected = None
      /\ a.progressed = None /\ a.done = FALSE /\ a.answer = Pending
      /\ a.waiting = <<>> /\ a.array = x
  BY NewDeferredIs DEF DeferredFields
<1> HIDE DEF a
<1>10. /\ IsFresh(g, n) /\ Self(g, n) = None /\ OnFulfilled(g, n) = None
       /\ OnRejected(g, n) = None /\ OnProgress(g, n) = None /\ Gathered(g, n) = x
  BY <1>7, <1>9
     DEF IsFresh, Target, Messages, Listeners, Waiting, IsDone, AnswerOf, Self, Gathered,
         OnFulfilled, OnRejected, OnProgress
<1>11. IsAdded(h, g, n, x)
  BY <1>7, <1>8, <1>10 DEF IsAdded
<1>12. x # None
  BY KnownIs DEF KnowsValue, Knows, None
<1>13. /\ Goes(h, g) /\ n \in DOMAIN g.deferred /\ n \notin DOMAIN h.deferred /\ n \in Own(g)
       /\ Target(g, n) = None /\ Gathered(g, n) = x
  <2> HIDE DEF g
  <2> QED
    BY <1>3, <1>4, <1>11, OpensPlain
<1>14. x[1] = "array" /\ LooseItems(x) => IsFlat(g, n)
  BY <1>13 DEF IsFlat
<1> QED
  BY <1>12, <1>13, <1>14 DEF g

LEMMA AllOfIs ==
  ASSUME NEW h, CoreInv(h), NEW x, KnowsValue(h, x)
  PROVE  LET g == AllOf(h, x)
         IN /\ Yields(h, g)
            /\ x[1] = "array" /\ LooseItems(x) =>
                 \E e \in DOMAIN g.deferred : g.it = Deferred(e) /\ IsFlat(g, e)
<1> DEFINE g == AllOf(h, x)
<1> SUFFICES /\ Yields(h, g)
             /\ x[1] = "array" /\ LooseItems(x) =>
                  \E e \in DOMAIN g.deferred : g.it = Deferred(e) /\ IsFlat(g, e)
  OBVIOUS
<1>1. CASE x = Undefined
  <2>1. g = Throws(h, TypeError) /\ x[1] # "array"
    BY <1>1 DEF AllOf, Undefined
  <2>2. KnowsValue(h, TypeError)
    BY UsualKnown DEF TypeError
  <2> QED
    BY <2>1, <2>2, ThrowsPlain
<1>2. CASE x # Undefined
  <2> DEFINE d == Len(h.deferred) + 1
             a == AllOpens(h, x)
             l == OverItems(a, "all", d, Items(x))
             r == Resolve(l, d, Gathered(l, d))
             k == IF l.deferred[d].pendingCount = 0 THEN r ELSE l
  <2>1. g = Gives(k, Deferred(d))
    BY <1>2 DEF AllOf, AllOpens, Counted, Gathered
  <2>2. /\ Goes(h, a) /\ d \in DOMAIN a.deferred /\ d \notin DOMAIN h.deferred
        /\ d \in Own(a) /\ Gathered(a, d) # None
        /\ x[1] = "array" /\ LooseItems(x) => IsFlat(a, d)
    BY AllOpensIs
  <2> HIDE DEF g, d, a
  <2>3. IsSeq(Items(x)) /\ \A i \in DOMAIN Items(x) : Knows(h, Items(x)[i])
    BY ItemsKnows DEF KnowsValue
  <2>4. CoreInv(a) /\ MayLoop(a, "all", d) /\ \A i \in DOMAIN Items(x) : Knows(a, Items(x)[i])
    BY <2>2, <2>3, GoesIs DEF MayLoop
  <2>5. Goes(a, l)
    BY <2>3, <2>4, OverItemsIs
  <2> HIDE DEF l
  <2>6. CoreInv(l) /\ MayLoop(l, "all", d)
    BY <2>4, <2>5, GoesIs, MayLoopMore
  <2>7. Goes(l, r)
    BY <2>6, FlatResolves DEF MayLoop
  <2> HIDE DEF r
  <2>8. Goes(a, k)
    BY <2>4, <2>5, <2>7, GoesTrans
  <2> HIDE DEF k
  <2>9. Goes(h, k) /\ d \in DOMAIN k.deferred /\ (IsFlat(a, d) => IsFlat(k, d)) /\ CoreInv(k)
    <3>1. IsFlat(a, d) => IsFlat(k, d)
      BY <2>2, <2>8 DEF Goes, Grows, Widens, More
    <3>2. d \in DOMAIN k.deferred /\ CoreInv(k)
      BY <2>2, <2>8, GoesIs
    <3> QED
      BY <2>2, <2>8, <3>1, <3>2, GoesTrans
  <2>10. GivesNew(h, g)
    BY <2>1, <2>2, <2>9, GivesDeferred
  <2>11. Goes(k, g) /\ g.it = Deferred(d) /\ g.deferred = k.deferred
    BY <2>1, <2>9, GivesIs
  <2>12. IsFlat(k, d) => IsFlat(g, d)
    BY <2>9, <2>11 DEF Goes, Grows, Widens, More
  <2> QED
    BY <2>2, <2>9, <2>10, <2>11, <2>12, NewIs
<1> QED
  BY <1>1, <1>2

LEMMA MissIs ==
  ASSUME NEW h, CoreInv(h), NEW d \in Own(h)
  PROVE  Goes(h, Miss(h, d))
<1> DEFINE g == [h EXCEPT !.deferred[d].pendingCount = @ - 1]
           k == Reject(g, d, NoneFulfilled)
<1>1. Miss(h, d) = IF g.deferred[d].pendingCount = 0 THEN k ELSE g
  BY DEF Miss
<1>2. Goes(h, g)
  BY CoreIs, CountIs
<1> HIDE DEF g
<1>3. CoreInv(g) /\ d \in DOMAIN g.deferred
  BY <1>2, CoreIs, GoesIs
<1>4. KnowsValue(g, NoneFulfilled)
  BY <1>3, UsualKnown DEF NoneFulfilled
<1>5. Goes(g, k)
  BY <1>3, <1>4, RejectIs
<1>6. Goes(h, k)
  BY <1>2, <1>5, GoesTrans
<1> QED
  BY <1>1, <1>2, <1>6

LEMMA AnyOfIs ==
  ASSUME NEW h, CoreInv(h), NEW items, IsSeq(items), \A i \in DOMAIN items : Knows(h, items[i])
  PROVE  LET g == AnyOf(h, items) IN Yields(h, g) /\ KnowsPromise(g, g.it)
<1> DEFINE g == AnyOf(h, items)
<1> SUFFICES Yields(h, g) /\ KnowsPromise(g, g.it)
  OBVIOUS
<1>1. CASE items = <<>>
  <2>1. g = ToPromise(h, Undefined)
    BY <1>1 DEF AnyOf
  <2>2. Knows(h, Undefined) /\ ~IsPromise(Undefined) /\ Undefined[1] # "thenable"
    BY UsualKnown DEF KnowsValue, Undefined, IsPromise
  <2>3. Goes(h, g) /\ KnowsPromise(g, g.it) /\ g.it = Fulfilled(Undefined)
    BY <2>1, <2>2, ToPromiseIs
  <2> HIDE DEF g
  <2>4. g.it[1] = "fulfilled"
    BY <2>3 DEF Fulfilled
  <2> QED
    BY <2>3, <2>4 DEF Yields, IsGiven, KnowsPromise
<1>2. CASE items # <<>>
  <2> DEFINE d == Len(h.deferred) + 1
             a == Defer(h)
             l == OverItems(a, "any", d, items)
  <2>1. g = Gives(l, Deferred(d))
    BY <1>2 DEF AnyOf
  <2>2. Goes(h, a) /\ d \in Plain(a) /\ d \in DOMAIN a.deferred /\ d \notin DOMAIN h.deferred
    BY DeferIs
  <2> HIDE DEF g, d, a
  <2>3. CoreInv(a) /\ MayLoop(a, "any", d) /\ \A i \in DOMAIN items : Knows(a, items[i])
    BY <2>2, GoesIs DEF MayLoop
  <2>4. Goes(a, l)
    BY <2>3, OverItemsIs
  <2> HIDE DEF l
  <2>5. Goes(h, l) /\ d \in DOMAIN l.deferred
    BY <2>2, <2>4, GoesTrans, GoesIs
  <2>6. GivesNew(h, g)
    BY <2>1, <2>2, <2>5, GivesDeferred
  <2> QED
    BY <2>6, NewIs
<1> QED
  BY <1>1, <1>2

\* Then, whose callbacks spread nothing.
LEMMA ThenPlain ==
  ASSUME NEW h, CoreInv(h), NEW x, KnowsPromise(h, x), NEW fulfilled, NEW rejected, NEW progressed,
         fulfilled = None \/ (IsCallback(h, fulfilled) /\ fulfilled[1] # "spread"),
         rejected = None \/ (IsCallback(h, rejected) /\ rejected[1] # "spread"),
         progressed = None \/ IsListener(h, progressed)
  PROVE  GivesNew(h, Then(h, x, fulfilled, rejected, progressed))
<1>1. None[1] = "none"
  BY DEF None
<1>2. MayThen(h, x, fulfilled, rejected, progressed)
  BY <1>1, NotSpread DEF MayThen
<1> QED
  BY <1>2, ThenIs DEF GivesNew

\* What is done after a step that makes a promise.
LEMMA AfterNew ==
  ASSUME NEW h, CoreInv(h), NEW k, GivesNew(h, k), NEW g
  PROVE  /\ CoreInv(k) /\ KnowsPromise(k, k.it) /\ Knows(k, k.it)
         /\ Goes(k, g) => Goes(h, g)
         /\ GivesNew(k, g) => GivesNew(h, g)
         /\ Yields(k, g) => Yields(h, g)
BY NewIs, GoesIs, YieldsTrans DEF KnowsPromise

LEMMA AllResolvedOfIs ==
  ASSUME NEW h, CoreInv(h), NEW x, KnowsValue(h, x)
  PROVE  Yields(h, AllResolvedOf(h, x))
<1>1. CASE x = Undefined
  <2>1. AllResolvedOf(h, x) = Throws(h, TypeError)
    BY <1>1 DEF AllResolvedOf
  <2>2. KnowsValue(h, TypeError)
    BY UsualKnown DEF TypeError
  <2> QED
    BY <2>1, <2>2, ThrowsPlain
<1>2. CASE x # Undefined
  <2> DEFINE g == MapItems(h, "Q", Items(x))
             k == MapItems(g, "noop", Items(g.it))
             a == All(k, k.it)
             w == When(a, a.it, <<"returns", g.it>>, None, None)
  <2>1. AllResolvedOf(h, x) = w
    BY <1>2 DEF AllResolvedOf, OnceSettled, AllOfIt, ThenResolve
  <2>2. IsSeq(Items(x)) /\ \A i \in DOMAIN Items(x) : Knows(h, Items(x)[i])
    BY ItemsKnows DEF KnowsValue
  <2>3. Goes(h, g) /\ KnowsValue(g, g.it)
    BY <2>2, MapItemsIs DEF IsMap
  <2> HIDE DEF g
  <2>4. CoreInv(g) /\ IsSeq(Items(g.it)) /\ \A i \in DOMAIN Items(g.it) : Knows(g, Items(g.it)[i])
    BY <2>3, ItemsKnows, GoesIs DEF KnowsValue
  <2>5. Goes(g, k) /\ KnowsValue(k, k.it)
    BY <2>4, MapItemsIs DEF IsMap
  <2> HIDE DEF k
  <2>6. CoreInv(k) /\ Knows(k, k.it)
    BY <2>5, GoesIs DEF KnowsValue
  <2>7. GivesNew(k, a)
    BY <2>6, AllIs
  <2> HIDE DEF a
  <2>8. GivesNew(g, a)
    BY <2>4, <2>5, <2>7, YieldsTrans
  <2>9. CoreInv(a) /\ Knows(a, a.it) /\ Goes(g, a)
    BY <2>4, <2>8, AfterNew, NewIs
  <2>10. KnowsValue(a, g.it)
    BY <2>3, <2>9, GoesIs
  <2>11. IsCallback(a, <<"returns", g.it>>)
    BY <2>10, ValueLoose, CallbacksAre
  <2>12. GivesNew(a, w)
    BY <2>9, <2>11, WhenPlain
  <2>13. GivesNew(g, w)
    BY <2>4, <2>8, <2>12, AfterNew
  <2>14. GivesNew(h, w)
    BY <2>3, <2>13, YieldsTrans
  <2> QED
    BY <2>1, <2>14, NewIs
<1> QED
  BY <1>1, <1>2

LEMMA AllSettledOfIs ==
  ASSUME NEW h, CoreInv(h), NEW x, KnowsValue(h, x)
  PROVE  Yields(h, AllSettledOf(h, x))
<1>1. CASE x = Undefined
  <2>1. AllSettledOf(h, x) = Throws(h, TypeError)
    BY <1>1 DEF AllSettledOf
  <2>2. KnowsValue(h, TypeError)
    BY UsualKnown DEF TypeError
  <2> QED
    BY <2>1, <2>2, ThrowsPlain
<1>2. CASE x # Undefined
  <2> DEFINE g == MapItems(h, "regardless", Items(x))
             a == All(g, g.it)
  <2>1. AllSettledOf(h, x) = a
    BY <1>2 DEF AllSettledOf, AllOfIt
  <2>2. IsSeq(Items(x)) /\ \A i \in DOMAIN Items(x) : Knows(h, Items(x)[i])
    BY ItemsKnows DEF KnowsValue
  <2>3. Goes(h, g) /\ KnowsValue(g, g.it)
    BY <2>2, MapItemsIs DEF IsMap
  <2> HIDE DEF g
  <2>4. CoreInv(g) /\ Knows(g, g.it)
    BY <2>3, GoesIs DEF KnowsValue
  <2>5. GivesNew(g, a)
    BY <2>4, AllIs
  <2>6. GivesNew(h, a)
    BY <2>3, <2>5, YieldsTrans
  <2> QED
    BY <2>1, <2>6, NewIs
<1> QED
  BY <1>1, <1>2

LEMMA RaceIs ==
  ASSUME NEW h, CoreInv(h), NEW x, Knows(h, x)
  PROVE  GivesNew(h, Race(h, x))
<1> DEFINE n == Len(h.deferred) + 1
           g == Defer(h)
           d == Len(g.deferred)
           k == IF x = Undefined THEN Reject(g, d, TypeError) ELSE OverItems(g, "race", d, Items(x))
<1>1. Race(h, x) = Gives(k, Deferred(d))
  BY DEF Race
<1>2. /\ Goes(h, g) /\ d = n /\ n \in Plain(g)
      /\ n \in DOMAIN g.deferred /\ n \notin DOMAIN h.deferred
  BY DeferIs
<1> HIDE DEF g, n, d
<1>3. CoreInv(g) /\ Knows(g, x)
  BY <1>2, GoesIs
<1>4. IsSeq(Items(x)) /\ \A i \in DOMAIN Items(x) : Knows(g, Items(x)[i])
  BY <1>3, ItemsKnows
<1>5. Goes(g, k)
  <2>1. CASE x = Undefined
    <3>1. KnowsValue(g, TypeError)
      BY <1>3, UsualKnown DEF TypeError
    <3> QED
      BY <1>2, <1>3, <2>1, <3>1, RejectIs
  <2>2. CASE x # Undefined
    <3>1. MayLoop(g, "race", d)
      BY <1>2 DEF MayLoop
    <3> QED
      BY <1>3, <1>4, <2>2, <3>1, OverItemsIs
  <2> QED
    BY <2>1, <2>2
<1> HIDE DEF k
<1>6. Goes(h, k) /\ d \in DOMAIN k.deferred
  BY <1>2, <1>5, GoesTrans, GoesIs
<1> QED
  BY <1>1, <1>2, <1>6, GivesDeferred

\* A script may settle the deferred too.
LEMMA OutsideIs ==
  ASSUME NEW h, CoreInv(h), NEW d \in Plain(h)
  PROVE  LET g == [h EXCEPT !.outside = @ \cup {d}]
         IN Goes(h, g) /\ g.deferred = h.deferred /\ g.it = h.it
<1> DEFINE g == [h EXCEPT !.outside = @ \cup {d}]
<1>1. DOMAIN h = MemoryFields /\ h.outside \subseteq 1..Sources \cup Plain(h)
  BY CoreIs DEF ShapeInv, KnownInv
<1>2. /\ DOMAIN g = MemoryFields /\ g.deferred = h.deferred
      /\ g.queue = h.queue /\ g.flush = h.flush /\ g.held = h.held /\ g.late = h.late
      /\ g.rejections = h.rejections /\ g.unhandled = h.unhandled /\ g.timers = h.timers
      /\ g.it = h.it /\ g.outside = h.outside \cup {d}
  BY <1>1 DEF MemoryFields
<1> HIDE DEF g
<1>3. g.outside \subseteq 1..Sources \cup Plain(h)
  BY <1>1, <1>2
<1>4. Goes(h, g)
  BY <1>2, <1>3, Alike
<1> QED
  BY <1>2, <1>4 DEF g

\* A timer is set.
LEMMA TimerIs ==
  ASSUME NEW h, CoreInv(h), NEW timer, timer[2] \in Plain(h), timer[1] \in {"timeout", "delay"},
         timer[1] = "delay" => KnowsValue(h, timer[3])
  PROVE  LET g == [h EXCEPT !.timers = @ \cup {timer}]
         IN Goes(h, g) /\ g.deferred = h.deferred /\ g.it = h.it
<1> DEFINE g == [h EXCEPT !.timers = @ \cup {timer}]
<1>1. DOMAIN h = MemoryFields /\ h.outside \subseteq 1..Sources \cup Plain(h)
  BY CoreIs DEF ShapeInv, KnownInv
<1>2. /\ DOMAIN g = MemoryFields /\ g.deferred = h.deferred
      /\ g.queue = h.queue /\ g.flush = h.flush /\ g.held = h.held /\ g.late = h.late
      /\ g.rejections = h.rejections /\ g.unhandled = h.unhandled /\ g.outside = h.outside
      /\ g.it = h.it /\ g.timers = h.timers \cup {timer}
  BY <1>1 DEF MemoryFields
<1> HIDE DEF g
<1>3. \A t \in g.timers :
        \/ t \in h.timers
        \/ /\ t[2] \in Plain(h) /\ t[1] \in {"timeout", "delay"}
           /\ t[1] = "delay" => KnowsValue(h, t[3])
  BY <1>2
<1>4. Goes(h, g)
  BY <1>1, <1>2, <1>3, Alike
<1> QED
  BY <1>2, <1>4 DEF g

LEMMA NewPromiseIs ==
  ASSUME NEW h, CoreInv(h), NEW resolver \in Resolver
  PROVE  GivesNew(h, NewPromise(h, resolver))
<1> DEFINE n == Len(h.deferred) + 1
           g == Defer(h)
           d == Len(g.deferred)
<1>1. /\ Goes(h, g) /\ d = n /\ n \in Plain(g) /\ g.it = Deferred(n)
      /\ n \in DOMAIN g.deferred /\ n \notin DOMAIN h.deferred
  BY DeferIs
<1>2. CASE resolver[1] = "throws"
  <2> DEFINE k == Reject(g, d, resolver[2])
  <2>1. NewPromise(h, resolver) = Gives(k, Deferred(d))
    BY <1>2 DEF NewPromise
  <2>2. resolver[2] \in Reason
    BY <1>2 DEF Resolver
  <2> HIDE DEF g, n, d
  <2>3. CoreInv(g) /\ KnowsValue(g, resolver[2])
    BY <1>1, <2>2, GoesIs, UsualKnown
  <2>4. Goes(g, k)
    BY <1>1, <2>3, RejectIs
  <2> HIDE DEF k
  <2>5. Goes(h, k) /\ d \in DOMAIN k.deferred
    BY <1>1, <2>4, GoesTrans, GoesIs
  <2> QED
    BY <1>1, <2>1, <2>5, GivesDeferred
<1>3. CASE resolver[1] = "keeps"
  <2> DEFINE k == [g EXCEPT !.outside = @ \cup {d}]
  <2>1. NewPromise(h, resolver) = k
    BY <1>3 DEF NewPromise
  <2> HIDE DEF g, n, d
  <2>2. CoreInv(g)
    BY <1>1, GoesIs
  <2>3. Goes(g, k) /\ k.deferred = g.deferred /\ k.it = g.it
    BY <1>1, <2>2, OutsideIs
  <2> HIDE DEF k
  <2>4. Goes(h, k)
    BY <1>1, <2>3, GoesTrans
  <2> QED
    BY <1>1, <2>1, <2>3, <2>4 DEF GivesNew
<1>4. resolver[1] \in {"throws", "keeps"}
  BY DEF Resolver
<1> QED
  BY <1>2, <1>3, <1>4

LEMMA SpreadIs ==
  ASSUME NEW h, CoreInv(h), NEW x, Knows(h, x),
         NEW fulfilled, \/ fulfilled \in Function
                        \/ fulfilled = <<"same">> /\ x[1] = "array" /\ LooseItems(x),
         NEW rejected, rejected = None \/ rejected \in Function
  PROVE  GivesNew(h, Spread(h, x, fulfilled, rejected))
<1> DEFINE g == All(h, x)
           k == When(g, g.it, <<"spread", fulfilled>>, rejected, None)
<1>1. Spread(h, x, fulfilled, rejected) = k
  BY DEF Spread
<1>2. /\ GivesNew(h, g)
      /\ x[1] = "array" /\ LooseItems(x) =>
           \E e \in DOMAIN g.deferred : g.it = Deferred(e) /\ IsAll(g, e)
  BY AllIs
<1> HIDE DEF g
<1>3. CoreInv(g) /\ Knows(g, g.it)
  BY <1>2, AfterNew
<1>4. IsCallback(g, <<"spread", fulfilled>>)
  BY CallbacksAre
<1>5. rejected = None \/ (IsCallback(g, rejected) /\ rejected[1] # "spread")
  BY FunctionIs
<1>6. fulfilled \in Function => fulfilled # <<"same">>
  BY FunctionIs
<1>7. <<"spread", fulfilled>> = <<"spread", <<"same">>>> => fulfilled = <<"same">>
  OBVIOUS
<1>8. MayWhen(g, g.it, <<"spread", fulfilled>>, rejected, None)
  BY <1>2, <1>3, <1>4, <1>5, <1>6, <1>7 DEF MayWhen
<1>9. GivesNew(g, k)
  BY <1>3, <1>8, WhenIs
<1> QED
  BY <1>1, <1>2, <1>9, AfterNew

LEMMA PairIs ==
  ASSUME NEW x, NEW y
  PROVE  /\ IsSeq(<<x, y>>) /\ DOMAIN <<x, y>> = {1, 2} /\ <<x, y>>[1] = x /\ <<x, y>>[2] = y
         /\ Items(Array(<<x, y>>)) = <<x, y>>
<1>1. <<x, y>> \in Seq({x, y})
  OBVIOUS
<1>2. IsSeq(<<x, y>>)
  BY <1>1 DEF IsSeq
<1>3. Items(Array(<<x, y>>)) = <<x, y>>
  BY DEF Items, Array
<1>4. DOMAIN <<x, y>> = {1, 2} /\ <<x, y>>[1] = x /\ <<x, y>>[2] = y
  OBVIOUS
<1> QED
  BY <1>2, <1>3, <1>4

LEMMA KnowsPair ==
  ASSUME NEW h, NEW x, Knows(h, x), NEW y, Knows(h, y)
  PROVE  /\ Knows(h, Array(<<x, y>>)) /\ Array(<<x, y>>)[1] = "array"
         /\ Loose(x) /\ Loose(y) => LooseItems(Array(<<x, y>>))
<1> DEFINE s == <<x, y>>
<1>1. IsSeq(s) /\ DOMAIN s = {1, 2} /\ s[1] = x /\ s[2] = y /\ Items(Array(s)) = s
  BY PairIs
<1> HIDE DEF s
<1>2. \A i \in DOMAIN s : Knows(h, s[i])
  BY <1>1
<1>3. KnowsValue(h, Array(s)) /\ Array(s)[1] = "array"
  BY <1>1, <1>2, KnowsArray
<1>4. Loose(x) /\ Loose(y) => LooseItems(Array(s))
  BY <1>1 DEF LooseItems
<1> QED
  BY <1>3, <1>4 DEF KnowsValue, s

LEMMA JoinIs ==
  ASSUME NEW h, CoreInv(h), NEW x, Knows(h, x), Loose(x), NEW y, Knows(h, y), Loose(y)
  PROVE  GivesNew(h, Join(h, x, y))
<1>1. /\ Knows(h, Array(<<x, y>>)) /\ Array(<<x, y>>)[1] = "array"
      /\ LooseItems(Array(<<x, y>>))
  BY KnowsPair
<1> QED
  BY <1>1, SpreadIs DEF Join

LEMMA PromisedIs ==
  ASSUME NEW h, CoreInv(h), NEW self, Knows(h, self),
         NEW args, IsSeq(args), \A i \in DOMAIN args : Knows(h, args[i]), NEW f \in Function
  PROVE  GivesNew(h, Promised(h, self, args, f))
<1> DEFINE g == All(h, Array(args))
           k == Spread(g, Array(<<self, g.it>>), f, None)
<1>1. Promised(h, self, args, f) = k
  BY DEF Promised
<1>2. Knows(h, Array(args))
  BY KnowsArray DEF KnowsValue
<1>3. GivesNew(h, g)
  BY <1>2, AllIs
<1> HIDE DEF g
<1>4. CoreInv(g) /\ Knows(g, g.it) /\ Knows(g, self)
  BY <1>3, AfterNew, NewIs, GoesIs
<1>5. Knows(g, Array(<<self, g.it>>))
  BY <1>4, KnowsPair
<1>6. GivesNew(g, k)
  BY <1>4, <1>5, SpreadIs
<1> QED
  BY <1>1, <1>3, <1>6, AfterNew

\* The calls that give callbacks to when.
LEMMA WhensAre ==
  ASSUME NEW h, CoreInv(h), NEW x, Knows(h, x)
  PROVE  /\ \A f \in Function : GivesNew(h, Tap(h, x, f)) /\ GivesNew(h, Finally(h, x, f))
         /\ GivesNew(h, Delay(h, x)) /\ GivesNew(h, AllResolved(h, x))
         /\ GivesNew(h, AllSettled(h, x)) /\ GivesNew(h, When(h, x, <<"race">>, None, None))
         /\ \A y : Knows(h, y) /\ Loose(y) => GivesNew(h, ThenResolve(h, x, y))
         /\ \A e : KnowsValue(h, e) => GivesNew(h, ThenReject(h, x, e))
         /\ \A d \in Own(h) : GivesNew(h, Fail(h, x, <<"reject", d>>))
<1>1. /\ IsCallback(h, <<"delay">>) /\ IsCallback(h, <<"allResolved">>)
      /\ IsCallback(h, <<"allSettled">>) /\ IsCallback(h, <<"race">>)
      /\ \A y : Knows(h, y) /\ Loose(y) => IsCallback(h, <<"returns", y>>)
      /\ \A e : KnowsValue(h, e) => IsCallback(h, <<"throws", e>>)
      /\ \A d \in Own(h) : IsCallback(h, <<"reject", d>>)
  BY CallbacksAre
<1>2. ASSUME NEW f \in Function PROVE GivesNew(h, Tap(h, x, f)) /\ GivesNew(h, Finally(h, x, f))
  <2> DEFINE v == <<"function", f>>
  <2>1. KnowsValue(h, v)
    BY UsualKnown
  <2> HIDE DEF v
  <2>2. /\ IsCallback(h, <<"tap", v>>) /\ IsCallback(h, <<"finally", v, "returns">>)
        /\ IsCallback(h, <<"finally", v, "throws">>)
    BY <2>1, CallbacksAre
  <2>3. /\ GivesNew(h, When(h, x, <<"tap", v>>, None, None))
        /\ GivesNew(h, When(h, x, <<"finally", v, "returns">>, <<"finally", v, "throws">>, None))
    BY <2>2, WhenPlain
  <2> QED
    BY <2>3 DEF v, Tap, Finally
<1>3. /\ GivesNew(h, When(h, x, <<"delay">>, None, None))
      /\ GivesNew(h, When(h, x, <<"allResolved">>, None, None))
      /\ GivesNew(h, When(h, x, <<"allSettled">>, None, None))
      /\ GivesNew(h, When(h, x, <<"race">>, None, None))
  BY <1>1, WhenPlain
<1>4. \A y : Knows(h, y) /\ Loose(y) => GivesNew(h, When(h, x, <<"returns", y>>, None, None))
  BY <1>1, WhenPlain
<1>5. \A e : KnowsValue(h, e) => GivesNew(h, When(h, x, <<"throws", e>>, None, None))
  BY <1>1, WhenPlain
<1>6. \A d \in Own(h) : GivesNew(h, When(h, x, None, <<"reject", d>>, None))
  BY <1>1, WhenPlain
<1> QED
  BY <1>2, <1>3, <1>4, <1>5, <1>6 DEF Delay, AllResolved, AllSettled, ThenResolve, ThenReject, Fail

LEMMA TimeoutIs ==
  ASSUME NEW h, CoreInv(h), NEW x, Knows(h, x)
  PROVE  GivesNew(h, Timeout(h, x))
<1> DEFINE d == Len(h.deferred) + 1
           a == Defer(h)
           g == [a EXCEPT !.timers = @ \cup {<<"timeout", d>>}]
           k == When(g, x, <<"clears", d, "resolve">>, <<"clears", d, "reject">>, <<"notify", d>>)
<1>1. Timeout(h, x) = Gives(k, Deferred(d))
  BY DEF Timeout
<1>2. Goes(h, a) /\ d \in Plain(a) /\ d \in DOMAIN a.deferred /\ d \notin DOMAIN h.deferred
  BY DeferIs
<1> HIDE DEF a, d
<1>3. CoreInv(a)
  BY <1>2, GoesIs
<1>4. Goes(a, g)
  BY <1>2, <1>3, TimerIs
<1> HIDE DEF g
<1>5. Goes(h, g)
  BY <1>2, <1>4, GoesTrans
<1>6. CoreInv(g) /\ Knows(g, x) /\ d \in Plain(g) /\ d \in Own(g)
  BY <1>2, <1>4, <1>5, GoesIs, CoreIs
<1>7. /\ IsCallback(g, <<"clears", d, "resolve">>) /\ IsCallback(g, <<"clears", d, "reject">>)
      /\ IsListener(g, <<"notify", d>>)
  BY <1>6, CallbacksAre
<1>8. GivesNew(g, k)
  BY <1>6, <1>7, WhenPlain
<1> HIDE DEF k
<1>9. Goes(a, k) /\ Goes(h, k)
  BY <1>2, <1>3, <1>4, <1>8, NewIs, GoesTrans
<1>10. d \in DOMAIN k.deferred
  BY <1>2, <1>9, GoesIs
<1> QED
  BY <1>1, <1>2, <1>9, <1>10, GivesDeferred

LEMMA FcallIs ==
  ASSUME NEW h, CoreInv(h), NEW x, Knows(h, x), NEW arg, Knows(h, arg)
  PROVE  GivesNew(h, Fcall(h, x, arg))
BY AskIs DEF Fcall

LEMMA NfapplyIs ==
  ASSUME NEW h, CoreInv(h), NEW f \in Function
  PROVE  GivesNew(h, Nfapply(h, f))
<1> DEFINE d == Len(h.deferred) + 1
           a == Defer(h)
           g == Fcall(a, <<"function", f>>, <<"nodeback", d>>)
           k == Fail(g, g.it, <<"reject", d>>)
<1>1. Nfapply(h, f) = Gives(k, Deferred(d))
  BY DEF Nfapply
<1>2. Goes(h, a) /\ d \in Plain(a) /\ d \in DOMAIN a.deferred /\ d \notin DOMAIN h.deferred
  BY DeferIs
<1> HIDE DEF a, d
<1>3. CoreInv(a) /\ d \in Own(a)
  BY <1>2, GoesIs, CoreIs
<1>4. Knows(a, <<"function", f>>) /\ Knows(a, <<"nodeback", d>>)
  BY <1>2, <1>3, UsualKnown DEF KnowsValue
<1>5. GivesNew(a, g)
  BY <1>3, <1>4, FcallIs
<1> HIDE DEF g
<1>6. CoreInv(g) /\ Knows(g, g.it) /\ d \in Own(g)
  BY <1>3, <1>5, AfterNew, NewIs, GoesIs
<1>7. GivesNew(g, k)
  BY <1>6, WhensAre
<1> HIDE DEF k
<1>8. Goes(a, k)
  BY <1>3, <1>5, <1>7, AfterNew, NewIs
<1>9. Goes(h, k) /\ d \in DOMAIN k.deferred
  BY <1>2, <1>8, GoesTrans, GoesIs
<1> QED
  BY <1>1, <1>2, <1>9, GivesDeferred

\* Done: what it is left with is thrown.
LEMMA DoneIs ==
  ASSUME NEW h, CoreInv(h), NEW x, Knows(h, x),
         NEW fulfilled, fulfilled = None \/ fulfilled \in Function,
         NEW rejected, rejected = None \/ rejected \in Function,
         NEW progressed, progressed = None \/ progressed \in Function
  PROVE  Yields(h, Done(h, x, fulfilled, rejected, progressed))
<1> DEFINE a == ToPromise(h, x)
           b == When(h, x, fulfilled, rejected, progressed)
           g == IF {fulfilled, rejected, progressed} = {None} THEN a ELSE b
           k == Then(g, g.it, None, <<"unhandled">>, None)
<1>1. Done(h, x, fulfilled, rejected, progressed) = Gives(k, Undefined)
  BY DEF Done
<1>2. Goes(h, a) /\ KnowsPromise(a, a.it)
  BY ToPromiseIs
<1>3. Goes(h, b) /\ KnowsPromise(b, b.it)
  <2>1. /\ fulfilled = None \/ (IsCallback(h, fulfilled) /\ fulfilled[1] # "spread")
        /\ rejected = None \/ (IsCallback(h, rejected) /\ rejected[1] # "spread")
        /\ progressed = None \/ IsListener(h, progressed)
    BY FunctionIs
  <2>2. GivesNew(h, b)
    BY <2>1, WhenPlain
  <2> HIDE DEF b
  <2> QED
    BY <2>2, NewIs
<1> HIDE DEF a, b
<1>4. Goes(h, g) /\ KnowsPromise(g, g.it)
  BY <1>2, <1>3
<1> HIDE DEF g
<1>5. CoreInv(g)
  BY <1>4, GoesIs
<1>6. IsCallback(g, <<"unhandled">>)
  BY CallbacksAre
<1>7. GivesNew(g, k)
  BY <1>4, <1>5, <1>6, ThenPlain
<1> HIDE DEF k
<1>8. Goes(h, k) /\ CoreInv(k)
  BY <1>4, <1>7, NewIs, GoesTrans, GoesIs
<1>9. Knows(k, Undefined) /\ Loose(Undefined)
  BY <1>8, UsualKnown, ValueLoose
<1> QED
  BY <1>1, <1>8, <1>9, GivesPlain

LEMMA NodeifyIs ==
  ASSUME NEW h, CoreInv(h), NEW x, Knows(h, x)
  PROVE  Yields(h, Nodeify(h, x))
<1> DEFINE k == When(h, x, <<"tells", "value">>, <<"tells", "error">>, None)
<1>1. Nodeify(h, x) = Gives(k, Undefined)
  BY DEF Nodeify
<1>2. IsCallback(h, <<"tells", "value">>) /\ IsCallback(h, <<"tells", "error">>)
  BY CallbacksAre
<1>3. GivesNew(h, k)
  BY <1>2, WhenPlain
<1> HIDE DEF k
<1>4. CoreInv(k) /\ Goes(h, k)
  BY <1>3, AfterNew, NewIs
<1>5. Knows(k, Undefined) /\ Loose(Undefined)
  BY <1>4, UsualKnown, ValueLoose
<1> QED
  BY <1>1, <1>4, <1>5, GivesPlain

\* What a step makes, when it only makes a promise.
LEMMA MakesPromise ==
  ASSUME NEW h, CoreInv(h)
  PROVE  /\ \A e : KnowsValue(h, e) => Yields(h, Rejection(h, e)) /\ KnowsPromise(Rejection(h, e), Rejection(h, e).it)
         /\ \A x : Knows(h, x) /\ Loose(x) =>
              Yields(h, ToPromise(h, x)) /\ KnowsPromise(ToPromise(h, x), ToPromise(h, x).it)
<1>1. ASSUME NEW e, KnowsValue(h, e)
      PROVE  Yields(h, Rejection(h, e)) /\ KnowsPromise(Rejection(h, e), Rejection(h, e).it)
  <2> DEFINE g == Rejection(h, e)
  <2>1. Goes(h, g) /\ KnowsPromise(g, g.it) /\ g.it[1] = "rejected"
    BY <1>1, RejectionIs
  <2> HIDE DEF g
  <2>2. Yields(h, g)
    BY <2>1 DEF Yields, IsGiven, KnowsPromise
  <2> QED
    BY <2>1, <2>2 DEF g
<1>2. ASSUME NEW x, Knows(h, x), Loose(x)
      PROVE  Yields(h, ToPromise(h, x)) /\ KnowsPromise(ToPromise(h, x), ToPromise(h, x).it)
  <2> DEFINE g == ToPromise(h, x)
  <2>1. /\ Goes(h, g) /\ KnowsPromise(g, g.it)
        /\ g.it[1] = "deferred" => g.it = x \/ g.it[2] \notin DOMAIN h.deferred
    BY <1>2, ToPromiseIs
  <2> HIDE DEF g
  <2>2. Yields(h, g)
    BY <1>2, <2>1 DEF Yields, IsGiven, KnowsPromise, Loose
  <2> QED
    BY <2>1, <2>2 DEF g
<1> QED
  BY <1>1, <1>2

LEMMA GeneratorIs ==
  ASSUME NEW generator \in Generator
  PROVE  /\ generator[2] \in Seq(Input)
         /\ generator[2] # <<>> => /\ Head(generator[2]) \in Input
                                   /\ <<"generator", Tail(generator[2]), generator[3]>> \in Generator
         /\ generator[3][1] \in {"returns", "throws"}
         /\ generator[3][1] = "returns" => generator[3][2] \in Input
         /\ generator[3][1] = "throws" => generator[3][2] \in Reason
<1>1. generator[2] \in Seq(Input) /\ generator[3] \in End
  BY DEF Generator
<1>2. generator[2] # <<>> => Head(generator[2]) \in Input /\ Tail(generator[2]) \in Seq(Input)
  BY <1>1, HeadTailProperties
<1>3. /\ generator[3][1] \in {"returns", "throws"}
      /\ generator[3][1] = "returns" => generator[3][2] \in Input
      /\ generator[3][1] = "throws" => generator[3][2] \in Reason
  BY <1>1 DEF End
<1>4. generator[2] # <<>> => <<"generator", Tail(generator[2]), generator[3]>> \in Generator
  BY <1>1, <1>2 DEF Generator
<1> QED
  BY <1>1, <1>2, <1>3, <1>4

LEMMA ContinuerIs ==
  ASSUME NEW h, CoreInv(h), NEW verb \in {"next", "throw"}, NEW generator \in Generator,
         NEW x, KnowsValue(h, x)
  PROVE  LET g == Continuer(h, verb, generator, x) IN Yields(h, g) /\ KnowsPromise(g, g.it)
<1> DEFINE yields == generator[2]
           end == generator[3]
           rest == <<"generator", Tail(yields), end>>
           g == Continuer(h, verb, generator, x)
<1> SUFFICES Yields(h, g) /\ KnowsPromise(g, g.it)
  OBVIOUS
<1>1. /\ yields # <<>> => Head(yields) \in Input /\ rest \in Generator
      /\ end[1] \in {"returns", "throws"}
      /\ end[1] = "returns" => end[2] \in Input
      /\ end[1] = "throws" => end[2] \in Reason
  BY GeneratorIs
<1>2. CASE verb = "throw"
  <2>1. g = Rejection(h, x)
    BY <1>2 DEF Continuer
  <2> QED
    BY <2>1, MakesPromise
<1>3. CASE verb = "next" /\ yields # <<>>
  <2>1. g = When(h, Head(yields), <<"continue", "next", rest>>, <<"continue", "throw", rest>>, None)
    BY <1>3 DEF Continuer
  <2> HIDE DEF g, yields, rest, end
  <2>2. IsCallback(h, <<"continue", "next", rest>>) /\ IsCallback(h, <<"continue", "throw", rest>>)
    BY <1>1, <1>3, CallbacksAre
  <2>3. Knows(h, Head(yields))
    BY <1>1, <1>3, UsualKnown
  <2>4. GivesNew(h, g)
    BY <2>1, <2>2, <2>3, WhenPlain
  <2> QED
    BY <2>4, NewIs
<1>4. CASE verb = "next" /\ yields = <<>> /\ end[1] = "returns"
  <2>1. g = ToPromise(h, end[2])
    BY <1>4 DEF Continuer
  <2>2. Knows(h, end[2]) /\ Loose(end[2])
    BY <1>1, <1>4, UsualKnown
  <2> HIDE DEF end
  <2> QED
    BY <2>1, <2>2, MakesPromise
<1>5. CASE verb = "next" /\ yields = <<>> /\ end[1] = "throws"
  <2>1. g = Rejection(h, end[2])
    BY <1>5 DEF Continuer
  <2>2. KnowsValue(h, end[2])
    BY <1>1, <1>5, UsualKnown
  <2> HIDE DEF end
  <2> QED
    BY <2>1, <2>2, MakesPromise
<1> HIDE DEF g, yields, end
<1> QED
  BY <1>1, <1>2, <1>3, <1>4, <1>5

LEMMA SpawnIs ==
  ASSUME NEW h, CoreInv(h), NEW generator \in Generator
  PROVE  /\ Yields(h, Async(h, generator))
         /\ Yields(h, Spawn(h, generator))
<1> DEFINE g == Async(h, generator)
           k == Done(g, g.it, None, None, None)
<1>1. KnowsValue(h, Undefined)
  BY UsualKnown
<1>2. Yields(h, g) /\ KnowsPromise(g, g.it)
  BY <1>1, ContinuerIs DEF Async
<1>3. Spawn(h, generator) = k
  BY DEF Spawn
<1> HIDE DEF g
<1>4. CoreInv(g) /\ Knows(g, g.it) /\ Goes(h, g)
  BY <1>2, GoesIs DEF Yields, KnowsPromise
<1>5. Yields(g, k)
  BY <1>4, DoneIs
<1> QED
  BY <1>2, <1>3, <1>4, <1>5, YieldsTrans DEF g

-----------------------------------------------------------------------------
(* The callbacks *)

\* A function of a script, or one that only returns or throws.
IsPlainCallback(h, f) ==
  \/ f \in Function
  \/ f[1] = "returns" /\ Knows(h, f[2]) /\ Loose(f[2])
  \/ f[1] = "throws" /\ KnowsValue(h, f[2])

LEMMA NodebackIs ==
  ASSUME NEW h, CoreInv(h), NEW d \in Plain(h), NEW err \in Reason \cup {None}, NEW x \in Input
  PROVE  Goes(h, CallNodeResolver(h, d, err, x))
<1>1. d \in DOMAIN h.deferred
  BY CoreIs
<1>2. CASE err # None
  <2>1. KnowsValue(h, err)
    BY <1>2, UsualKnown
  <2> QED
    BY <1>1, <1>2, <2>1, RejectIs DEF CallNodeResolver
<1>3. CASE err = None
  <2>1. Knows(h, x) /\ Loose(x)
    BY UsualKnown
  <2> QED
    BY <1>3, <2>1, PlainResolves DEF CallNodeResolver
<1> QED
  BY <1>2, <1>3

LEMMA CallScriptIs ==
  ASSUME NEW h, CoreInv(h), NEW f, IsPlainCallback(h, f), NEW x, Knows(h, x)
  PROVE  Yields(h, CallScript(h, f, x))
<1> DEFINE g == CallScript(h, f, x)
<1> SUFFICES Yields(h, g)
  OBVIOUS
<1>1. CASE f[1] = "returns"
  <2>1. g = Gives(h, f[2])
    BY <1>1 DEF CallScript
  <2>2. Knows(h, f[2]) /\ Loose(f[2])
    BY <1>1, UsualKnown, FunctionIs DEF IsPlainCallback
  <2> QED
    BY <2>1, <2>2, GoesSelf, GivesPlain
<1>2. CASE f[1] = "throws"
  <2>1. g = Throws(h, f[2])
    BY <1>2 DEF CallScript
  <2>2. KnowsValue(h, f[2])
    BY <1>2, UsualKnown, FunctionIs DEF IsPlainCallback
  <2> QED
    BY <2>1, <2>2, ThrowsPlain
<1>3. CASE f[1] = "callsBack" /\ x[1] = "nodeback"
  <2> DEFINE k == CallNodeResolver(h, x[2], f[2], f[3])
  <2>1. g = Gives(k, Undefined)
    BY <1>3 DEF CallScript
  <2>2. x[2] \in Plain(h)
    BY <1>3, KnownIs DEF Knows
  <2>3. f[2] \in Reason \cup {None} /\ f[3] \in Input
    BY <1>3, FunctionIs DEF IsPlainCallback
  <2>4. Goes(h, k)
    BY <2>2, <2>3, NodebackIs
  <2> HIDE DEF k, g
  <2>5. Knows(k, Undefined) /\ Loose(Undefined)
    BY <2>4, GoesIs, UsualKnown, ValueLoose
  <2> QED
    BY <2>1, <2>4, <2>5, GivesPlain
<1>4. CASE f[1] = "keepsBack" /\ x[1] = "nodeback"
  <2> DEFINE k == [h EXCEPT !.outside = @ \cup {x[2]}]
  <2>1. g = Gives(k, Undefined)
    BY <1>4 DEF CallScript
  <2>2. x[2] \in Plain(h)
    BY <1>4, KnownIs DEF Knows
  <2>3. Goes(h, k)
    BY <2>2, OutsideIs
  <2> HIDE DEF k, g
  <2>4. Knows(k, Undefined) /\ Loose(Undefined)
    BY <2>3, GoesIs, UsualKnown, ValueLoose
  <2> QED
    BY <2>1, <2>3, <2>4, GivesPlain
<1>5. CASE f[1] \in {"callsBack", "keepsBack"} /\ x[1] # "nodeback"
  <2>1. g = Throws(h, TypeError)
    BY <1>5 DEF CallScript
  <2>2. KnowsValue(h, TypeError)
    BY UsualKnown DEF TypeError
  <2> QED
    BY <2>1, <2>2, ThrowsPlain
<1> HIDE DEF g
<1>6. f[1] \in {"returns", "throws", "callsBack", "keepsBack"}
  BY FunctionIs DEF IsPlainCallback
<1> QED
  BY <1>1, <1>2, <1>3, <1>4, <1>5, <1>6

\* What join does with the two values.
LEMMA SameIs ==
  ASSUME NEW h, CoreInv(h), NEW x, Knows(h, x), LooseItems(x)
  PROVE  Yields(h, CallScript(h, <<"same">>, x))
<1> DEFINE g == CallScript(h, <<"same">>, x)
           y == ItemOf(x, 1)
<1>1. g = IF ItemOf(x, 1) = ItemOf(x, 2) THEN Gives(h, y) ELSE Throws(h, NotTheSame)
  BY DEF CallScript
<1>2. Knows(h, y) /\ Loose(y)
  BY ItemsKnows, UsualKnown, ValueLoose DEF ItemOf, LooseItems
<1>3. KnowsValue(h, NotTheSame)
  BY UsualKnown DEF NotTheSame
<1>4. Yields(h, Gives(h, y)) /\ Yields(h, Throws(h, NotTheSame))
  BY <1>2, <1>3, GoesSelf, GivesPlain, ThrowsPlain
<1> QED
  BY <1>1, <1>4

\* A timer is cleared.
LEMMA ClearsIs ==
  ASSUME NEW h, CoreInv(h), NEW timer
  PROVE  Goes(h, [h EXCEPT !.timers = @ \ {timer}])
<1> DEFINE g == [h EXCEPT !.timers = @ \ {timer}]
<1>1. DOMAIN h = MemoryFields /\ h.outside \subseteq 1..Sources \cup Plain(h)
  BY CoreIs DEF ShapeInv, KnownInv
<1>2. /\ DOMAIN g = MemoryFields /\ g.deferred = h.deferred
      /\ g.queue = h.queue /\ g.flush = h.flush /\ g.held = h.held /\ g.late = h.late
      /\ g.rejections = h.rejections /\ g.unhandled = h.unhandled /\ g.outside = h.outside
      /\ g.timers = h.timers \ {timer}
  BY <1>1 DEF MemoryFields
<1> HIDE DEF g
<1>3. \A t \in g.timers : t \in h.timers
  BY <1>2
<1>4. Goes(h, g)
  BY <1>1, <1>2, <1>3, Alike
<1> QED
  BY <1>4 DEF g

\* A task that only throws in a turn of its own, or tells a function.
LEMMA TellsIs ==
  ASSUME NEW h, CoreInv(h), NEW task, task.do \in {"throw", "tells"}
  PROVE  Goes(h, NextTick(h, task))
<1>1. IsTask(h, task)
  BY DEF IsTask
<1> QED
  BY <1>1, PostsOne

LEMMA CallLibraryIs ==
  ASSUME NEW h, CoreInv(h), NEW cb, IsCallback(h, cb) \/ IsListener(h, cb),
         cb[1] \in {"resolve", "reject", "notify", "gather", "miss", "clears", "unhandled", "tells"},
         NEW x, Knows(h, x), KnowsValue(h, x) \/ IsListener(h, cb)
  PROVE  Goes(h, CallLibrary(h, cb, x))
<1> DEFINE g == CallLibrary(h, cb, x)
           d == cb[2]
<1> SUFFICES Goes(h, g)
  OBVIOUS
<1>0. cb \notin Function
  BY FunctionIs
<1>1. CASE cb[1] = "resolve"
  <2>1. g = Resolve(h, d, x)
    BY <1>1 DEF CallLibrary
  <2>2. d \in Plain(h) /\ KnowsValue(h, x)
    BY <1>0, <1>1 DEF IsCallback, IsListener
  <2> QED
    BY <2>1, <2>2, PlainResolves, ValueLoose
<1>2. CASE cb[1] = "reject"
  <2>1. g = Reject(h, d, x)
    BY <1>2 DEF CallLibrary
  <2>2. d \in Own(h) /\ KnowsValue(h, x)
    BY <1>0, <1>2 DEF IsCallback, IsListener
  <2> QED
    BY <2>1, <2>2, RejectIs, CoreIs
<1>3. CASE cb[1] = "notify"
  <2>1. g = Notify(h, d, x)
    BY <1>3 DEF CallLibrary
  <2>2. d \in Own(h)
    BY <1>0, <1>3 DEF IsCallback, IsListener
  <2> QED
    BY <2>1, <2>2, NotifyIs, CoreIs
<1>4. CASE cb[1] = "gather"
  <2>1. g = Gather(h, d, cb[3], x)
    BY <1>4 DEF CallLibrary
  <2>2. d \in Own(h) /\ Gathered(h, d) # None /\ KnowsValue(h, x)
    BY <1>0, <1>4 DEF IsCallback, IsListener
  <2> QED
    BY <2>1, <2>2, GatherIs
<1>5. CASE cb[1] = "miss"
  <2>1. g = Miss(h, d)
    BY <1>5 DEF CallLibrary
  <2>2. d \in Own(h)
    BY <1>0, <1>5 DEF IsCallback, IsListener
  <2> QED
    BY <2>1, <2>2, MissIs
<1>6. CASE cb[1] = "clears"
  <2> DEFINE k == [h EXCEPT !.timers = @ \ {<<"timeout", d>>}]
  <2>1. g = IF cb[3] = "resolve" THEN Resolve(k, d, x) ELSE Reject(k, d, x)
    BY <1>6 DEF CallLibrary
  <2>2. d \in Plain(h) /\ KnowsValue(h, x)
    BY <1>0, <1>6 DEF IsCallback, IsListener
  <2>3. Goes(h, k)
    BY ClearsIs
  <2> HIDE DEF k, d, g
  <2>4. CoreInv(k) /\ d \in Plain(k) /\ KnowsValue(k, x) /\ d \in DOMAIN k.deferred
    BY <2>2, <2>3, GoesIs, CoreIs
  <2>5. Goes(k, Resolve(k, d, x)) /\ Goes(k, Reject(k, d, x))
    BY <2>4, PlainResolves, ValueLoose, RejectIs
  <2> QED
    BY <2>1, <2>3, <2>5, GoesTrans
<1>7. CASE cb[1] = "unhandled"
  <2> DEFINE task == [do |-> "throw", value |-> x]
  <2>1. g = NextTick(h, task)
    BY <1>7 DEF CallLibrary
  <2>2. task.do = "throw"
    OBVIOUS
  <2> HIDE DEF task
  <2> QED
    BY <2>1, <2>2, TellsIs
<1>8. CASE cb[1] = "tells"
  <2> DEFINE task == [do |-> "tells", side |-> cb[2], value |-> x]
  <2>1. g = NextTick(h, task)
    BY <1>8 DEF CallLibrary
  <2>2. task.do = "tells"
    OBVIOUS
  <2> HIDE DEF task
  <2> QED
    BY <2>1, <2>2, TellsIs
<1> HIDE DEF g
<1> QED
  BY <1>1, <1>2, <1>3, <1>4, <1>5, <1>6, <1>7, <1>8

LEMMA CallForValueIs ==
  ASSUME NEW h, CoreInv(h), NEW cb, IsCallback(h, cb),
         cb[1] \in {"all", "allResolved", "allSettled", "race", "inspect", "spread", "tap",
                    "finally", "continue", "delay"},
         NEW x, KnowsValue(h, x), cb = <<"spread", <<"same">>>> => LooseItems(x)
  PROVE  Yields(h, CallForValue(h, cb, x))
<1> DEFINE g == CallForValue(h, cb, x)
<1> SUFFICES Yields(h, g)
  OBVIOUS
<1>0. cb \notin Function /\ Knows(h, x)
  BY FunctionIs DEF KnowsValue
<1>1. CASE cb[1] = "all"
  <2>1. g = AllOf(h, x)
    BY <1>1 DEF CallForValue
  <2> QED
    BY <2>1, AllOfIs
<1>2. CASE cb[1] = "allResolved"
  <2>1. g = AllResolvedOf(h, x)
    BY <1>2 DEF CallForValue
  <2> QED
    BY <2>1, AllResolvedOfIs
<1>3. CASE cb[1] = "allSettled"
  <2>1. g = AllSettledOf(h, x)
    BY <1>3 DEF CallForValue
  <2> QED
    BY <2>1, AllSettledOfIs
<1>4. CASE cb[1] = "race"
  <2>1. g = Race(h, x)
    BY <1>4 DEF CallForValue
  <2> HIDE DEF g
  <2>2. GivesNew(h, g)
    BY <1>0, <2>1, RaceIs
  <2> QED
    BY <2>2, NewIs
<1>5. CASE cb[1] = "inspect"
  <2> DEFINE y == <<"snapshot", Inspect(h, cb[2])>>
  <2>1. g = Gives(h, y)
    BY <1>5 DEF CallForValue
  <2>2. Knows(h, y) /\ Loose(y)
    BY UsualKnown, ValueLoose
  <2> HIDE DEF y
  <2> QED
    BY <2>1, <2>2, GoesSelf, GivesPlain
<1>6. CASE cb[1] = "spread"
  <2>1. g = CallScript(h, cb[2], x)
    BY <1>6 DEF CallForValue
  <2>2. cb[2] \in Function \cup {<<"same">>}
    BY <1>0, <1>6 DEF IsCallback
  <2>3. CASE cb[2] \in Function
    BY <1>0, <2>1, <2>3, CallScriptIs DEF IsPlainCallback
  <2>4. CASE cb[2] \notin Function
    <3>1. cb[2] = <<"same">>
      BY <2>2, <2>4
    <3>2. LooseItems(x)
      <4>1. cb = <<"spread", cb[2]>>
        BY <1>0, <1>6 DEF IsCallback
      <4> QED
        BY <3>1, <4>1
    <3> QED
      BY <1>0, <2>1, <3>1, <3>2, SameIs
  <2> QED
    BY <2>3, <2>4
<1>7. CASE cb[1] = "tap"
  <2> DEFINE k == Fcall(h, cb[2], x)
  <2>1. g = ThenResolve(k, k.it, x)
    BY <1>7 DEF CallForValue
  <2>2. Knows(h, cb[2])
    BY <1>0, <1>7 DEF IsCallback, KnowsValue
  <2>3. GivesNew(h, k)
    BY <1>0, <2>2, FcallIs
  <2> HIDE DEF k, g
  <2>4. CoreInv(k) /\ Knows(k, k.it) /\ KnowsValue(k, x)
    BY <2>3, AfterNew, NewIs, GoesIs
  <2>5. GivesNew(k, g)
    BY <2>1, <2>4, WhensAre, ValueLoose
  <2> QED
    BY <2>3, <2>5, AfterNew, NewIs
<1>8. CASE cb[1] = "finally"
  <2> DEFINE k == Fcall(h, cb[2], Undefined)
  <2>1. g = Then(k, k.it, <<cb[3], x>>, None, None)
    BY <1>8 DEF CallForValue
  <2>2. Knows(h, cb[2]) /\ cb[3] \in {"returns", "throws"}
    BY <1>0, <1>8 DEF IsCallback, KnowsValue
  <2>3. Knows(h, Undefined)
    BY UsualKnown DEF KnowsValue
  <2>4. GivesNew(h, k)
    BY <2>2, <2>3, FcallIs
  <2> HIDE DEF k, g
  <2>5. CoreInv(k) /\ KnowsPromise(k, k.it) /\ KnowsValue(k, x)
    BY <2>4, AfterNew, NewIs, GoesIs
  <2>6. IsCallback(k, <<cb[3], x>>) /\ <<cb[3], x>>[1] # "spread"
    <3>1. IsCallback(k, <<"returns", x>>) /\ IsCallback(k, <<"throws", x>>)
      BY <2>5, CallbacksAre, ValueLoose
    <3> QED
      BY <2>2, <3>1
  <2>7. GivesNew(k, g)
    BY <2>1, <2>5, <2>6, ThenPlain
  <2> QED
    BY <2>4, <2>7, AfterNew, NewIs
<1>9. CASE cb[1] = "continue"
  <2>1. g = Continuer(h, cb[2], cb[3], x)
    BY <1>9 DEF CallForValue
  <2>2. cb[2] \in {"next", "throw"} /\ cb[3] \in Generator
    BY <1>0, <1>9 DEF IsCallback
  <2> QED
    BY <2>1, <2>2, ContinuerIs
<1>10. CASE cb[1] = "delay"
  <2> DEFINE n == Len(h.deferred) + 1
             k == Defer(h)
             timer == <<"delay", Len(k.deferred), x>>
  <2>1. g = [k EXCEPT !.timers = @ \cup {timer}]
    BY <1>10 DEF CallForValue
  <2>2. /\ Goes(h, k) /\ k.it = Deferred(n) /\ Len(k.deferred) = n /\ n \in Plain(k)
        /\ n \in DOMAIN k.deferred /\ n \notin DOMAIN h.deferred
    BY DeferIs
  <2>3. timer[1] = "delay" /\ timer[2] = n /\ timer[3] = x
    BY <2>2
  <2> HIDE DEF k, g, n, timer
  <2>4. CoreInv(k) /\ KnowsValue(k, x)
    BY <2>2, GoesIs
  <2>5. Goes(k, g) /\ g.deferred = k.deferred /\ g.it = k.it
    BY <2>1, <2>2, <2>3, <2>4, TimerIs
  <2>6. GivesNew(h, g)
    BY <2>2, <2>5, GoesTrans DEF GivesNew
  <2> QED
    BY <2>6, NewIs
<1> HIDE DEF g
<1> QED
  BY <1>1, <1>2, <1>3, <1>4, <1>5, <1>6, <1>7, <1>8, <1>9, <1>10

LEMMA CallIs ==
  ASSUME NEW h, CoreInv(h), NEW cb, NEW x, Knows(h, x),
         IsCallback(h, cb) \/ IsListener(h, cb), KnowsValue(h, x) \/ IsListener(h, cb),
         cb = <<"spread", <<"same">>>> => LooseItems(x)
  PROVE  Yields(h, Call(h, cb, x))
<1> DEFINE g == Call(h, cb, x)
<1> SUFFICES Yields(h, g)
  OBVIOUS
<1>0. cb \in Function => cb[1] \in {"returns", "throws", "callsBack", "keepsBack"}
  BY FunctionIs
<1>1. CASE IsScript(cb)
  <2>1. g = CallScript(h, cb, x)
    BY <1>1 DEF Call, IsScript
  <2>2. IsPlainCallback(h, cb)
    BY <1>0, <1>1 DEF IsScript, IsCallback, IsListener, IsPlainCallback
  <2> QED
    BY <2>1, <2>2, CallScriptIs
<1>2. CASE cb[1] \in {"resolve", "reject", "notify", "gather", "miss", "clears", "unhandled", "tells"}
  <2> DEFINE k == CallLibrary(h, cb, x)
  <2>1. g = Gives(k, Undefined)
    BY <1>2 DEF Call, IsScript
  <2>2. Goes(h, k)
    BY <1>2, CallLibraryIs
  <2> HIDE DEF k, g
  <2>3. Knows(k, Undefined) /\ Loose(Undefined)
    BY <2>2, GoesIs, UsualKnown, ValueLoose
  <2> QED
    BY <2>1, <2>2, <2>3, GivesPlain
<1>3. CASE cb[1] \in {"all", "allResolved", "allSettled", "race", "inspect", "spread", "tap",
                      "finally", "continue", "delay"}
  <2>1. g = CallForValue(h, cb, x)
    BY <1>3 DEF Call, IsScript
  <2>2. IsCallback(h, cb) /\ KnowsValue(h, x)
    BY <1>0, <1>3 DEF IsListener
  <2> QED
    BY <1>3, <2>1, <2>2, CallForValueIs
<1> HIDE DEF g
<1>4. \/ IsScript(cb)
      \/ cb[1] \in {"resolve", "reject", "notify", "gather", "miss", "clears", "unhandled", "tells"}
      \/ cb[1] \in {"all", "allResolved", "allSettled", "race", "inspect", "spread", "tap",
                    "finally", "continue", "delay"}
  BY <1>0 DEF IsScript, IsCallback, IsListener
<1> QED
  BY <1>1, <1>2, <1>3, <1>4

\* The value of a call, or a rejection with what it throws.
LEMMA CaughtIs ==
  ASSUME NEW h, CoreInv(h), NEW g, Yields(h, g)
  PROVE  LET k == Caught(g)
         IN /\ Goes(h, k) /\ IsGiven(h, k, k.it)
            /\ k = g \/ k.it[1] = "rejected"
            /\ g.it[1] = "throw" => k.it[1] = "rejected"
<1> DEFINE k == Caught(g)
<1> SUFFICES /\ Goes(h, k) /\ IsGiven(h, k, k.it)
             /\ k = g \/ k.it[1] = "rejected"
             /\ g.it[1] = "throw" => k.it[1] = "rejected"
  OBVIOUS
<1>1. Goes(h, g) /\ CoreInv(g)
  BY GoesIs DEF Yields
<1>2. CASE g.it[1] = "throw"
  <2>1. KnowsValue(g, g.it[2])
    BY <1>2, KnownIs DEF Yields, IsGiven, Knows
  <2>2. k = Rejection(g, g.it[2])
    BY <1>2 DEF Caught
  <2>3. Goes(g, k) /\ KnowsPromise(k, k.it) /\ k.it[1] = "rejected"
    BY <1>1, <2>1, <2>2, RejectionIs
  <2> HIDE DEF k
  <2>4. Goes(h, k)
    BY <1>1, <2>3, GoesTrans
  <2> QED
    BY <2>3, <2>4 DEF IsGiven, KnowsPromise
<1>3. CASE g.it[1] # "throw"
  <2>1. k = g
    BY <1>3 DEF Caught
  <2> QED
    BY <1>1, <1>3, <2>1 DEF Yields
<1> QED
  BY <1>2, <1>3

-----------------------------------------------------------------------------
(* The answers *)

LEMMA WithoutIs ==
  ASSUME NEW s, IsSeq(s), s # <<>>, NEW d, s[1] = d
  PROVE  Without(s, d) = Tail(s)
<1> DEFINE at == CHOOSE i \in DOMAIN s : s[i] = d /\ \A j \in 1..(i - 1) : s[j] # d
<1>1. /\ Len(s) \in Nat \ {0} /\ DOMAIN s = 1..Len(s)
      /\ IsSeq(Tail(s)) /\ Len(Tail(s)) = Len(s) - 1 /\ DOMAIN Tail(s) = 1..(Len(s) - 1)
      /\ \A i \in 1..(Len(s) - 1) : Tail(s)[i] = s[i + 1]
  BY TailIs, SeqIs
<1>2. 1 \in DOMAIN s /\ \A j \in 1..(1 - 1) : s[j] # d
  BY <1>1
<1>3. at \in DOMAIN s /\ s[at] = d /\ \A j \in 1..(at - 1) : s[j] # d
  BY <1>2
<1> HIDE DEF at
<1>4. at = 1
  <2> SUFFICES ASSUME at # 1 PROVE FALSE
    OBVIOUS
  <2>1. at \in Nat /\ 1 \in 1..(at - 1)
    BY <1>1, <1>3
  <2> QED
    BY <1>3, <2>1
<1>5. Without(s, d) = [i \in 1..(Len(s) - 1) |-> IF i < at THEN s[i] ELSE s[i + 1]]
  BY <1>2 DEF Without, at
<1>6. \A i \in 1..(Len(s) - 1) : ~(i < at)
  BY <1>4
<1>7. Without(s, d) = [i \in 1..(Len(s) - 1) |-> s[i + 1]]
  BY <1>5, <1>6
<1> DEFINE t == Tail(s)
<1>8. t = [i \in 1..(Len(s) - 1) |-> t[i]]
  <2>1. PICK V : t \in Seq(V)
    BY <1>1 DEF IsSeq
  <2> HIDE DEF t
  <2>2. t \in [1..Len(t) -> V]
    BY <2>1
  <2> QED
    BY <1>1, <2>2 DEF t
<1> QED
  BY <1>1, <1>7, <1>8

\* The answer of call d of then is due: its message has come to y, which no longer
\* changes, and every other call that waits has its message on the way.
IsAnswering(h, d, y) ==
  /\ d \in DOMAIN h.deferred /\ ~IsDone(h, d) /\ Final(y) /\ Comes(h, y, ToAnswer(d))
  /\ \A i \in DOMAIN h.queue : h.queue[i].do = "progress" => h.queue[i].of # d
  /\ \A e : IsLost(h, e) => e = d

\* It is the first of those that wait.
LEMMA HeadIs ==
  ASSUME NEW h, CoreInv(h), NEW d, NEW y, IsAnswering(h, d, y), NEW p \in DOMAIN h.deferred,
         Self(h, d) = Deferred(p)
  PROVE  Waiting(h, p) # <<>> /\ Waiting(h, p)[1] = d
<1> DEFINE w == Waiting(h, p)
           c == w[1]
<1>1. IsSeq(w) /\ DOMAIN w = 1..Len(w) /\ Len(w) \in Nat
  BY CoreIs, SeqIs DEF ShapeInv
<1>2. PICK i \in DOMAIN w : w[i] = d
  BY CoreIs DEF WaitingInv, IsAnswering
<1> HIDE DEF w
<1>3. i \in Nat /\ 1 <= i /\ 1 \in DOMAIN w /\ w # <<>>
  BY <1>1, <1>2
<1>4. SUFFICES ASSUME c # d PROVE FALSE
  BY <1>3 DEF w
<1>5. i # 1 /\ 1 < i
  BY <1>2, <1>3, <1>4
<1>6. /\ c \in DOMAIN h.deferred /\ Self(h, c) = Deferred(p) /\ ~IsDone(h, c) /\ c < d
  BY <1>2, <1>3, <1>5, CoreIs DEF WaitingInv, w
<1>7. Self(h, c) # None
  BY <1>6, NoPromiseIsNone
<1> HIDE DEF c
<1>8. ~IsLost(h, c)
  BY <1>4 DEF IsAnswering
<1>9. IsPlaced(h, c)
  BY <1>6, <1>7, <1>8 DEF IsLost
<1>10. Leads(h, ToAnswer(c), ToAnswer(d))
  BY <1>6 DEF Leads, IsAnswering
<1>11. IsEnd(h, y) /\ \A e : y # Deferred(e)
  BY FinalEnds DEF IsAnswering
<1>12. CASE \E j \in DOMAIN h.queue : IsQueued(h, j) /\ Sent(h, j) = ToAnswer(c)
  BY <1>10, <1>11, <1>12, AlongEnd DEF IsAnswering, Comes
<1>13. CASE \E e \in DOMAIN h.deferred : \E j \in DOMAIN Messages(h, e) : Messages(h, e)[j] = ToAnswer(c)
  BY <1>10, <1>11, <1>13, AlongEnd DEF IsAnswering, Comes
<1> QED
  BY <1>9, <1>12, <1>13 DEF IsPlaced

\* The memory that a handler is called in: the rejection has gone from the list.
IsHandled(h, a, y) ==
  /\ DOMAIN a = MemoryFields /\ a.deferred = h.deferred
  /\ a.queue = h.queue /\ a.flush = h.flush /\ a.held = h.held /\ a.late = h.late
  /\ a.rejections = h.rejections /\ a.timers = h.timers /\ a.outside = h.outside
  /\ \A k : k \in a.unhandled <=> k \in h.unhandled /\ ~(y[1] = "rejected" /\ y[2] = k)

LEMMA AnswersIs ==
  ASSUME NEW h, CoreInv(h), NEW d, NEW y, IsAnswering(h, d, y), NEW g, NEW o,
         HasAnswered(h, g, d, y, o)
  PROVE  CoreInv(g) /\ Plain(g) = Plain(h) /\ (\A e : ~IsLost(g, e)) /\ (\A x : Knows(g, x) <=> Knows(h, x))
<1>1. \A p \in DOMAIN h.deferred : Self(h, d) = Deferred(p) => Waiting(h, p)[1] = d
  BY HeadIs
<1>2. /\ CoreInv(g) /\ Plain(g) = Plain(h)
      /\ \A e : IsLost(g, e) => IsLost(h, e) /\ e # d
  <2>1. IsUpNext(h, d, y)
    BY <1>1 DEF IsAnswering, IsUpNext
  <2> QED
    BY <2>1, Answers
<1>3. \A e : ~IsLost(g, e)
  BY <1>2 DEF IsAnswering
<1>4. Len(g.deferred) = Len(h.deferred) /\ g.rejections = h.rejections
  BY SameLength, CoreIs DEF TargetsInv, HasAnswered
<1> QED
  BY <1>2, <1>3, <1>4 DEF Knows

\* What w, the deferreds with other notes, keeps of v.
SameButNotes(v, w) ==
  /\ DOMAIN w = DOMAIN v /\ w = [e \in DOMAIN w |-> w[e]]
  /\ \A e \in DOMAIN v :
       /\ DOMAIN w[e] = DeferredFields
       /\ w[e].target = v[e].target /\ w[e].messages = v[e].messages
       /\ w[e].listeners = v[e].listeners /\ w[e].self = v[e].self
       /\ w[e].fulfilled = v[e].fulfilled /\ w[e].rejected = v[e].rejected
       /\ w[e].progressed = v[e].progressed /\ w[e].array = v[e].array

SetsAnswer(v, w, d, o) ==
  /\ SameButNotes(v, w) /\ w[d].answer = o
  /\ \A e \in DOMAIN v : /\ w[e].done = v[e].done /\ w[e].waiting = v[e].waiting
                         /\ e # d => w[e].answer = v[e].answer

SetsDone(v, w, d) ==
  /\ SameButNotes(v, w) /\ w[d].done = TRUE
  /\ \A e \in DOMAIN v : /\ w[e].answer = v[e].answer /\ w[e].waiting = v[e].waiting
                         /\ e # d => w[e].done = v[e].done

SetsWaiting(v, w, p, waiting) ==
  /\ SameButNotes(v, w) /\ w[p].waiting = waiting
  /\ \A e \in DOMAIN v : /\ w[e].answer = v[e].answer /\ w[e].done = v[e].done
                         /\ e # p => w[e].waiting = v[e].waiting

AreDeferreds(v) == \A e \in DOMAIN v : DOMAIN v[e] = DeferredFields

WithAnswer(v, d, o) == [v EXCEPT ![d].answer = o]
WithDone(v, d) == [v EXCEPT ![d].done = TRUE]
WithWaiting(v, p, waiting) == [v EXCEPT ![p].waiting = waiting]

LEMMA WithAnswerIs ==
  ASSUME NEW v, AreDeferreds(v), NEW d \in DOMAIN v, NEW o
  PROVE  SetsAnswer(v, WithAnswer(v, d, o), d, o)
<1> DEFINE w == WithAnswer(v, d, o)
           s == [v[d] EXCEPT !.answer = o]
<1>1. DOMAIN w = DOMAIN v /\ w = [e \in DOMAIN w |-> w[e]] /\ w[d] = s
      /\ \A e \in DOMAIN v : e # d => w[e] = v[e]
  BY DEF WithAnswer
<1> HIDE DEF w
<1>2. DOMAIN v[d] = DeferredFields
  BY DEF AreDeferreds
<1>3. /\ DOMAIN s = DeferredFields
      /\ s.target = v[d].target /\ s.messages = v[d].messages /\ s.listeners = v[d].listeners
      /\ s.self = v[d].self /\ s.fulfilled = v[d].fulfilled /\ s.rejected = v[d].rejected
      /\ s.progressed = v[d].progressed /\ s.array = v[d].array /\ s.waiting = v[d].waiting
      /\ s.done = v[d].done /\ s.answer = o
  BY <1>2 DEF DeferredFields
<1> HIDE DEF s
<1>4. SameButNotes(v, w)
  BY <1>1, <1>3 DEF SameButNotes, AreDeferreds
<1>5. SetsAnswer(v, w, d, o)
  BY <1>1, <1>3, <1>4 DEF SetsAnswer
<1> QED
  BY <1>5 DEF w

LEMMA WithDoneIs ==
  ASSUME NEW v, AreDeferreds(v), NEW d \in DOMAIN v
  PROVE  SetsDone(v, WithDone(v, d), d)
<1> DEFINE w == WithDone(v, d)
           s == [v[d] EXCEPT !.done = TRUE]
<1>1. DOMAIN w = DOMAIN v /\ w = [e \in DOMAIN w |-> w[e]] /\ w[d] = s
      /\ \A e \in DOMAIN v : e # d => w[e] = v[e]
  BY DEF WithDone
<1> HIDE DEF w
<1>2. DOMAIN v[d] = DeferredFields
  BY DEF AreDeferreds
<1>3. /\ DOMAIN s = DeferredFields
      /\ s.target = v[d].target /\ s.messages = v[d].messages /\ s.listeners = v[d].listeners
      /\ s.self = v[d].self /\ s.fulfilled = v[d].fulfilled /\ s.rejected = v[d].rejected
      /\ s.progressed = v[d].progressed /\ s.array = v[d].array /\ s.waiting = v[d].waiting
      /\ s.done = TRUE /\ s.answer = v[d].answer
  BY <1>2 DEF DeferredFields
<1> HIDE DEF s
<1>4. SameButNotes(v, w)
  BY <1>1, <1>3 DEF SameButNotes, AreDeferreds
<1>5. SetsDone(v, w, d)
  BY <1>1, <1>3, <1>4 DEF SetsDone
<1> QED
  BY <1>5 DEF w

LEMMA WithWaitingIs ==
  ASSUME NEW v, AreDeferreds(v), NEW p \in DOMAIN v, NEW waiting
  PROVE  SetsWaiting(v, WithWaiting(v, p, waiting), p, waiting)
<1> DEFINE w == WithWaiting(v, p, waiting)
           s == [v[p] EXCEPT !.waiting = waiting]
<1>1. DOMAIN w = DOMAIN v /\ w = [e \in DOMAIN w |-> w[e]] /\ w[p] = s
      /\ \A e \in DOMAIN v : e # p => w[e] = v[e]
  BY DEF WithWaiting
<1> HIDE DEF w
<1>2. DOMAIN v[p] = DeferredFields
  BY DEF AreDeferreds
<1>3. /\ DOMAIN s = DeferredFields
      /\ s.target = v[p].target /\ s.messages = v[p].messages /\ s.listeners = v[p].listeners
      /\ s.self = v[p].self /\ s.fulfilled = v[p].fulfilled /\ s.rejected = v[p].rejected
      /\ s.progressed = v[p].progressed /\ s.array = v[p].array /\ s.waiting = waiting
      /\ s.done = v[p].done /\ s.answer = v[p].answer
  BY <1>2 DEF DeferredFields
<1> HIDE DEF s
<1>4. SameButNotes(v, w)
  BY <1>1, <1>3 DEF SameButNotes, AreDeferreds
<1>5. SetsWaiting(v, w, p, waiting)
  BY <1>1, <1>3, <1>4 DEF SetsWaiting
<1> QED
  BY <1>5 DEF w

\* The handlers of a call are noted to be called.
AnsweredDone(a, d, o) == [Answered(a, d, o) EXCEPT !.deferred[d].done = TRUE]

IsNoted(v, w, d, o, self, waiting) ==
  /\ SameButNotes(v, w)
  /\ \A e \in DOMAIN v :
       /\ e # d => w[e].done = v[e].done /\ w[e].answer = v[e].answer
       /\ w[e].waiting = IF self = Deferred(e) THEN waiting ELSE v[e].waiting
  /\ w[d].done = TRUE
  /\ w[d].answer = IF self[1] = "deferred" THEN o ELSE v[d].answer

LEMMA NotedAlone ==
  ASSUME NEW v, AreDeferreds(v), NEW d \in DOMAIN v, NEW o, NEW self, self[1] # "deferred",
         NEW waiting
  PROVE  IsNoted(v, WithDone(v, d), d, o, self, waiting)
<1>1. SetsDone(v, WithDone(v, d), d)
  BY WithDoneIs
<1>2. \A e : self # Deferred(e)
  BY DeferredIs
<1> QED
  BY <1>1, <1>2 DEF SetsDone, IsNoted

LEMMA NotedOn ==
  ASSUME NEW v, AreDeferreds(v), NEW d \in DOMAIN v, NEW o, NEW p \in DOMAIN v, NEW waiting
  PROVE  LET w1 == WithAnswer(v, d, o)
             w2 == WithWaiting(w1, p, waiting)
         IN /\ IsNoted(v, WithDone(w2, d), d, o, Deferred(p), waiting)
            /\ w1[p].waiting = v[p].waiting
<1> DEFINE w1 == WithAnswer(v, d, o)
           w2 == WithWaiting(w1, p, waiting)
           w == WithDone(w2, d)
<1>1. SetsAnswer(v, w1, d, o)
  BY WithAnswerIs
<1> HIDE DEF w1
<1>2. AreDeferreds(w1) /\ DOMAIN w1 = DOMAIN v
  BY <1>1 DEF SetsAnswer, SameButNotes, AreDeferreds
<1>3. SetsWaiting(w1, w2, p, waiting)
  BY <1>2, WithWaitingIs
<1> HIDE DEF w2
<1>4. AreDeferreds(w2) /\ DOMAIN w2 = DOMAIN v
  BY <1>2, <1>3 DEF SetsWaiting, SameButNotes, AreDeferreds
<1>5. SetsDone(w2, w, d)
  BY <1>4, WithDoneIs
<1> HIDE DEF w
<1>6. \A e : Deferred(p) = Deferred(e) <=> p = e
  BY DeferredsDiffer
<1>7. \A e \in DOMAIN v :
        w[e].waiting = IF Deferred(p) = Deferred(e) THEN waiting ELSE v[e].waiting
  BY <1>1, <1>2, <1>3, <1>4, <1>5, <1>6 DEF SetsAnswer, SetsWaiting, SetsDone
<1>8. /\ w[d].answer = IF Deferred(p)[1] = "deferred" THEN o ELSE v[d].answer
      /\ w[d].done = TRUE
      /\ \A e \in DOMAIN v : e # d => w[e].done = v[e].done /\ w[e].answer = v[e].answer
  BY <1>1, <1>2, <1>3, <1>4, <1>5, DeferredIs DEF SetsAnswer, SetsWaiting, SetsDone
<1>9. SameButNotes(v, w1) /\ SameButNotes(w1, w2) /\ SameButNotes(w2, w)
  BY <1>1, <1>3, <1>5 DEF SetsAnswer, SetsWaiting, SetsDone
<1>10. SameButNotes(v, w)
  BY <1>9 DEF SameButNotes
<1>11. IsNoted(v, w, d, o, Deferred(p), waiting)
  BY <1>7, <1>8, <1>10 DEF IsNoted
<1>12. w1[p].waiting = v[p].waiting
  BY <1>1 DEF SetsAnswer
<1> QED
  BY <1>11, <1>12 DEF w, w1, w2

LEMMA AnsweredIs ==
  ASSUME NEW h, CoreInv(h), NEW d, NEW y, IsAnswering(h, d, y), NEW a, IsHandled(h, a, y), NEW o
  PROVE  LET g == AnsweredDone(a, d, o) IN HasAnswered(h, g, d, y, o) /\ g.it = a.it
<1> DEFINE g == AnsweredDone(a, d, o)
           v == h.deferred
           w == g.deferred
           wait == IF Self(h, d)[1] = "deferred" THEN Tail(Waiting(h, Self(h, d)[2])) ELSE <<>>
<1>1. /\ d \in DOMAIN v /\ AreDeferreds(v)
      /\ IsSeq(v) /\ DOMAIN v = 1..Len(v) /\ Len(v) \in Nat
  BY CoreIs DEF IsAnswering, ShapeInv, TargetsInv, AreDeferreds
<1>2. DOMAIN a = MemoryFields /\ a.deferred = v
  BY DEF IsHandled
<1>3. /\ IsNoted(v, w, d, o, Self(h, d), wait)
      /\ \A f \in MemoryFields : f # "deferred" => g[f] = a[f]
      /\ DOMAIN g = MemoryFields
  <2>1. CASE Self(h, d)[1] # "deferred"
    <3>1. Answered(a, d, o) = a
      BY <1>2, <2>1 DEF Answered, Self
    <3>2. g = [a EXCEPT !.deferred = WithDone(v, d)]
      BY <1>2, <3>1 DEF AnsweredDone, WithDone
    <3>3. w = WithDone(v, d)
      BY <1>2, <3>2 DEF MemoryFields
    <3>4. IsNoted(v, w, d, o, Self(h, d), wait)
      BY <1>1, <2>1, <3>3, NotedAlone
    <3> QED
      BY <1>2, <3>2, <3>4 DEF MemoryFields
  <2>2. CASE Self(h, d)[1] = "deferred"
    <3> DEFINE p == Self(h, d)[2]
               w1 == WithAnswer(v, d, o)
               w2 == WithWaiting(w1, p, wait)
               w3 == WithDone(w2, d)
    <3>1. Self(h, d) = Deferred(p) /\ p \in DOMAIN v
      <4>1. Knows(h, Self(h, d))
        BY <1>1, <2>2, CoreIs, NoPromiseIsNone DEF KnownInv, KnowsPromise, IsPromise
      <4> QED
        BY <1>1, <2>2, <4>1, KnownIs DEF Knows
    <3>2. Waiting(h, p) # <<>> /\ Waiting(h, p)[1] = d
      BY <3>1, HeadIs
    <3>3. IsSeq(Waiting(h, p))
      BY <3>1, CoreIs DEF ShapeInv
    <3>4. Without(Waiting(h, p), d) = wait
      BY <2>2, <3>2, <3>3, WithoutIs
    <3> HIDE DEF wait
    <3>5. IsNoted(v, w3, d, o, Deferred(p), wait) /\ w1[p].waiting = Waiting(h, p)
      BY <1>1, <3>1, NotedOn DEF Waiting
    <3>6. Answered(a, d, o) = [a EXCEPT !.deferred = WithWaiting(w1, p, Without(w1[p].waiting, d))]
      <4> DEFINE b == [a EXCEPT !.deferred[d].answer = o]
      <4>1. a.deferred = v /\ a.deferred[d].self = Self(h, d)
        BY <1>2 DEF Self
      <4>2. Answered(a, d, o) = [b EXCEPT !.deferred[p].waiting = Without(@, d)]
        BY <2>2, <4>1 DEF Answered
      <4>3. b = [a EXCEPT !.deferred = w1]
        BY <1>2 DEF WithAnswer
      <4>4. b.deferred = w1
        BY <1>2, <4>3 DEF MemoryFields
      <4> HIDE DEF b, w1
      <4>5. Answered(a, d, o) = [b EXCEPT !.deferred = WithWaiting(w1, p, Without(w1[p].waiting, d))]
        BY <4>2, <4>4 DEF WithWaiting
      <4> QED
        BY <4>3, <4>5
    <3>7. Answered(a, d, o) = [a EXCEPT !.deferred = w2]
      BY <3>4, <3>5, <3>6
    <3> HIDE DEF w1, w2
    <3>8. g = [a EXCEPT !.deferred = w3]
      BY <1>2, <3>7 DEF AnsweredDone, MemoryFields, WithDone
    <3>9. w = w3
      BY <1>2, <3>8 DEF MemoryFields
    <3> QED
      BY <1>2, <3>1, <3>5, <3>8, <3>9 DEF MemoryFields
  <2> QED
    BY <2>1, <2>2
<1>4. \A e : Self(h, d) = Deferred(e) => wait = Tail(Waiting(h, e))
  BY DeferredIs
<1> HIDE DEF wait, g
<1>5. IsSeq(w) /\ DOMAIN w = DOMAIN v
  BY <1>1, <1>3, IsSeqIs DEF IsNoted, SameButNotes
<1>6. \A e \in DOMAIN v : Waiting(g, e) = IF Self(h, d) = Deferred(e) THEN Tail(Waiting(h, e)) ELSE Waiting(h, e)
  BY <1>3, <1>4 DEF IsNoted, Waiting
<1>7. \A e \in DOMAIN v :
       /\ DOMAIN w[e] = DeferredFields
       /\ Target(g, e) = Target(h, e) /\ Self(g, e) = Self(h, e)
       /\ Gathered(g, e) = Gathered(h, e)
       /\ OnFulfilled(g, e) = OnFulfilled(h, e) /\ OnRejected(g, e) = OnRejected(h, e)
       /\ OnProgress(g, e) = OnProgress(h, e)
       /\ Messages(g, e) = Messages(h, e) /\ Listeners(g, e) = Listeners(h, e)
       /\ e # d => IsDone(g, e) = IsDone(h, e) /\ AnswerOf(g, e) = AnswerOf(h, e)
  BY <1>3 DEF IsNoted, SameButNotes, Target, Self, Gathered, OnFulfilled, OnRejected, OnProgress, Messages,
              Listeners, IsDone, AnswerOf
<1>8. /\ IsDone(g, d) = TRUE
      /\ Self(h, d)[1] = "deferred" => AnswerOf(g, d) = o
      /\ Self(h, d)[1] # "deferred" => AnswerOf(g, d) = AnswerOf(h, d)
  BY <1>3 DEF IsNoted, IsDone, AnswerOf
<1>9. /\ DOMAIN g = MemoryFields
      /\ g.queue = h.queue /\ g.flush = h.flush /\ g.held = h.held /\ g.late = h.late
      /\ g.rejections = h.rejections /\ g.timers = h.timers /\ g.outside = h.outside
      /\ g.unhandled = a.unhandled /\ g.it = a.it
  BY <1>3 DEF IsHandled, MemoryFields
<1>10. \A k : k \in g.unhandled <=> k \in h.unhandled /\ ~(y[1] = "rejected" /\ y[2] = k)
  BY <1>9 DEF IsHandled
<1>11. HasAnswered(h, g, d, y, o)
  BY <1>5, <1>6, <1>7, <1>8, <1>9, <1>10 DEF HasAnswered
<1> QED
  BY <1>9, <1>11 DEF g

\* What join compares holds no promise of the library.
LEMMA SameLoose ==
  ASSUME NEW h, CoreInv(h), NEW d \in DOMAIN h.deferred, OnFulfilled(h, d) = <<"spread", <<"same">>>>,
         NEW y, Final(y), y[1] = "fulfilled", Along(h, Self(h, d), y)
  PROVE  LooseItems(y[2])
<1>1. FlatInv(h)
  BY CoreIs
<1>2. PICK e \in DOMAIN h.deferred : Self(h, d) = Deferred(e) /\ IsAll(h, e)
  BY <1>1 DEF FlatInv
<1>3. \A f : y # Deferred(f)
  BY FinalEnds
<1>4. \A f \in DOMAIN h.deferred : Along(h, Deferred(f), y) =>
        IsResolved(h, f) /\ Along(h, Target(h, f), y)
  <2> SUFFICES ASSUME NEW f \in DOMAIN h.deferred, Along(h, Deferred(f), y)
               PROVE  IsResolved(h, f) /\ Along(h, Target(h, f), y)
    OBVIOUS
  <2>1. IsResolved(h, f)
    <3> SUFFICES ASSUME ~IsResolved(h, f) PROVE FALSE
      OBVIOUS
    <3>1. IsEnd(h, Deferred(f))
      BY DeferredsDiffer DEF IsEnd
    <3> QED
      BY <1>3, <3>1, AlongEnd
  <2> QED
    BY <1>3, <2>1, AlongSplit
<1>5. IsResolved(h, e) /\ Along(h, Target(h, e), y)
  BY <1>2, <1>4
<1>6. \A z : z[1] \in {"fulfilled", "rejected"} /\ Along(h, z, y) => z = y
  <2> SUFFICES ASSUME NEW z, z[1] \in {"fulfilled", "rejected"}, Along(h, z, y) PROVE z = y
    OBVIOUS
  <2>1. Final(z)
    BY DEF Final, IsPromise
  <2>2. IsEnd(h, z)
    BY <2>1, FinalEnds
  <2> QED
    BY <2>2, AlongEnd
<1>7. Target(h, e)[1] # "rejected"
  BY <1>5, <1>6
<1>8. PICK f \in DOMAIN h.deferred : Target(h, e) = Deferred(f) /\ IsFlat(h, f)
  BY <1>1, <1>2, <1>5, <1>7 DEF FlatInv
<1>9. IsResolved(h, f) /\ Along(h, Target(h, f), y)
  BY <1>4, <1>5, <1>8
<1>10. Target(h, f)[1] # "rejected"
  BY <1>6, <1>9
<1>11. Target(h, f) # None
  BY <1>9 DEF IsResolved, Target
<1>12. Target(h, f)[1] = "fulfilled" /\ LooseItems(Target(h, f)[2])
  BY <1>8, <1>10, <1>11 DEF IsFlat
<1> QED
  BY <1>6, <1>9, <1>12

\* The side and the value of an outcome.
IsSide(side, x, y) ==
  \/ side = "fulfilled" /\ y[1] = "fulfilled" /\ x = y[2]
  \/ side = "rejected" /\ y[1] = "rejected" /\ x = y[3]

\* What is known of a call that is being answered.
LEMMA AnsweringIs ==
  ASSUME NEW h, CoreInv(h), NEW d, NEW y, IsAnswering(h, d, y)
  PROVE  /\ d \in DOMAIN h.deferred /\ IsDone(h, d) = FALSE /\ Final(y)
         /\ KnowsPromise(h, y) /\ Along(h, Self(h, d), y)
         /\ Self(h, d) # None /\ d \in Own(h) /\ Gathered(h, d) = None
         /\ \A side, x : IsSide(side, x, y) => KnowsValue(h, x)
<1>1. d \in DOMAIN h.deferred /\ ~IsDone(h, d) /\ Final(y) /\ IsMessageAt(h, y, ToAnswer(d))
  BY DEF IsAnswering, Comes
<1>2. IsDone(h, d) \in BOOLEAN /\ KnownInv(h)
  BY <1>1, CoreIs DEF ShapeInv
<1>3. KnowsPromise(h, y) /\ IsThenAt(h, y, ToAnswer(d))
  BY <1>1, MessagesDiffer DEF IsMessageAt
<1>4. PICK e \in DOMAIN h.deferred :
        /\ Self(h, e) # None /\ Along(h, Self(h, e), y)
        /\ \/ ToAnswer(d) = ToAnswer(e)
           \/ ToAnswer(d) = ToListen(e) /\ ~IsDone(h, e)
  BY <1>3 DEF IsThenAt
<1>5. e = d
  BY <1>4, MessagesDiffer
<1>6. d \in Own(h) /\ Gathered(h, d) = None
  BY <1>1, <1>2, <1>4, <1>5 DEF KnownInv
<1>7. ASSUME NEW side, NEW x, IsSide(side, x, y) PROVE KnowsValue(h, x)
  BY <1>3, <1>7, KnownIs DEF IsSide, KnowsPromise, KnowsValue, Knows
<1> QED
  BY <1>1, <1>2, <1>3, <1>4, <1>5, <1>6, <1>7

HandlerOf(h, d, side) == IF side = "fulfilled" THEN OnFulfilled(h, d) ELSE OnRejected(h, d)

\* What the handlers of a call leave: without one, an outcome is passed on.
CallOf(g, cb, side, x) ==
  CASE cb # None -> Call(g, cb, x)
    [] cb = None /\ side = "fulfilled" -> Gives(g, x)
    [] cb = None /\ side = "rejected" -> Throws(g, x)

LEMMA HandlerKnown ==
  ASSUME NEW h, CoreInv(h), NEW d, NEW y, IsAnswering(h, d, y), NEW side, NEW x, IsSide(side, x, y),
         NEW b, NEW o, HasAnswered(h, b, d, y, o)
  PROVE  LET cb == HandlerOf(h, d, side)
         IN cb = None \/ (IsCallback(b, cb) /\ (cb = <<"spread", <<"same">>>> => LooseItems(x)))
<1> DEFINE cb == HandlerOf(h, d, side)
<1> SUFFICES ASSUME cb # None
             PROVE  IsCallback(b, cb) /\ (cb = <<"spread", <<"same">>>> => LooseItems(x))
  OBVIOUS
<1>1. d \in DOMAIN h.deferred /\ Final(y) /\ Along(h, Self(h, d), y)
  BY AnsweringIs
<1>2. CoreInv(b) /\ KnownInv(b) /\ d \in DOMAIN b.deferred
  BY <1>1, AnswersIs, CoreIs DEF HasAnswered
<1>3. OnFulfilled(b, d) = OnFulfilled(h, d) /\ OnRejected(b, d) = OnRejected(h, d)
  BY <1>1 DEF HasAnswered
<1>4. CASE side = "fulfilled"
  <2>1. cb = OnFulfilled(h, d)
    BY <1>4 DEF HandlerOf
  <2>2. y[1] = "fulfilled" /\ x = y[2]
    BY <1>4 DEF IsSide
  <2> HIDE DEF cb
  <2>3. IsCallback(b, cb)
    BY <1>2, <1>3, <2>1 DEF KnownInv
  <2>4. cb = <<"spread", <<"same">>>> => LooseItems(y[2])
    BY <1>1, <2>1, <2>2, SameLoose
  <2> QED
    BY <2>2, <2>3, <2>4
<1>5. CASE side = "rejected"
  <2>1. cb = OnRejected(h, d)
    BY <1>5 DEF HandlerOf
  <2> HIDE DEF cb
  <2>2. IsCallback(b, cb) /\ cb[1] # "spread"
    BY <1>2, <1>3, <2>1 DEF KnownInv
  <2> QED
    BY <2>2, NotSpread
<1> QED
  BY <1>4, <1>5 DEF IsSide

LEMMA CallOfIs ==
  ASSUME NEW b, CoreInv(b), NEW cb, NEW side \in {"fulfilled", "rejected"}, NEW x, KnowsValue(b, x),
         cb = None \/ (IsCallback(b, cb) /\ (cb = <<"spread", <<"same">>>> => LooseItems(x)))
  PROVE  Yields(b, CallOf(b, cb, side, x))
<1>1. CASE cb # None
  <2>1. CallOf(b, cb, side, x) = Call(b, cb, x)
    BY <1>1 DEF CallOf
  <2> QED
    BY <1>1, <2>1, CallIs DEF KnowsValue
<1>2. CASE cb = None /\ side = "fulfilled"
  <2>1. CallOf(b, cb, side, x) = Gives(b, x)
    BY <1>2 DEF CallOf
  <2> QED
    BY <2>1, GivesPlain, GoesSelf, ValueLoose
<1>3. CASE cb = None /\ side = "rejected"
  <2>1. CallOf(b, cb, side, x) = Throws(b, x)
    BY <1>3 DEF CallOf
  <2> QED
    BY <2>1, ThrowsPlain
<1> QED
  BY <1>1, <1>2, <1>3

\* The promise of all is resolved with that of the array it waits for.
LEMMA AllCalls ==
  ASSUME NEW b, CoreInv(b), NEW x, KnowsValue(b, x), x[1] = "array", LooseItems(x)
  PROVE  LET k == Caught(CallOf(b, <<"all">>, "fulfilled", x))
         IN \E e \in DOMAIN k.deferred : k.it = Deferred(e) /\ IsFlat(k, e)
<1> DEFINE c == CallOf(b, <<"all">>, "fulfilled", x)
<1>1. <<"all">> # None
  BY DEF None
<1>2. c = AllOf(b, x)
  BY <1>1 DEF CallOf, Call, IsScript, CallForValue
<1>3. \E e \in DOMAIN c.deferred : c.it = Deferred(e) /\ IsFlat(c, e)
  BY <1>2, AllOfIs
<1>4. c.it[1] = "deferred"
  BY <1>3, DeferredIs
<1> HIDE DEF c
<1>5. Caught(c) = c
  BY <1>4 DEF Caught
<1> QED
  BY <1>3, <1>5 DEF c

LEMMA HandleIs ==
  ASSUME NEW h, CoreInv(h), NEW d, NEW y, IsAnswering(h, d, y), NEW a, IsHandled(h, a, y),
         NEW side, NEW x, IsSide(side, x, y)
  PROVE  \E b : /\ HasAnswered(h, b, d, y, <<side, x>>)
                /\ Goes(b, Handle(a, d, side, x))
<1> DEFINE b == AnsweredDone(a, d, <<side, x>>)
           cb == HandlerOf(h, d, side)
           c == CallOf(b, cb, side, x)
           k == Caught(c)
<1>1. /\ d \in DOMAIN h.deferred /\ IsDone(h, d) = FALSE /\ Final(y)
      /\ KnowsPromise(h, y) /\ Along(h, Self(h, d), y)
      /\ Self(h, d) # None /\ d \in Own(h) /\ Gathered(h, d) = None /\ KnowsValue(h, x)
  BY AnsweringIs
<1>2. HasAnswered(h, b, d, y, <<side, x>>)
  BY AnsweredIs
<1>3. a.deferred = h.deferred
  BY DEF IsHandled
<1>4. Handle(a, d, side, x) = Resolve(k, d, k.it)
  BY <1>1, <1>3 DEF Handle, ResolveWithIt, AnsweredDone, HandlerOf, CallOf, IsDone, OnFulfilled,
                    OnRejected
<1> HIDE DEF b
<1>5. CoreInv(b) /\ KnowsValue(b, x)
  BY <1>1, <1>2, AnswersIs DEF KnowsValue
<1>6. cb = None \/ (IsCallback(b, cb) /\ (cb = <<"spread", <<"same">>>> => LooseItems(x)))
  BY <1>2, HandlerKnown
<1>7. side \in {"fulfilled", "rejected"}
  BY DEF IsSide
<1>8. /\ d \in DOMAIN b.deferred /\ Self(b, d) = Self(h, d) /\ Gathered(b, d) = None
      /\ OnFulfilled(b, d) = OnFulfilled(h, d) /\ OnRejected(b, d) = OnRejected(h, d)
      /\ Own(b) = Own(h)
  <2>1. Len(b.deferred) = Len(h.deferred)
    BY <1>2, <1>5, CoreIs, SameLength DEF HasAnswered, TargetsInv
  <2> QED
    BY <1>1, <1>2, <2>1 DEF HasAnswered, Own
<1> HIDE DEF cb
<1>9. Yields(b, c)
  BY <1>5, <1>6, <1>7, CallOfIs
<1> HIDE DEF c
<1>11. Goes(b, k) /\ IsGiven(b, k, k.it)
  BY <1>5, <1>9, CaughtIs
<1>12. /\ CoreInv(k) /\ DOMAIN b.deferred \subseteq DOMAIN k.deferred /\ Own(b) \subseteq Own(k)
       /\ More(b, k)
  BY <1>11, GoesIs DEF Goes, Grows, Widens
<1>13. /\ d \in DOMAIN k.deferred /\ Self(k, d) = Self(h, d) /\ Gathered(k, d) = None /\ d \in Own(k)
       /\ OnFulfilled(k, d) = OnFulfilled(h, d) /\ OnRejected(k, d) = OnRejected(h, d)
  BY <1>1, <1>8, <1>12 DEF More
<1>14. Knows(k, k.it) /\ (k.it[1] = "deferred" => Before(d, k.it[2]))
  <2>1. Knows(k, k.it) /\ (k.it[1] = "deferred" => k.it[2] \in 1..Sources \/ k.it[2] \notin DOMAIN b.deferred)
    BY <1>11 DEF IsGiven
  <2>2. /\ DOMAIN b.deferred = 1..Len(b.deferred) /\ Len(b.deferred) \in Nat
        /\ Sources \in Nat /\ Sources <= Len(b.deferred) /\ Len(k.deferred) \in Nat
    BY <1>5, <1>12, CoreIs, DomainIs
  <2>3. d \in 1..Len(b.deferred) /\ d > Sources
    BY <1>1, <1>8, <2>2 DEF Own
  <2>4. k.it[1] = "deferred" => k.it[2] \in 1..Len(k.deferred)
    BY <2>1, KnownIs DEF Knows
  <2> HIDE DEF k
  <2> QED
    BY <2>1, <2>2, <2>3, <2>4 DEF Before
<1>15. ~IsFlat(k, d)
  BY <1>13 DEF IsFlat, None
<1>16. ASSUME IsAll(k, d) PROVE \E e \in DOMAIN k.deferred : k.it = Deferred(e) /\ IsFlat(k, e)
  <2>1. PICK z : Self(h, d) = Fulfilled(z) /\ z[1] = "array" /\ LooseItems(z)
    BY <1>13, <1>16 DEF IsAll
  <2>2. OnFulfilled(h, d) = <<"all">>
    BY <1>13, <1>16 DEF IsAll
  <2>3. Final(Fulfilled(z)) /\ Fulfilled(z)[1] = "fulfilled" /\ Fulfilled(z)[2] = z
    BY DEF Final, Fulfilled, IsPromise
  <2>4. y = Fulfilled(z)
    BY <1>1, <2>1, <2>3, FinalEnds, AlongEnd
  <2>5. side = "fulfilled" /\ x = z
    BY <2>3, <2>4 DEF IsSide
  <2>6. k = Caught(CallOf(b, <<"all">>, "fulfilled", x))
    BY <2>2, <2>5 DEF c, cb, HandlerOf
  <2> HIDE DEF k
  <2> QED
    BY <1>5, <2>1, <2>5, <2>6, AllCalls
<1> HIDE DEF k
<1>17. MayResolve(k, d, k.it)
  BY <1>13, <1>14, <1>15, <1>16 DEF MayResolve
<1>18. Goes(k, Resolve(k, d, k.it))
  BY <1>12, <1>17, ResolveIs
<1>19. Goes(b, Resolve(k, d, k.it))
  BY <1>5, <1>11, <1>18, GoesTrans
<1> QED
  BY <1>2, <1>4, <1>19

-----------------------------------------------------------------------------
(* The tasks *)

\* A handler of the memory h is called, and then the library goes on to k.
HasCalled(h, k) ==
  \E d, y, side, x, b :
    /\ IsAnswering(h, d, y) /\ IsSide(side, x, y)
    /\ HasAnswered(h, b, d, y, <<side, x>>) /\ Goes(b, k)

\* A task calls the handlers of one call of then, or of none.
Proceeds(h, k) == MemoryInv(k) /\ (Widens(h, k) \/ HasCalled(h, k))

LEMMA GoesProceeds ==
  ASSUME NEW h, CoreInv(h), \A d : ~IsLost(h, d), NEW k, Goes(h, k)
  PROVE  Proceeds(h, k)
BY DEF Proceeds, Goes, Grows, MemoryInv

LEMMA GivenBefore ==
  ASSUME NEW h, CoreInv(h), NEW k, Goes(h, k), NEW x, IsGiven(h, k, x), NEW d \in Own(h),
         x[1] = "deferred"
  PROVE  Before(d, x[2])
<1>1. Knows(k, x) /\ (x[2] \in 1..Sources \/ x[2] \notin DOMAIN h.deferred)
  BY DEF IsGiven
<1>2. /\ DOMAIN h.deferred = 1..Len(h.deferred) /\ Len(h.deferred) \in Nat
      /\ Sources \in Nat /\ Sources <= Len(h.deferred) /\ Len(k.deferred) \in Nat
  BY CoreIs, DomainIs DEF Goes
<1>3. d \in 1..Len(h.deferred) /\ d > Sources
  BY <1>2 DEF Own
<1>4. x[2] \in 1..Len(k.deferred)
  BY <1>1, KnownIs DEF Knows
<1> QED
  BY <1>1, <1>2, <1>3, <1>4 DEF Before

\* What a message of dispatch is answered with resolves the promise of it.
LEMMA GivenResolves ==
  ASSUME NEW h, CoreInv(h), NEW k, Goes(h, k), NEW x, IsGiven(h, k, x), NEW d \in Plain(h)
  PROVE  Goes(h, Resolve(k, d, x))
<1>1. CoreInv(k) /\ Plain(h) \subseteq Plain(k) /\ d \in Plain(k) /\ Knows(k, x)
  BY GoesIs DEF IsGiven
<1>2. d \in Own(h)
  BY CoreIs
<1>3. /\ d \in DOMAIN k.deferred /\ Self(k, d) = None /\ Gathered(k, d) = None /\ d \in Own(k)
  BY <1>1, CoreIs DEF Plain
<1>4. x[1] = "deferred" => Before(d, x[2])
  BY <1>2, GivenBefore
<1>5. Goes(k, Resolve(k, d, x))
  BY <1>1, <1>3, <1>4, FreeResolves
<1> QED
  BY <1>5, GoesTrans

LEMMA AskValueIs ==
  ASSUME NEW h, CoreInv(h), NEW msg, IsAsk(h, msg), NEW x, KnowsValue(h, x)
  PROVE  Yields(h, AskValue(h, x, msg))
<1>1. CASE msg.op = "data" /\ msg.arg \in Function
  <2>1. AskValue(h, x, msg) = CallScript(h, msg.arg, x)
    BY <1>1 DEF AskValue
  <2>2. IsPlainCallback(h, msg.arg)
    BY <1>1 DEF IsPlainCallback
  <2> QED
    BY <2>1, <2>2, CallScriptIs DEF KnowsValue
<1>2. CASE msg.op = "apply" /\ Knows(h, msg.arg) /\ x[1] = "function"
  <2>1. AskValue(h, x, msg) = Call(h, x[2], msg.arg)
    BY <1>2 DEF AskValue
  <2>2. x[2] \in Function
    BY <1>2, KnownIs DEF KnowsValue, Knows
  <2>3. IsListener(h, x[2]) /\ x[2] # <<"spread", <<"same">>>>
    BY <2>2, FunctionIs, NotSpread
  <2> QED
    BY <1>2, <2>1, <2>3, CallIs
<1>3. CASE msg.op = "apply" /\ x[1] # "function"
  <2>1. AskValue(h, x, msg) = Throws(h, TypeError)
    BY <1>3 DEF AskValue
  <2>2. KnowsValue(h, TypeError)
    BY UsualKnown DEF TypeError
  <2> QED
    BY <2>1, <2>2, ThrowsPlain
<1> QED
  BY <1>1, <1>2, <1>3 DEF IsAsk

LEMMA AskedIs ==
  ASSUME NEW h, CoreInv(h), \A d : ~IsLost(h, d), NEW msg, IsAsk(h, msg),
         NEW x, KnowsPromise(h, x), Final(x)
  PROVE  Proceeds(h, Deliver(h, x, msg))
<1> DEFINE g == IF x[1] = "fulfilled" THEN Caught(AskValue(h, x[2], msg)) ELSE AskRejection(h, x, msg)
<1>1. msg.resolve[1] = "deferred" /\ msg.resolve[2] \in Plain(h) /\ msg.op # "when"
  BY DEF IsAsk
<1>2. x[1] \in {"fulfilled", "rejected"} /\ Knows(h, x)
  BY DEF Final, IsPromise, KnowsPromise
<1>3. Deliver(h, x, msg) = Resolve(g, msg.resolve[2], g.it)
  BY <1>1, <1>2 DEF Deliver, Replies, None
<1>4. Goes(h, g) /\ IsGiven(h, g, g.it)
  <2>1. CASE x[1] = "fulfilled"
    <3>1. KnowsValue(h, x[2])
      BY <1>2, <2>1, KnownIs DEF Knows, KnowsValue
    <3>2. Yields(h, AskValue(h, x[2], msg))
      BY <3>1, AskValueIs
    <3>3. g = Caught(AskValue(h, x[2], msg))
      BY <2>1
    <3> QED
      BY <3>2, <3>3, CaughtIs DEF IsGiven
  <2>2. CASE x[1] = "rejected"
    <3>1. g = Gives(h, x)
      BY <1>1, <2>2 DEF AskRejection
    <3>2. Loose(x)
      BY <2>2 DEF Loose
    <3>3. Goes(h, g) /\ g.it = x /\ Knows(g, x)
      BY <1>2, <3>1, GivesIs, GoesIs
    <3> QED
      BY <2>2, <3>3 DEF IsGiven
  <2> QED
    BY <1>2, <2>1, <2>2
<1> HIDE DEF g
<1>5. Goes(h, Resolve(g, msg.resolve[2], g.it))
  BY <1>1, <1>4, GivenResolves
<1> QED
  BY <1>3, <1>5, GoesProceeds

LEMMA SentIs ==
  ASSUME NEW h, CoreInv(h), NEW e \in DOMAIN h.deferred, NEW msg, Comes(h, Deferred(e), msg),
         \A d : IsLost(h, d) => msg = ToAnswer(d)
  PROVE  Proceeds(h, Deliver(h, Deferred(e), msg))
<1> DEFINE g == Send(h, e, msg)
<1>1. Deliver(h, Deferred(e), msg) = g
  BY DeferredIs DEF Deliver
<1>2. Goes(h, g) /\ \A c : msg = ToAnswer(c) => IsPlaced(g, c)
  BY SendIs
<1> HIDE DEF g
<1>3. \A d : ~IsLost(g, d)
  <2> SUFFICES ASSUME NEW d, IsLost(g, d) PROVE FALSE
    OBVIOUS
  <2>1. IsLost(h, d)
    BY <1>2 DEF Goes, Grows
  <2>2. IsPlaced(g, d)
    BY <1>2, <2>1
  <2> QED
    BY <2>2 DEF IsLost
<1> QED
  BY <1>1, <1>2, <1>3 DEF Proceeds, Goes, Grows, MemoryInv

\* A fulfilled promise answers then with its value.
LEMMA WhenAnswers ==
  ASSUME NEW h, CoreInv(h), NEW x, KnowsPromise(h, x), x[1] = "fulfilled", NEW msg, msg.op = "when"
  PROVE  LET g == Caught(AskValue(h, x[2], msg))
         IN g = Gives(h, x[2]) /\ Goes(h, g) /\ g.deferred = h.deferred /\ g.it = x[2]
<1>1. Knows(h, x[2])
  BY KnownIs DEF KnowsPromise, Knows
<1>2. x[2][1] # "throw"
  BY <1>1, KnownIs DEF Knows
<1>3. AskValue(h, x[2], msg) = Gives(h, x[2])
  BY DEF AskValue
<1>4. Goes(h, Gives(h, x[2])) /\ Gives(h, x[2]).deferred = h.deferred /\ Gives(h, x[2]).it = x[2]
  BY GivesIs
<1>5. Caught(Gives(h, x[2])) = Gives(h, x[2])
  BY <1>2, <1>4 DEF Caught
<1> QED
  BY <1>3, <1>4, <1>5

LEMMA ListenedIs ==
  ASSUME NEW h, CoreInv(h), \A d : ~IsLost(h, d), NEW d,
         NEW x, KnowsPromise(h, x), Final(x)
  PROVE  Proceeds(h, Deliver(h, x, ToListen(d)))
<1> DEFINE msg == ToListen(d)
           g == IF x[1] = "fulfilled" THEN Caught(AskValue(h, x[2], msg)) ELSE AskRejection(h, x, msg)
<1>1. msg.resolve = None /\ msg.rejected = None /\ msg.op = "when"
  BY MessagesDiffer
<1> HIDE DEF msg
<1>2. x[1] \in {"fulfilled", "rejected"}
  BY DEF Final, IsPromise
<1>3. Deliver(h, x, msg) = g
  BY <1>1, <1>2 DEF Deliver, Replies, None
<1>4. Goes(h, g)
  <2>1. CASE x[1] = "fulfilled"
    BY <1>1, <2>1, WhenAnswers
  <2>2. CASE x[1] = "rejected"
    <3>1. g = Gives(h, x)
      BY <1>1, <2>2 DEF AskRejection
    <3> QED
      BY <3>1, GivesIs
  <2> QED
    BY <1>2, <2>1, <2>2
<1> HIDE DEF g
<1>5. Proceeds(h, Deliver(h, x, msg))
  BY <1>3, <1>4, GoesProceeds
<1> QED
  BY <1>5 DEF msg

LEMMA HandleAgain ==
  ASSUME NEW h, NEW d, IsDone(h, d), NEW side, NEW x
  PROVE  Handle(h, d, side, x) = h
BY DEF Handle, IsDone

\* After the handlers of a call nothing is lost.
LEMMA CalledIs ==
  ASSUME NEW h, CoreInv(h), NEW d, NEW y, IsAnswering(h, d, y), NEW side, NEW x, IsSide(side, x, y),
         NEW b, HasAnswered(h, b, d, y, <<side, x>>), NEW k, Goes(b, k)
  PROVE  Proceeds(h, k) /\ IsDone(k, d)
<1>1. CoreInv(b) /\ \A e : ~IsLost(b, e)
  BY AnswersIs
<1>2. MemoryInv(k)
  BY <1>1 DEF Goes, Grows, MemoryInv
<1>3. HasCalled(h, k)
  BY DEF HasCalled
<1>4. d \in DOMAIN b.deferred /\ IsDone(b, d)
  BY AnsweringIs DEF HasAnswered
<1>5. IsDone(k, d)
  BY <1>4 DEF Goes, Grows, Widens, More
<1> QED
  BY <1>2, <1>3, <1>5 DEF Proceeds

LEMMA UntrackIs ==
  ASSUME NEW h, CoreInv(h), NEW y, y[1] = "rejected"
  PROVE  IsHandled(h, Untrack(h, y[2]), y) /\ Untrack(h, y[2]).deferred = h.deferred
<1>1. DOMAIN h = MemoryFields
  BY CoreIs DEF ShapeInv
<1> QED
  BY <1>1 DEF IsHandled, Untrack, MemoryFields

LEMMA AnsweredFulfilled ==
  ASSUME NEW h, CoreInv(h), NEW d, NEW y, IsAnswering(h, d, y), y[1] = "fulfilled"
  PROVE  Proceeds(h, Deliver(h, y, ToAnswer(d)))
<1> DEFINE msg == ToAnswer(d)
           g == Caught(AskValue(h, y[2], msg))
<1>1. msg.resolve = <<"then", d>> /\ msg.op = "when"
  BY MessagesDiffer
<1> HIDE DEF msg
<1>2. KnowsPromise(h, y) /\ IsSide("fulfilled", y[2], y)
  BY AnsweringIs DEF IsSide
<1>3. g = Gives(h, y[2]) /\ g.it = y[2]
  BY <1>1, <1>2, WhenAnswers
<1>4. IsHandled(h, g, y)
  <2>1. DOMAIN h = MemoryFields
    BY CoreIs DEF ShapeInv
  <2>2. Gives(h, y[2]) = [h EXCEPT !.it = y[2]]
    BY DEF Gives
  <2> QED
    BY <1>3, <2>1, <2>2 DEF IsHandled, MemoryFields
<1>5. Deliver(h, y, msg) = Handle(g, d, "fulfilled", g.it)
  BY <1>1 DEF Deliver, Replies, None
<1> HIDE DEF g
<1>6. PICK b : /\ HasAnswered(h, b, d, y, <<"fulfilled", y[2]>>)
               /\ Goes(b, Handle(g, d, "fulfilled", y[2]))
  BY <1>2, <1>4, HandleIs
<1>7. Proceeds(h, Deliver(h, y, msg))
  BY <1>2, <1>3, <1>5, <1>6, CalledIs
<1> QED
  BY <1>7 DEF msg

LEMMA AnsweredRejected ==
  ASSUME NEW h, CoreInv(h), NEW d, NEW y, IsAnswering(h, d, y), y[1] = "rejected"
  PROVE  /\ Proceeds(h, Deliver(h, y, ToAnswer(d)))
         /\ Deliver(h, y, ToAnswer(d)) =
              Gives(Handle(Untrack(h, y[2]), d, "rejected", y[3]), Undefined)
<1> DEFINE msg == ToAnswer(d)
           k == Handle(Untrack(h, y[2]), d, "rejected", y[3])
           g == Gives(k, Undefined)
<1>1. msg.resolve = <<"then", d>> /\ msg.rejected = <<"then", d>> /\ msg.op = "when"
  BY MessagesDiffer
<1> HIDE DEF msg
<1>2. IsSide("rejected", y[3], y)
  BY DEF IsSide
<1>3. Deliver(h, y, msg) = Handle(g, d, "fulfilled", g.it)
  BY <1>1 DEF Deliver, Replies, AskRejection, None
<1>4. IsHandled(h, Untrack(h, y[2]), y)
  BY UntrackIs
<1>5. PICK b : HasAnswered(h, b, d, y, <<"rejected", y[3]>>) /\ Goes(b, k)
  BY <1>2, <1>4, HandleIs
<1> HIDE DEF k
<1>6. CoreInv(b)
  BY <1>5, AnswersIs
<1>7. Goes(b, g)
  BY <1>5, <1>6, GivesIs, GoesTrans DEF Goes
<1> HIDE DEF g
<1>8. Proceeds(h, g) /\ IsDone(g, d)
  BY <1>2, <1>5, <1>7, CalledIs
<1>9. Handle(g, d, "fulfilled", g.it) = g
  BY <1>8, HandleAgain
<1>10. Proceeds(h, Deliver(h, y, msg)) /\ Deliver(h, y, msg) = g
  BY <1>3, <1>8, <1>9
<1> QED
  BY <1>10 DEF msg, g, k

\* A call whose handlers were called is not touched again.
LEMMA AnsweredTwice ==
  ASSUME NEW h, CoreInv(h), \A e : ~IsLost(h, e), NEW d \in DOMAIN h.deferred, IsDone(h, d),
         NEW y, KnowsPromise(h, y), Final(y), Along(h, Self(h, d), y)
  PROVE  Proceeds(h, Deliver(h, y, ToAnswer(d)))
<1> DEFINE msg == ToAnswer(d)
<1>1. msg.resolve = <<"then", d>> /\ msg.rejected = <<"then", d>> /\ msg.op = "when"
  BY MessagesDiffer
<1> HIDE DEF msg
<1>2. CASE y[1] = "fulfilled"
  <2> DEFINE g == Caught(AskValue(h, y[2], msg))
  <2>1. Goes(h, g) /\ g.deferred = h.deferred
    BY <1>1, <1>2, WhenAnswers
  <2>2. Deliver(h, y, msg) = Handle(g, d, "fulfilled", g.it)
    BY <1>1, <1>2 DEF Deliver, Replies, None
  <2> HIDE DEF g
  <2>3. Handle(g, d, "fulfilled", g.it) = g
    BY <2>1, HandleAgain DEF IsDone
  <2> QED
    BY <2>1, <2>2, <2>3, GoesProceeds DEF msg
<1>3. CASE y[1] = "rejected"
  <2> DEFINE a == Untrack(h, y[2])
             k == Handle(a, d, "rejected", y[3])
             g == Gives(k, Undefined)
  <2>1. Deliver(h, y, msg) = Handle(g, d, "fulfilled", g.it)
    BY <1>1, <1>3 DEF Deliver, Replies, AskRejection, None
  <2>2. IsHandled(h, a, y)
    BY <1>3, UntrackIs
  <2>3. y[2] \in 1..h.rejections
    BY <1>3, KnownIs DEF KnowsPromise, Knows
  <2>4. SeesRejection(h, d, y[2])
    BY <1>3 DEF SeesRejection
  <2>5. y[2] \notin h.unhandled
    BY <2>3, <2>4, CoreIs DEF DoneInv
  <2>6. a.unhandled = h.unhandled
    <3>1. a.unhandled = h.unhandled \ {y[2]}
      BY CoreIs DEF Untrack, ShapeInv, MemoryFields
    <3> QED
      BY <2>5, <3>1
  <2>7. Goes(h, a)
    <3>1. /\ DOMAIN a = MemoryFields /\ a.deferred = h.deferred
          /\ a.queue = h.queue /\ a.flush = h.flush /\ a.held = h.held /\ a.late = h.late
          /\ a.rejections = h.rejections /\ a.timers = h.timers /\ a.outside = h.outside
      BY <2>2 DEF IsHandled
    <3> HIDE DEF a
    <3>2. /\ a.outside \subseteq 1..Sources \cup Plain(h)
          /\ \A timer \in a.timers :  timer \in h.timers
      BY <3>1, CoreIs DEF KnownInv
    <3> QED
      BY <2>6, <3>1, <3>2, Alike
  <2>8. k = a
    BY <2>2, HandleAgain DEF IsHandled, IsDone
  <2> HIDE DEF a, k
  <2>9. Goes(h, g) /\ g.deferred = h.deferred
    <3>1. Goes(a, g) /\ g.deferred = a.deferred
      BY <2>7, <2>8, GivesIs DEF Goes
    <3> QED
      BY <2>2, <2>7, <3>1, GoesTrans DEF IsHandled
  <2> HIDE DEF g
  <2>10. Handle(g, d, "fulfilled", g.it) = g
    BY <2>9, HandleAgain DEF IsDone
  <2> QED
    BY <2>1, <2>9, <2>10, GoesProceeds DEF msg
<1> QED
  BY <1>2, <1>3 DEF Final, IsPromise

LEMMA DeliverIs ==
  ASSUME NEW h, CoreInv(h), NEW x, NEW msg, Comes(h, x, msg),
         \A d : Final(x) /\ msg = ToAnswer(d) =>
           \A i \in DOMAIN h.queue : h.queue[i].do = "progress" => h.queue[i].of # d,
         \A d : IsLost(h, d) => msg = ToAnswer(d)
  PROVE  Proceeds(h, Deliver(h, x, msg))
<1>1. KnowsPromise(h, x) /\ IsMessageAt(h, x, msg)
  BY DEF Comes, IsMessageAt
<1>2. CASE x[1] = "deferred"
  <2>1. x = Deferred(x[2]) /\ x[2] \in DOMAIN h.deferred
    BY <1>1, <1>2, KnownIs, CoreIs DEF KnowsPromise, Knows
  <2> QED
    BY <2>1, SentIs
<1>3. CASE x[1] # "deferred"
  <2>1. Final(x)
    BY <1>1, <1>3 DEF Final, KnowsPromise
  <2>2. CASE IsAsk(h, msg)
    <3>1. \A d : ~IsLost(h, d)
      BY <2>2, MessagesDiffer
    <3> QED
      BY <1>1, <2>1, <2>2, <3>1, AskedIs
  <2>3. CASE IsThenAt(h, x, msg)
    <3>1. PICK d \in DOMAIN h.deferred :
            /\ Self(h, d) # None /\ Along(h, Self(h, d), x)
            /\ msg = ToAnswer(d) \/ msg = ToListen(d)
      BY <2>3 DEF IsThenAt
    <3>2. CASE msg = ToListen(d)
      <4>1. \A e : ~IsLost(h, e)
        BY <3>2, MessagesDiffer
      <4> QED
        BY <1>1, <2>1, <3>2, <4>1, ListenedIs
    <3>3. CASE msg = ToAnswer(d) /\ IsDone(h, d)
      <4>1. \A e : ~IsLost(h, e)
        BY <3>3, MessagesDiffer DEF IsLost
      <4> QED
        BY <1>1, <2>1, <3>1, <3>3, <4>1, AnsweredTwice
    <3>4. CASE msg = ToAnswer(d) /\ ~IsDone(h, d)
      <4>1. \A e : IsLost(h, e) => e = d
        BY <3>4, MessagesDiffer
      <4>2. IsAnswering(h, d, x)
        BY <2>1, <3>1, <3>4, <4>1 DEF IsAnswering
      <4>3. x[1] \in {"fulfilled", "rejected"}
        BY <2>1 DEF Final, IsPromise
      <4> QED
        BY <3>4, <4>2, <4>3, AnsweredFulfilled, AnsweredRejected
    <3> QED
      BY <3>1, <3>2, <3>3, <3>4
  <2> QED
    BY <1>1, <2>2, <2>3 DEF IsMessageAt
<1> QED
  BY <1>2, <1>3

\* What no task looks at may change.
LEMMA AsideIs ==
  ASSUME NEW h, CoreInv(h), NEW f \in {"thrown", "called", "notified", "fired", "it"}, NEW x
  PROVE  LET g == [h EXCEPT ![f] = x]
         IN Goes(h, g) /\ g.deferred = h.deferred /\ (f # "it" => g.it = h.it)
<1> DEFINE g == [h EXCEPT ![f] = x]
<1>1. DOMAIN h = MemoryFields /\ h.outside \subseteq 1..Sources \cup Plain(h)
  BY CoreIs DEF ShapeInv, KnownInv
<1>2. /\ DOMAIN g = MemoryFields /\ g.deferred = h.deferred
      /\ g.queue = h.queue /\ g.flush = h.flush /\ g.held = h.held /\ g.late = h.late
      /\ g.rejections = h.rejections /\ g.unhandled = h.unhandled /\ g.timers = h.timers
      /\ g.outside = h.outside /\ (f # "it" => g.it = h.it)
  BY <1>1 DEF MemoryFields
<1> HIDE DEF g
<1>3. Goes(h, g)
  BY <1>1, <1>2, Alike
<1> QED
  BY <1>2, <1>3 DEF g

LEMMA ProgressIs ==
  ASSUME NEW h, CoreInv(h), \A e : ~IsLost(h, e), NEW d \in DOMAIN h.deferred, ~IsDone(h, d),
         NEW x, Knows(h, x)
  PROVE  Proceeds(h, Progress(h, d, x))
<1> DEFINE cb == OnProgress(h, d)
           g == IF cb = None THEN Gives(h, x) ELSE Call(h, cb, x)
           late == [g EXCEPT !.late = g.late]
           thrown == [late EXCEPT !.thrown = Append(late.thrown, late.it[2])]
<1>1. Yields(h, g) \/ (Goes(h, g) /\ g.it = x)
  <2>1. CASE cb = None
    BY <2>1, GivesIs
  <2>2. CASE cb # None
    <3>1. IsListener(h, cb)
      BY <2>2, CoreIs DEF KnownInv
    <3>2. cb[1] # "spread"
      BY <3>1, FunctionIs DEF IsListener
    <3>3. cb # <<"spread", <<"same">>>>
      BY <3>2, NotSpread
    <3>4. g = Call(h, cb, x)
      BY <2>2
    <3> HIDE DEF cb, g
    <3>5. Yields(h, Call(h, cb, x))
      BY <3>1, <3>3, CallIs
    <3> QED
      BY <3>4, <3>5
  <2> QED
    BY <2>1, <2>2
<1>2. Goes(h, g) /\ (g.it[1] # "throw" => Knows(g, g.it))
  BY <1>1, GoesIs DEF Yields, IsGiven
<1>3. Progress(h, d, x) = IF late.it[1] = "throw" THEN thrown ELSE Notify(late, d, late.it)
  BY DEF Progress, PassOn, IsDone, OnProgress
<1> HIDE DEF g
<1>4. CoreInv(g) /\ DOMAIN g = MemoryFields
  BY <1>2, CoreIs DEF Goes, ShapeInv
<1>5. Goes(g, late) /\ late.it = g.it
  <2>1. g.outside \subseteq 1..Sources \cup Plain(g)
    BY <1>4, CoreIs DEF KnownInv
  <2>2. /\ DOMAIN late = MemoryFields /\ late.deferred = g.deferred
        /\ late.queue = g.queue /\ late.flush = g.flush /\ late.held = g.held /\ late.late = g.late
        /\ late.rejections = g.rejections /\ late.unhandled = g.unhandled
        /\ late.timers = g.timers /\ late.outside = g.outside /\ late.it = g.it
    BY <1>4 DEF MemoryFields
  <2> HIDE DEF late
  <2> QED
    BY <1>4, <2>1, <2>2, Alike
<1> HIDE DEF late
<1>6. Goes(h, late) /\ CoreInv(late)
  BY <1>2, <1>5, GoesTrans DEF Goes
<1>7. Goes(late, thrown)
  BY <1>6, AsideIs
<1> HIDE DEF thrown
<1>8. ASSUME late.it[1] # "throw" PROVE Goes(late, Notify(late, d, late.it))
  <2>1. Knows(late, late.it)
    BY <1>2, <1>5, <1>8, GoesIs
  <2>2. d \in DOMAIN late.deferred
    BY <1>6, GoesIs
  <2> QED
    BY <1>6, <2>1, <2>2, NotifyIs
<1>9. Goes(late, Progress(h, d, x))
  BY <1>3, <1>7, <1>8
<1>10. Goes(h, Progress(h, d, x))
  BY <1>6, <1>9, GoesTrans
<1> QED
  BY <1>10, GoesProceeds

LEMMA CoerceIs ==
  ASSUME NEW h, CoreInv(h), \A e : ~IsLost(h, e), NEW d \in Plain(h),
         NEW thenable, thenable[2] \in {"throws", "keeps"}
  PROVE  Proceeds(h, Coerce(h, thenable, d))
<1>1. d \in DOMAIN h.deferred /\ KnowsValue(h, Error("then"))
  BY CoreIs, UsualKnown
<1>2. CASE thenable[2] = "throws"
  <2>1. Coerce(h, thenable, d) = Reject(h, d, Error("then"))
    BY <1>2 DEF Coerce
  <2> QED
    BY <1>1, <2>1, RejectIs, GoesProceeds
<1>3. CASE thenable[2] = "keeps"
  <2>1. Coerce(h, thenable, d) = [h EXCEPT !.outside = @ \cup {d}]
    BY <1>3 DEF Coerce
  <2> QED
    BY <2>1, OutsideIs, GoesProceeds
<1> QED
  BY <1>2, <1>3

LEMMA RunIs ==
  ASSUME NEW h, CoreInv(h), NEW t, IsDue(h, t),
         \A d : IsLost(h, d) => t.do = "dispatch" /\ t.msg = ToAnswer(d)
  PROVE  Proceeds(h, Run(h, t))
<1>1. CASE t.do = "dispatch"
  <2>1. Run(h, t) = Deliver(h, t.to, t.msg)
    BY <1>1 DEF Run
  <2> QED
    BY <1>1, <2>1, DeliverIs DEF IsDue
<1>2. CASE t.do # "dispatch"
  <2>1. \A d : ~IsLost(h, d)
    BY <1>2
  <2>2. CASE /\ t.do = "progress" /\ Knows(h, t.value)
             /\ t.of \in DOMAIN h.deferred /\ Self(h, t.of) # None /\ ~IsDone(h, t.of)
    <3>1. Run(h, t) = Progress(h, t.of, t.value)
      BY <2>2 DEF Run
    <3> QED
      BY <2>1, <2>2, <3>1, ProgressIs
  <2>3. CASE /\ t.do = "coerce"
             /\ t.thenable[2] \in {"throws", "keeps"} /\ t.deferred \in Plain(h)
    <3>1. Run(h, t) = Coerce(h, t.thenable, t.deferred)
      BY <2>3 DEF Run
    <3> QED
      BY <2>1, <2>3, <3>1, CoerceIs
  <2>4. CASE t.do = "throw"
    <3>1. Run(h, t) = [h EXCEPT !.thrown = Append(@, t.value)]
      BY <2>4 DEF Run
    <3>2. \A x : Goes(h, [h EXCEPT !.thrown = x])
      BY AsideIs
    <3> QED
      BY <2>1, <3>1, <3>2, GoesProceeds
  <2>5. CASE t.do = "tells"
    <3>1. Run(h, t) = [h EXCEPT !.called = Append(@, <<t.side, t.value>>)]
      BY <2>5 DEF Run
    <3>2. \A x : Goes(h, [h EXCEPT !.called = x])
      BY AsideIs
    <3> QED
      BY <2>1, <3>1, <3>2, GoesProceeds
  <2> QED
    BY <1>2, <2>2, <2>3, <2>4, <2>5 DEF IsDue, IsTask
<1> QED
  BY <1>1, <1>2

\* A task that is taken from the queue.
LEMMA TaskIs ==
  ASSUME NEW h, MemoryInv(h), h.queue # <<>>, h.flush # "idle"
  PROVE  LET g == [h EXCEPT !.queue = Tail(@)]
         IN CoreInv(g) /\ Widens(h, g) /\ g.deferred = h.deferred /\ Proceeds(g, Run(g, Head(h.queue)))
<1> DEFINE g == [h EXCEPT !.queue = Tail(@)]
           t == Head(h.queue)
<1>1. CoreInv(h) /\ DOMAIN h = MemoryFields /\ \A d : ~IsLost(h, d)
  BY CoreIs DEF MemoryInv, ShapeInv
<1>2. SameRest(h, g) /\ g.deferred = h.deferred /\ g.queue = Tail(h.queue) /\ g.flush # "idle"
  BY <1>1 DEF SameRest, MemoryFields
<1>3. HasTaken(h, g, t)
  BY <1>2 DEF HasTaken
<1> HIDE DEF g, t
<1>4. /\ CoreInv(g) /\ Widens(h, g) /\ IsDue(g, t)
      /\ \A d : IsLost(g, d) => IsLost(h, d) \/ (t.do = "dispatch" /\ t.msg = ToAnswer(d))
  BY <1>1, <1>3, Takes
<1>5. \A d : IsLost(g, d) => t.do = "dispatch" /\ t.msg = ToAnswer(d)
  BY <1>1, <1>4
<1>6. Proceeds(g, Run(g, t))
  BY <1>4, <1>5, RunIs
<1> QED
  BY <1>2, <1>4, <1>6 DEF g, t

-----------------------------------------------------------------------------
(* The calls of a script *)

\* A call leaves something that the script may hold.
Gets(h, g) == Goes(h, g) /\ Knows(g, g.it)

LEMMA NewGets ==
  ASSUME NEW h, NEW g, GivesNew(h, g)
  PROVE  Gets(h, g)
BY NewIs DEF Gets, KnowsPromise

LEMMA LastGets ==
  ASSUME NEW h, NEW z, Yields(h, Gives(z, Undefined))
  PROVE  Gets(h, Gives(z, Undefined))
<1> DEFINE g == Gives(z, Undefined)
<1>1. g = [z EXCEPT !.it = Undefined]
  BY DEF Gives
<1>2. Goes(h, g) /\ CoreInv(g)
  BY DEF Yields, Goes
<1>3. DOMAIN g = MemoryFields
  BY <1>2, CoreIs DEF ShapeInv
<1>4. g.it = Undefined
  BY <1>1, <1>3 DEF MemoryFields
<1> HIDE DEF g
<1>5. Gets(h, g)
  BY <1>2, <1>4, UsualKnown DEF Gets, KnowsValue
<1> QED
  BY <1>5 DEF g

MayBeCalled(c) ==
  /\ c \in ScriptCall /\ TakesItsArguments(c)
  /\ c.call \in {"spread", "promised", "tap", "finally", "nfapply"} => c.fulfilled # None
  /\ c.call \notin {"promise", "nfapply", "async", "spawn"} => c.of # None

LEMMA ArgumentsAre ==
  ASSUME NEW c, MayBeCalled(c)
  PROVE  /\ c.fulfilled = None \/ c.fulfilled \in Function
         /\ c.rejected = None \/ c.rejected \in Function
         /\ c.progressed = None \/ c.progressed \in Function
         /\ c.call \in {"then", "done", "fail", "progress", "thenResolve", "thenReject", "ask",
              "fcall", "all", "any", "allResolved", "allSettled", "race", "raceOf", "promise",
              "spread", "join", "promised", "tap", "finally", "timeout", "delay", "nfapply",
              "nodeify", "async", "spawn"}
         /\ c.of = None \/ c.of \in Input \/ c.of \in {"held"} \X (Nat \ {0})
         /\ c.call \in {"spread", "promised", "tap", "finally", "nfapply"} => c.fulfilled \in Function
         /\ c.call = "thenResolve" => c.value \in Input
         /\ c.call = "thenReject" => c.value \in Reason
         /\ c.call = "ask" => c.value \in Function
         /\ c.call = "promise" => c.value \in Resolver
         /\ c.call \in {"async", "spawn"} => c.value \in Generator
         /\ c.call \in {"any", "race"} => c.of[1] = "array"
         /\ c.call \in {"join", "promised"} => c.of[1] = "array" /\ Len(c.of[2]) = 2
         /\ c.call \notin {"promise", "nfapply", "async", "spawn"} => c.of # None
<1>1. /\ c \in ScriptCall /\ TakesItsArguments(c)
      /\ c.call \in {"spread", "promised", "tap", "finally", "nfapply"} => c.fulfilled # None
      /\ c.call \notin {"promise", "nfapply", "async", "spawn"} => c.of # None
  BY DEF MayBeCalled
<1>2. /\ c.fulfilled \in Function \cup {None} /\ c.rejected \in Function \cup {None}
      /\ c.progressed \in Function \cup {None}
      /\ c.of \in Input \cup ({"held"} \X (Nat \ {0})) \cup {None}
      /\ c.call \in {"then", "done", "fail", "progress", "thenResolve", "thenReject", "ask",
              "fcall", "all", "any", "allResolved", "allSettled", "race", "raceOf", "promise",
              "spread", "join", "promised", "tap", "finally", "timeout", "delay", "nfapply",
              "nodeify", "async", "spawn"}
  BY <1>1 DEF ScriptCall
<1> QED
  BY <1>1, <1>2 DEF TakesItsArguments

\* The two items that join and promised are called with.
LEMMA TwoItems ==
  ASSUME NEW h, CoreInv(h), NEW x \in Input, x[1] = "array", Len(x[2]) = 2
  PROVE  /\ Knows(h, Items(x)[1]) /\ Loose(Items(x)[1]) /\ Knows(h, Items(x)[2]) /\ Loose(Items(x)[2])
         /\ IsSeq(Tail(Items(x))) /\ \A i \in DOMAIN Tail(Items(x)) : Knows(h, Tail(Items(x))[i])
<1>1. x[2] \in Seq(Item) /\ Items(x) = x[2]
  <2>1. x \notin Item
    BY ItemKnown, SourcesAssumption
  <2> QED
    BY <2>1 DEF Input, Items
<1> DEFINE s == Items(x)
<1>2. s \in Seq(Item) /\ Len(s) = 2 /\ DOMAIN s = 1..2
  BY <1>1, LenProperties
<1> HIDE DEF s
<1>3. s[1] \in Item /\ s[2] \in Item /\ IsSeq(s) /\ s # <<>>
  <2>1. 1 \in 1..Len(s) /\ 2 \in 1..Len(s)
    BY <1>2
  <2>2. s[1] \in Item
    <3> HIDE DEF Item
    <3> QED
      BY <1>2, <2>1, ElementOfSeq
  <2>3. s[2] \in Item
    <3> HIDE DEF Item
    <3> QED
      BY <1>2, <2>1, ElementOfSeq
  <2>4. IsSeq(s)
    BY <1>2 DEF IsSeq
  <2>5. ASSUME s = <<>> PROVE FALSE
    <3>1. Len(s) = 0
      BY <2>5
    <3> QED
      BY <3>1, <1>2
  <2> QED
    BY <2>2, <2>3, <2>4, <2>5
<1>4. \A z \in Item : Knows(h, z) /\ Loose(z)
  BY UsualKnown DEF Input
<1>5. IsSeq(Tail(s)) /\ DOMAIN Tail(s) = 1..1 /\ Tail(s)[1] = s[2]
  <2>1. /\ IsSeq(Tail(s)) /\ DOMAIN Tail(s) = 1..(Len(s) - 1)
        /\ \A i \in 1..(Len(s) - 1) : Tail(s)[i] = s[i + 1]
    BY <1>3, TailIs
  <2>2. Len(s) - 1 = 1 /\ 1 \in 1..1 /\ 1 + 1 = 2
    BY <1>2
  <2> QED
    BY <2>1, <2>2
<1> QED
  BY <1>3, <1>4, <1>5 DEF s

LEMMA HeldIs ==
  ASSUME CoreInv(m), NEW c, MayBeCalled(c), c.of # None, c.of[1] = "held" => c.of[2] \in DOMAIN m.held
  PROVE  Knows(m, Held(c.of))
<1>1. CASE c.of[1] = "held"
  BY <1>1, CoreIs DEF Held, KnownInv
<1>2. CASE c.of[1] # "held"
  <2>1. Held(c.of) = c.of
    BY <1>2 DEF Held
  <2>2. c.of \in Input
    BY <1>2, ArgumentsAre
  <2> QED
    BY <2>1, <2>2, UsualKnown
<1> QED
  BY <1>1, <1>2

\* What a call of a script makes.
LEMMA MakesAre ==
  ASSUME NEW c
  PROVE  LET x == Held(c.of)
         IN /\ c.call = "then" => Makes(c) = When(m, x, c.fulfilled, c.rejected, c.progressed)
            /\ c.call = "done" => Makes(c) = Done(m, x, c.fulfilled, c.rejected, c.progressed)
            /\ c.call = "fail" => Makes(c) = Fail(m, x, c.rejected)
            /\ c.call = "progress" => Makes(c) = ProgressOf(m, x, c.progressed)
            /\ c.call = "thenResolve" => Makes(c) = ThenResolve(m, x, c.value)
            /\ c.call = "thenReject" => Makes(c) = ThenReject(m, x, c.value)
            /\ c.call = "ask" => Makes(c) = Ask(m, x, "data", c.value)
            /\ c.call = "fcall" => Makes(c) = Fcall(m, x, Undefined)
            /\ c.call = "all" => Makes(c) = All(m, x)
            /\ c.call = "any" => Makes(c) = AnyOf(m, Items(x))
            /\ c.call = "allResolved" => Makes(c) = AllResolved(m, x)
            /\ c.call = "allSettled" => Makes(c) = AllSettled(m, x)
            /\ c.call = "race" => Makes(c) = Race(m, x)
            /\ c.call = "raceOf" => Makes(c) = When(m, x, <<"race">>, None, None)
            /\ c.call = "promise" => Makes(c) = NewPromise(m, c.value)
            /\ c.call = "spread" => Makes(c) = Spread(m, x, c.fulfilled, c.rejected)
            /\ c.call = "join" => Makes(c) = Join(m, Items(x)[1], Items(x)[2])
            /\ c.call = "promised" => Makes(c) = Promised(m, Items(x)[1], Tail(Items(x)), c.fulfilled)
            /\ c.call = "tap" => Makes(c) = Tap(m, x, c.fulfilled)
            /\ c.call = "finally" => Makes(c) = Finally(m, x, c.fulfilled)
            /\ c.call = "timeout" => Makes(c) = Timeout(m, x)
            /\ c.call = "delay" => Makes(c) = Delay(m, x)
            /\ c.call = "nfapply" => Makes(c) = Nfapply(m, c.fulfilled)
            /\ c.call = "nodeify" => Makes(c) = Nodeify(m, x)
            /\ c.call = "async" => Makes(c) = Async(m, c.value)
            /\ c.call = "spawn" => Makes(c) = Spawn(m, c.value)
<1>1. c.call = "then" => Makes(c) = When(m, Held(c.of), c.fulfilled, c.rejected, c.progressed)
  BY DEF Makes
<1>2. c.call = "done" => Makes(c) = Done(m, Held(c.of), c.fulfilled, c.rejected, c.progressed)
  BY DEF Makes
<1>3. c.call = "fail" => Makes(c) = Fail(m, Held(c.of), c.rejected)
  BY DEF Makes
<1>4. c.call = "progress" => Makes(c) = ProgressOf(m, Held(c.of), c.progressed)
  BY DEF Makes
<1>5. c.call = "thenResolve" => Makes(c) = ThenResolve(m, Held(c.of), c.value)
  BY DEF Makes
<1>6. c.call = "thenReject" => Makes(c) = ThenReject(m, Held(c.of), c.value)
  BY DEF Makes
<1>7. c.call = "ask" => Makes(c) = Ask(m, Held(c.of), "data", c.value)
  BY DEF Makes
<1>8. c.call = "fcall" => Makes(c) = Fcall(m, Held(c.of), Undefined)
  BY DEF Makes
<1>9. c.call = "all" => Makes(c) = All(m, Held(c.of))
  BY DEF Makes
<1>10. c.call = "any" => Makes(c) = AnyOf(m, Items(Held(c.of)))
  BY DEF Makes
<1>11. c.call = "allResolved" => Makes(c) = AllResolved(m, Held(c.of))
  BY DEF Makes
<1>12. c.call = "allSettled" => Makes(c) = AllSettled(m, Held(c.of))
  BY DEF Makes
<1>13. c.call = "race" => Makes(c) = Race(m, Held(c.of))
  BY DEF Makes
<1>14. c.call = "raceOf" => Makes(c) = When(m, Held(c.of), <<"race">>, None, None)
  BY DEF Makes
<1>15. c.call = "promise" => Makes(c) = NewPromise(m, c.value)
  BY DEF Makes
<1>16. c.call = "spread" => Makes(c) = Spread(m, Held(c.of), c.fulfilled, c.rejected)
  BY DEF Makes
<1>17. c.call = "join" => Makes(c) = Join(m, Items(Held(c.of))[1], Items(Held(c.of))[2])
  BY DEF Makes
<1>18. c.call = "promised" => Makes(c) = Promised(m, Items(Held(c.of))[1], Tail(Items(Held(c.of))), c.fulfilled)
  BY DEF Makes
<1>19. c.call = "tap" => Makes(c) = Tap(m, Held(c.of), c.fulfilled)
  BY DEF Makes
<1>20. c.call = "finally" => Makes(c) = Finally(m, Held(c.of), c.fulfilled)
  BY DEF Makes
<1>21. c.call = "timeout" => Makes(c) = Timeout(m, Held(c.of))
  BY DEF Makes
<1>22. c.call = "delay" => Makes(c) = Delay(m, Held(c.of))
  BY DEF Makes
<1>23. c.call = "nfapply" => Makes(c) = Nfapply(m, c.fulfilled)
  BY DEF Makes
<1>24. c.call = "nodeify" => Makes(c) = Nodeify(m, Held(c.of))
  BY DEF Makes
<1>25. c.call = "async" => Makes(c) = Async(m, c.value)
  BY DEF Makes
<1>26. c.call = "spawn" => Makes(c) = Spawn(m, c.value)
  BY DEF Makes
<1> QED
  BY <1>1, <1>2, <1>3, <1>4, <1>5, <1>6, <1>7, <1>8, <1>9, <1>10, <1>11, <1>12, <1>13, <1>14, <1>15, <1>16, <1>17, <1>18, <1>19, <1>20, <1>21, <1>22, <1>23, <1>24, <1>25, <1>26

\* A call of a script answers something that the memory knows.
LEMMA MakesIs ==
  ASSUME CoreInv(m), NEW c, MayBeCalled(c), c.of[1] = "held" => c.of[2] \in DOMAIN m.held
  PROVE  Gets(m, Makes(c))
<1> DEFINE x == Held(c.of)
<1>1. CoreInv(m)
  OBVIOUS
<1>2. /\ c.fulfilled = None \/ c.fulfilled \in Function
      /\ c.rejected = None \/ c.rejected \in Function
      /\ c.progressed = None \/ c.progressed \in Function
      /\ c.call \in {"spread", "promised", "tap", "finally", "nfapply"} => c.fulfilled \in Function
      /\ c.call = "thenResolve" => c.value \in Input
      /\ c.call = "thenReject" => c.value \in Reason
      /\ c.call = "ask" => c.value \in Function
      /\ c.call = "promise" => c.value \in Resolver
      /\ c.call \in {"async", "spawn"} => c.value \in Generator
  BY ArgumentsAre
<1>3. c.call \notin {"promise", "nfapply", "async", "spawn"} => Knows(m, x)
  BY ArgumentsAre, HeldIs
<1>4. c.call \in {"join", "promised"} => x \in Input /\ x[1] = "array" /\ Len(x[2]) = 2
  <2> SUFFICES ASSUME c.call \in {"join", "promised"}
               PROVE  x \in Input /\ x[1] = "array" /\ Len(x[2]) = 2
    OBVIOUS
  <2>1. c.of[1] = "array" /\ Len(c.of[2]) = 2 /\ c.of # None
    BY ArgumentsAre
  <2>2. x = c.of
    BY <2>1 DEF Held
  <2>3. c.of \in Input \/ c.of \in {"held"} \X (Nat \ {0})
    BY <2>1, ArgumentsAre
  <2>4. c.of \in Input
    <3> HIDE DEF Input
    <3> QED
      BY <2>1, <2>3
  <2> QED
    BY <2>1, <2>2, <2>4
<1>5. c.call \in {"then", "done", "fail", "progress", "thenResolve", "thenReject", "ask",
        "fcall", "all", "any", "allResolved", "allSettled", "race", "raceOf", "promise",
        "spread", "join", "promised", "tap", "finally", "timeout", "delay", "nfapply",
        "nodeify", "async", "spawn"}
  BY ArgumentsAre
<1> HIDE DEF x
<1> DEFINE fu == c.fulfilled
           re == c.rejected
           pr == c.progressed
<1>6. /\ fu = None \/ (IsCallback(m, fu) /\ fu[1] # "spread")
      /\ re = None \/ (IsCallback(m, re) /\ re[1] # "spread")
      /\ pr = None \/ IsListener(m, pr)
  BY <1>2, FunctionIs
<1>7. Knows(m, Undefined)
  BY UsualKnown DEF KnowsValue
<1>8. CASE c.call = "then"
  <2>1. c.call = "then" /\ c.call \in {"then"}
    BY <1>8
  <2>2. Makes(c) = When(m, x, c.fulfilled, c.rejected, c.progressed)
    BY <2>1, MakesAre DEF x
  <2> QED
    BY <1>1, <1>3, <1>6, <2>1, <2>2, WhenPlain, NewGets
<1>9. CASE c.call = "done"
  <2>1. c.call = "done" /\ c.call \in {"done"}
    BY <1>9
  <2>2. Makes(c) = Done(m, x, c.fulfilled, c.rejected, c.progressed)
    BY <2>1, MakesAre DEF x
  <2>3. Yields(m, Done(m, x, fu, re, pr))
    BY <1>1, <1>2, <1>3, <2>1, DoneIs
  <2>4. PICK z : Done(m, x, fu, re, pr) = Gives(z, Undefined)
    BY DEF Done
  <2> QED
    BY <2>2, <2>3, <2>4, LastGets
<1>10. CASE c.call = "fail"
  <2>1. c.call = "fail" /\ c.call \in {"fail"}
    BY <1>10
  <2>2. Makes(c) = Fail(m, x, c.rejected)
    BY <2>1, MakesAre DEF x
  <2> QED
    BY <1>1, <1>3, <1>6, <2>1, <2>2, WhenPlain, NewGets DEF Fail
<1>11. CASE c.call = "progress"
  <2>1. c.call = "progress" /\ c.call \in {"progress"}
    BY <1>11
  <2>2. Makes(c) = ProgressOf(m, x, c.progressed)
    BY <2>1, MakesAre DEF x
  <2> QED
    BY <1>1, <1>3, <1>6, <2>1, <2>2, WhenPlain, NewGets DEF ProgressOf
<1>12. CASE c.call = "thenResolve"
  <2>1. c.call = "thenResolve" /\ c.call \in {"thenResolve"}
    BY <1>12
  <2>2. Makes(c) = ThenResolve(m, x, c.value)
    BY <2>1, MakesAre DEF x
  <2> QED
    BY <1>1, <1>2, <1>3, <2>1, <2>2, WhensAre, UsualKnown, NewGets
<1>13. CASE c.call = "thenReject"
  <2>1. c.call = "thenReject" /\ c.call \in {"thenReject"}
    BY <1>13
  <2>2. Makes(c) = ThenReject(m, x, c.value)
    BY <2>1, MakesAre DEF x
  <2> QED
    BY <1>1, <1>2, <1>3, <2>1, <2>2, WhensAre, UsualKnown, NewGets
<1>14. CASE c.call = "ask"
  <2>1. c.call = "ask" /\ c.call \in {"ask"}
    BY <1>14
  <2>2. Makes(c) = Ask(m, x, "data", c.value)
    BY <2>1, MakesAre DEF x
  <2> QED
    BY <1>1, <1>2, <1>3, <2>1, <2>2, AskIs, NewGets
<1>15. CASE c.call = "fcall"
  <2>1. c.call = "fcall" /\ c.call \in {"fcall"}
    BY <1>15
  <2>2. Makes(c) = Fcall(m, x, Undefined)
    BY <2>1, MakesAre DEF x
  <2> QED
    BY <1>1, <1>3, <1>7, <2>1, <2>2, FcallIs, NewGets
<1>16. CASE c.call = "all"
  <2>1. c.call = "all" /\ c.call \in {"all"}
    BY <1>16
  <2>2. Makes(c) = All(m, x)
    BY <2>1, MakesAre DEF x
  <2> QED
    BY <1>1, <1>3, <2>1, <2>2, WhenPlain, CallbacksAre, NewGets DEF All
<1>17. CASE c.call = "any"
  <2>1. c.call = "any" /\ c.call \in {"any"}
    BY <1>17
  <2>2. Makes(c) = AnyOf(m, Items(x))
    BY <2>1, MakesAre DEF x
  <2> QED
    BY <1>1, <1>3, <2>1, <2>2, AnyOfIs, ItemsKnows DEF Gets, Yields, KnowsPromise
<1>18. CASE c.call = "allResolved"
  <2>1. c.call = "allResolved" /\ c.call \in {"allResolved"}
    BY <1>18
  <2>2. Makes(c) = AllResolved(m, x)
    BY <2>1, MakesAre DEF x
  <2> QED
    BY <1>1, <1>3, <2>1, <2>2, WhensAre, NewGets
<1>19. CASE c.call = "allSettled"
  <2>1. c.call = "allSettled" /\ c.call \in {"allSettled"}
    BY <1>19
  <2>2. Makes(c) = AllSettled(m, x)
    BY <2>1, MakesAre DEF x
  <2> QED
    BY <1>1, <1>3, <2>1, <2>2, WhensAre, NewGets
<1>20. CASE c.call = "race"
  <2>1. c.call = "race" /\ c.call \in {"race"}
    BY <1>20
  <2>2. Makes(c) = Race(m, x)
    BY <2>1, MakesAre DEF x
  <2> QED
    BY <1>1, <1>3, <2>1, <2>2, RaceIs, NewGets
<1>21. CASE c.call = "raceOf"
  <2>1. c.call = "raceOf" /\ c.call \in {"raceOf"}
    BY <1>21
  <2>2. Makes(c) = When(m, x, <<"race">>, None, None)
    BY <2>1, MakesAre DEF x
  <2> QED
    BY <1>1, <1>3, <2>1, <2>2, WhensAre, NewGets
<1>22. CASE c.call = "promise"
  <2>1. c.call = "promise" /\ c.call \in {"promise"}
    BY <1>22
  <2>2. Makes(c) = NewPromise(m, c.value)
    BY <2>1, MakesAre DEF x
  <2> QED
    BY <1>1, <1>2, <2>1, <2>2, NewPromiseIs, NewGets
<1>23. CASE c.call = "spread"
  <2>1. c.call = "spread" /\ c.call \in {"spread"}
    BY <1>23
  <2>2. Makes(c) = Spread(m, x, c.fulfilled, c.rejected)
    BY <2>1, MakesAre DEF x
  <2> QED
    BY <1>1, <1>2, <1>3, <2>1, <2>2, SpreadIs, NewGets
<1>24. CASE c.call = "join"
  <2>1. c.call = "join" /\ c.call \in {"join"}
    BY <1>24
  <2>2. Makes(c) = Join(m, Items(x)[1], Items(x)[2])
    BY <2>1, MakesAre DEF x
  <2> QED
    BY <1>1, <1>4, <2>1, <2>2, TwoItems, JoinIs, NewGets
<1>25. CASE c.call = "promised"
  <2>1. c.call = "promised" /\ c.call \in {"promised"}
    BY <1>25
  <2>2. Makes(c) = Promised(m, Items(x)[1], Tail(Items(x)), c.fulfilled)
    BY <2>1, MakesAre DEF x
  <2> QED
    BY <1>1, <1>2, <1>4, <2>1, <2>2, TwoItems, PromisedIs, NewGets
<1>26. CASE c.call = "tap"
  <2>1. c.call = "tap" /\ c.call \in {"tap"}
    BY <1>26
  <2>2. Makes(c) = Tap(m, x, c.fulfilled)
    BY <2>1, MakesAre DEF x
  <2> QED
    BY <1>1, <1>2, <1>3, <2>1, <2>2, WhensAre, NewGets
<1>27. CASE c.call = "finally"
  <2>1. c.call = "finally" /\ c.call \in {"finally"}
    BY <1>27
  <2>2. Makes(c) = Finally(m, x, c.fulfilled)
    BY <2>1, MakesAre DEF x
  <2> QED
    BY <1>1, <1>2, <1>3, <2>1, <2>2, WhensAre, NewGets
<1>28. CASE c.call = "timeout"
  <2>1. c.call = "timeout" /\ c.call \in {"timeout"}
    BY <1>28
  <2>2. Makes(c) = Timeout(m, x)
    BY <2>1, MakesAre DEF x
  <2> QED
    BY <1>1, <1>3, <2>1, <2>2, TimeoutIs, NewGets
<1>29. CASE c.call = "delay"
  <2>1. c.call = "delay" /\ c.call \in {"delay"}
    BY <1>29
  <2>2. Makes(c) = Delay(m, x)
    BY <2>1, MakesAre DEF x
  <2> QED
    BY <1>1, <1>3, <2>1, <2>2, WhensAre, NewGets
<1>30. CASE c.call = "nfapply"
  <2>1. c.call = "nfapply" /\ c.call \in {"nfapply"}
    BY <1>30
  <2>2. Makes(c) = Nfapply(m, c.fulfilled)
    BY <2>1, MakesAre DEF x
  <2> QED
    BY <1>1, <1>2, <2>1, <2>2, NfapplyIs, NewGets
<1>31. CASE c.call = "nodeify"
  <2>1. c.call = "nodeify" /\ c.call \in {"nodeify"}
    BY <1>31
  <2>2. Makes(c) = Nodeify(m, x)
    BY <2>1, MakesAre DEF x
  <2> QED
    BY <1>1, <1>3, <2>1, <2>2, NodeifyIs, LastGets DEF Nodeify
<1>32. CASE c.call = "async"
  <2>1. c.call = "async" /\ c.call \in {"async"}
    BY <1>32
  <2>2. Makes(c) = Async(m, c.value)
    BY <2>1, MakesAre DEF x
  <2> QED
    BY <1>1, <1>2, <1>7, <2>1, <2>2, ContinuerIs, UsualKnown DEF Async, Gets, Yields, KnowsPromise
<1>33. CASE c.call = "spawn"
  <2>1. c.call = "spawn" /\ c.call \in {"spawn"}
    BY <1>33
  <2>2. Makes(c) = Spawn(m, c.value)
    BY <2>1, MakesAre DEF x
  <2> QED
    BY <1>1, <1>2, <2>1, <2>2, SpawnIs, LastGets DEF Spawn, Done
<1> QED
  BY <1>5, <1>8, <1>9, <1>10, <1>11, <1>12, <1>13, <1>14, <1>15, <1>16, <1>17, <1>18, <1>19, <1>20, <1>21, <1>22, <1>23, <1>24, <1>25, <1>26, <1>27, <1>28, <1>29, <1>30, <1>31, <1>32, <1>33

-----------------------------------------------------------------------------
(* The steps *)

\* One more thing that the script holds.
LEMMA HoldsIs ==
  ASSUME NEW h, CoreInv(h), NEW x, Knows(h, x)
  PROVE  LET g == [h EXCEPT !.held = Append(@, x)]
         IN /\ CoreInv(g) /\ g.deferred = h.deferred /\ g.late = h.late
            /\ \A d : IsLost(g, d) <=> IsLost(h, d)
<1> DEFINE g == [h EXCEPT !.held = Append(@, x)]
<1>1. DOMAIN h = MemoryFields /\ IsSeq(h.held) /\ \A i \in DOMAIN h.held : Knows(h, h.held[i])
  BY CoreIs DEF ShapeInv, KnownInv
<1>2. /\ DOMAIN g = MemoryFields /\ g.deferred = h.deferred
      /\ g.queue = h.queue /\ g.flush = h.flush /\ g.held = Append(h.held, x) /\ g.late = h.late
      /\ g.rejections = h.rejections /\ g.unhandled = h.unhandled /\ g.timers = h.timers
      /\ g.outside = h.outside
  BY <1>1 DEF MemoryFields
<1> HIDE DEF g
<1>3. /\ \A d : /\ Target(g, d) = Target(h, d) /\ Self(g, d) = Self(h, d)
                /\ IsDone(g, d) = IsDone(h, d) /\ AnswerOf(g, d) = AnswerOf(h, d)
                /\ OnFulfilled(g, d) = OnFulfilled(h, d)
                /\ OnRejected(g, d) = OnRejected(h, d) /\ OnProgress(g, d) = OnProgress(h, d)
                /\ Gathered(g, d) = Gathered(h, d) /\ Waiting(g, d) = Waiting(h, d)
                /\ Messages(g, d) = Messages(h, d) /\ Listeners(g, d) = Listeners(h, d)
                /\ (IsResolved(g, d) <=> IsResolved(h, d))
      /\ Own(g) = Own(h) /\ Plain(g) = Plain(h)
      /\ \A y : Knows(g, y) <=> Knows(h, y)
      /\ \A y, z : Along(g, y, z) <=> Along(h, y, z)
      /\ \A a, b : Leads(g, a, b) <=> Leads(h, a, b)
      /\ \A y, msg : IsMessageAt(g, y, msg) <=> IsMessageAt(h, y, msg)
      /\ \A task : IsTask(g, task) <=> IsTask(h, task)
  BY <1>2, SameDeferreds
<1>4. /\ IsSeq(g.held) /\ \A i \in DOMAIN g.held : Knows(g, g.held[i])
  <2> DEFINE s == h.held
  <2>1. /\ IsSeq(Append(s, x)) /\ DOMAIN Append(s, x) = 1..(Len(s) + 1)
        /\ \A i \in DOMAIN s : Append(s, x)[i] = s[i]
        /\ Append(s, x)[Len(s) + 1] = x
        /\ Len(s) \in Nat /\ DOMAIN s = 1..Len(s)
    BY <1>1, AppendIs, SeqIs
  <2>2. \A i \in 1..(Len(s) + 1) : i \in 1..Len(s) \/ i = Len(s) + 1
    BY <2>1
  <2> QED
    BY <1>1, <1>2, <1>3, <2>1, <2>2
<1>5. \A d : IsFlat(g, d) <=> IsFlat(h, d)
  BY <1>3 DEF IsFlat
<1>6. More(h, g)
  BY <1>2, <1>3, <1>5, CoreIs DEF More
<1>7. ShapeInv(g) /\ TargetsInv(g)
  BY <1>2, <1>3, <1>4, CoreIs DEF ShapeInv, TargetsInv
<1>8. KnownInv(g)
  <2>1. KnownInv(h)
    BY CoreIs
  <2>2. \A d \in DOMAIN g.deferred :
          /\ Target(g, d) = None \/ KnowsPromise(g, Target(g, d))
          /\ Gathered(g, d) # None =>
               KnowsValue(g, Gathered(g, d)) /\ d \in Own(g) /\ Self(g, d) = None
          /\ Self(g, d) # None => d \in Own(g) /\ KnowsPromise(g, Self(g, d))
    BY <1>2, <1>3, <2>1 DEF KnownInv, KnowsPromise, KnowsValue
  <2>3. \A d \in DOMAIN g.deferred :
          /\ OnFulfilled(g, d) = None \/ IsCallback(g, OnFulfilled(g, d))
          /\ OnRejected(g, d) = None
               \/ (IsCallback(g, OnRejected(g, d)) /\ OnRejected(g, d)[1] # "spread")
          /\ OnProgress(g, d) = None \/ IsListener(g, OnProgress(g, d))
    BY <1>2, <1>3, <1>6, <2>1, MoreCallback DEF KnownInv
  <2>4. \A timer \in g.timers :
          /\ timer[2] \in Plain(g) /\ timer[1] \in {"timeout", "delay"}
          /\ timer[1] = "delay" => KnowsValue(g, timer[3])
    BY <1>2, <1>3, <2>1 DEF KnownInv, KnowsValue
  <2>5. g.outside \subseteq 1..Sources \cup Plain(g) /\ g.unhandled \subseteq 1..g.rejections
    BY <1>2, <1>3, <2>1 DEF KnownInv
  <2> QED
    BY <1>4, <2>2, <2>3, <2>4, <2>5 DEF KnownInv
<1>9. FlatInv(g)
  <2>1. \A d : IsAll(g, d) <=> IsAll(h, d)
    BY <1>3 DEF IsAll
  <2> QED
    BY <1>2, <1>3, <1>5, <2>1, CoreIs DEF FlatInv
<1>10. KeptInv(g) /\ QueueInv(g)
  BY <1>2, <1>3, CoreIs DEF KeptInv, QueueInv
<1>11. WaitingInv(g)
  BY <1>2, <1>3, CoreIs DEF WaitingInv
<1>12. DoneInv(g)
  <2>1. \A d, k : SeesRejection(g, d, k) <=> SeesRejection(h, d, k)
    BY <1>3 DEF SeesRejection
  <2> QED
    BY <1>2, <1>3, <2>1, CoreIs DEF DoneInv
<1>13. \A i : (IsQueued(g, i) <=> IsQueued(h, i)) /\ To(g, i) = To(h, i) /\ Sent(g, i) = Sent(h, i)
  BY <1>2 DEF IsQueued, To, Sent
<1>14. OrderInv(g)
  <2>1. OrderInv(h)
    BY CoreIs
  <2> QED
    BY <1>2, <1>3, <1>13, <2>1 DEF OrderInv
<1>15. ListenInv(g)
  <2>1. ListenInv(h)
    BY CoreIs
  <2> QED
    BY <1>2, <1>3, <1>13, <2>1 DEF ListenInv
<1>16. \A d : IsPlaced(g, d) <=> IsPlaced(h, d)
  BY <1>2, <1>3, <1>13 DEF IsPlaced
<1>17. \A d : IsLost(g, d) <=> IsLost(h, d)
  BY <1>2, <1>3, <1>16 DEF IsLost
<1>18. CoreInv(g)
  BY <1>7, <1>8, <1>9, <1>10, <1>11, <1>12, <1>14, <1>15 DEF CoreInv
<1> QED
  BY <1>2, <1>17, <1>18 DEF g

\* The flush starts, or ends with an empty queue.
LEMMA FlushIs ==
  ASSUME NEW h, CoreInv(h), NEW flush, flush = "idle" => h.queue = <<>>
  PROVE  Goes(h, [h EXCEPT !.flush = flush])
<1> DEFINE g == [h EXCEPT !.flush = flush]
<1>1. DOMAIN h = MemoryFields /\ IsSeq(h.queue)
  BY CoreIs DEF ShapeInv
<1>2. SameRest(h, g) /\ g.deferred = h.deferred /\ g.queue = h.queue /\ g.flush = flush
  BY <1>1 DEF SameRest, MemoryFields
<1> HIDE DEF g
<1>3. IsSeq(<<>>) /\ DOMAIN <<>> = {}
  <2>1. <<>> \in Seq({})
    OBVIOUS
  <2> QED
    BY <2>1 DEF IsSeq
<1>4. h.queue \o <<>> = h.queue
  <2>1. PICK V : h.queue \in Seq(V)
    BY <1>1 DEF IsSeq
  <2> QED
    BY <2>1, ConcatEmptySeq
<1>5. ArePosts(h, <<>>)
  BY <1>3 DEF ArePosts
<1>6. Goes(h, g)
  BY <1>2, <1>3, <1>4, <1>5, Posts
<1> QED
  BY <1>6 DEF g

\* What a step of a script, of the flush or of a timer does: it is one of the
\* library's, beside what is not of its deferreds.
Steps(h, k) ==
  /\ MemoryInv(k) /\ k.late = h.late
  /\ \E f, g :
       /\ CoreInv(f) /\ CoreInv(g) /\ f.deferred = h.deferred /\ g.deferred = k.deferred
       /\ Widens(f, g) \/ HasCalled(f, g)

LEMMA GoesSteps ==
  ASSUME NEW h, MemoryInv(h), NEW k, Goes(h, k)
  PROVE  Steps(h, k)
<1>1. MemoryInv(k) /\ CoreInv(h) /\ CoreInv(k) /\ Widens(h, k)
  BY DEF MemoryInv, Goes, Grows
<1>2. k.late = h.late
  BY <1>1 DEF Widens
<1> QED
  BY <1>1, <1>2 DEF Steps

LEMMA StepsAside ==
  ASSUME NEW h, NEW k, Steps(h, k), NEW l, CoreInv(l), l.deferred = k.deferred, l.late = k.late,
         \A d : IsLost(l, d) => IsLost(k, d)
  PROVE  Steps(h, l)
<1>1. MemoryInv(l)
  BY DEF MemoryInv, Steps
<1> QED
  BY <1>1 DEF Steps

LEMMA EndedIs ==
  ASSUME NEW h, NEW k, Steps(h, k)
  PROVE  Steps(h, Ended(k))
<1> DEFINE l == Ended(k)
<1>1. CoreInv(k)
  BY DEF Steps, MemoryInv
<1>2. Goes(k, l) /\ l.deferred = k.deferred
  BY <1>1, AsideIs DEF Ended
<1> HIDE DEF l
<1>3. CoreInv(l) /\ l.late = k.late /\ \A d : IsLost(l, d) => IsLost(k, d)
  BY <1>2 DEF Goes, Grows, Widens
<1>4. Steps(h, l)
  BY <1>2, <1>3, StepsAside
<1> QED
  BY <1>4 DEF l

LEMMA RunSteps ==
  ASSUME NEW h, MemoryInv(h), h.queue # <<>>, h.flush # "idle"
  PROVE  Steps(h, Ended(Run([h EXCEPT !.queue = Tail(@)], Head(h.queue))))
<1> DEFINE g == [h EXCEPT !.queue = Tail(@)]
           k == Run(g, Head(h.queue))
<1>1. CoreInv(g) /\ Widens(h, g) /\ g.deferred = h.deferred /\ Proceeds(g, k)
  BY TaskIs
<1> HIDE DEF g, k
<1>2. MemoryInv(k) /\ CoreInv(k) /\ g.late = h.late
  BY <1>1 DEF Proceeds, MemoryInv, Widens
<1>3. k.late = g.late
  <2>1. CASE Widens(g, k)
    BY <2>1 DEF Widens
  <2>2. CASE HasCalled(g, k)
    BY <2>2 DEF HasCalled, HasAnswered, Goes, Grows, Widens
  <2> QED
    BY <1>1, <2>1, <2>2 DEF Proceeds
<1>4. Widens(g, k) \/ HasCalled(g, k)
  BY <1>1 DEF Proceeds
<1>5. Steps(h, k)
  BY <1>1, <1>2, <1>3, <1>4 DEF Steps
<1>6. Steps(h, Ended(k))
  BY <1>5, EndedIs
<1> QED
  BY <1>6 DEF g, k

LEMMA CallSteps ==
  ASSUME MemoryInv(m), NEW c, MayBeCalled(c), c.of[1] = "held" => c.of[2] \in DOMAIN m.held
  PROVE  LET h == Makes(c) IN Steps(m, Ended([h EXCEPT !.held = Append(@, h.it)]))
<1> DEFINE h == Makes(c)
           g == [h EXCEPT !.held = Append(@, h.it)]
<1>1. CoreInv(m)
  BY DEF MemoryInv
<1>2. Goes(m, h) /\ Knows(h, h.it)
  BY <1>1, MakesIs DEF Gets
<1> HIDE DEF h
<1>3. Steps(m, h) /\ CoreInv(h)
  BY <1>2, GoesSteps DEF Goes
<1>4. CoreInv(g) /\ g.deferred = h.deferred /\ g.late = h.late /\ \A d : IsLost(g, d) <=> IsLost(h, d)
  BY <1>2, <1>3, HoldsIs
<1> HIDE DEF g
<1>5. Steps(m, g)
  BY <1>3, <1>4, StepsAside
<1>6. Steps(m, Ended(g))
  BY <1>5, EndedIs
<1> QED
  BY <1>6 DEF g, h

\* What a timer has fired for, it resolves or rejects.
LEMMA FiresIs ==
  ASSUME NEW h, MemoryInv(h), NEW timer \in h.timers, NEW f
  PROVE  LET g == [h EXCEPT !.timers = @ \ {timer}, !.fired = f]
         IN Steps(h, Ended(IF timer[1] = "timeout" THEN Reject(g, timer[2], TimedOut)
                           ELSE Resolve(g, timer[2], timer[3])))
<1> DEFINE g1 == [h EXCEPT !.timers = @ \ {timer}]
           g2 == [g1 EXCEPT !["fired"] = f]
           g == [h EXCEPT !.timers = @ \ {timer}, !.fired = f]
           d == timer[2]
<1>1. CoreInv(h) /\ DOMAIN h = MemoryFields
  BY CoreIs DEF MemoryInv, ShapeInv
<1>2. g2 = g
  BY <1>1 DEF MemoryFields
<1>3. Goes(h, g1) /\ CoreInv(g1)
  BY <1>1, ClearsIs DEF Goes
<1> HIDE DEF g1
<1>4. Goes(g1, g2)
  BY <1>3, AsideIs
<1>5. Goes(h, g)
  BY <1>1, <1>2, <1>3, <1>4, GoesTrans
<1> HIDE DEF g, g2
<1>6. /\ CoreInv(g) /\ d \in Plain(g) /\ timer[1] \in {"timeout", "delay"}
      /\ timer[1] = "delay" => KnowsValue(g, timer[3])
  <2>1. /\ d \in Plain(h) /\ timer[1] \in {"timeout", "delay"}
        /\ timer[1] = "delay" => KnowsValue(h, timer[3])
    BY <1>1, CoreIs DEF KnownInv
  <2> QED
    BY <1>5, <2>1, GoesIs
<1>7. d \in DOMAIN g.deferred
  BY <1>6, CoreIs
<1>8. CASE timer[1] = "timeout"
  <2>1. KnowsValue(g, TimedOut)
    BY <1>6, UsualKnown DEF TimedOut
  <2>2. Goes(g, Reject(g, d, TimedOut))
    BY <1>6, <1>7, <2>1, RejectIs
  <2>3. Steps(h, Reject(g, d, TimedOut))
    BY <1>1, <1>5, <2>2, GoesTrans, GoesSteps
  <2> QED
    BY <1>8, <2>3, EndedIs DEF g
<1>9. CASE timer[1] # "timeout"
  <2>1. KnowsValue(g, timer[3])
    BY <1>6, <1>9
  <2>2. Goes(g, Resolve(g, d, timer[3]))
    BY <1>6, <2>1, ValueLoose, PlainResolves
  <2>3. Steps(h, Resolve(g, d, timer[3]))
    BY <1>1, <1>5, <2>2, GoesTrans, GoesSteps
  <2> QED
    BY <1>9, <2>3, EndedIs DEF g
<1> QED
  BY <1>8, <1>9

LEMMA PlainData ==
  ASSUME NEW h, NEW d
  PROVE  KnowsValue(h, <<"value", d>>) /\ KnowsValue(h, <<"reason", d>>)
         /\ KnowsValue(h, <<"progress", d>>)
<1>1. <<"value", d>>[1] = "value" /\ <<"reason", d>>[1] = "reason" /\ <<"progress", d>>[1] = "progress"
  OBVIOUS
<1>2. \A x : x[1] \in {"value", "reason", "progress"} => KnowsValue(h, x)
  BY KnownPlain DEF KnowsValue, Knows, IsPromise, Tagged
<1> QED
  BY <1>1, <1>2

\* What a script may settle is free.
LEMMA OutsideFree ==
  ASSUME NEW h, CoreInv(h), NEW d \in h.outside
  PROVE  d \in DOMAIN h.deferred /\ Self(h, d) = None /\ Gathered(h, d) = None
         /\ d \in Nat
<1>1. d \in 1..Sources \cup Plain(h) /\ Sources \in Nat
  BY CoreIs, SourcesAssumption DEF KnownInv
<1>2. CASE d \in Plain(h)
  BY <1>2, CoreIs DEF Plain
<1>3. CASE d \in 1..Sources
  <2>1. d \notin Own(h) /\ d \in DOMAIN h.deferred
    BY <1>1, <1>3, CoreIs DEF Own
  <2> QED
    BY <1>3, <2>1, CoreIs DEF KnownInv
<1> QED
  BY <1>1, <1>2, <1>3

LEMMA ResolveSteps ==
  ASSUME NEW h, MemoryInv(h), NEW d \in h.outside, NEW x \in Resolutions(d)
  PROVE  Steps(h, Ended(Resolve(h, d, x)))
<1>1. CoreInv(h)
  BY DEF MemoryInv
<1>2. d \in DOMAIN h.deferred /\ Self(h, d) = None /\ Gathered(h, d) = None /\ d \in Nat
  BY <1>1, OutsideFree
<1>3. Knows(h, x) /\ (x[1] = "deferred" => Before(d, x[2])) /\ x[1] # "thenable"
  <2>1. CASE x = <<"value", d>>
    BY <2>1, PlainData DEF KnowsValue
  <2>2. CASE \E e \in 1..Sources : d < e /\ x = Deferred(e)
    <3>1. PICK e \in 1..Sources : d < e /\ x = Deferred(e)
      BY <2>2
    <3>2. e \in 1..Len(h.deferred) /\ Before(d, e)
      BY <1>1, <3>1, CoreIs DEF Before
    <3> QED
      BY <3>1, <3>2, DeferredIs, KnownDeferred DEF Knows
  <2> QED
    BY <2>1, <2>2 DEF Resolutions
<1>4. Goes(h, Resolve(h, d, x))
  BY <1>1, <1>2, <1>3, FreeResolves
<1> QED
  BY <1>4, GoesSteps, EndedIs

LEMMA RejectSteps ==
  ASSUME NEW h, MemoryInv(h), NEW d \in h.outside
  PROVE  Steps(h, Ended(Reject(h, d, <<"reason", d>>)))
<1>1. CoreInv(h)
  BY DEF MemoryInv
<1>2. d \in DOMAIN h.deferred
  BY <1>1, OutsideFree
<1>3. Goes(h, Reject(h, d, <<"reason", d>>))
  BY <1>1, <1>2, PlainData, RejectIs
<1> QED
  BY <1>3, GoesSteps, EndedIs

LEMMA NotifySteps ==
  ASSUME NEW h, MemoryInv(h), NEW d \in 1..Sources, NEW notified
  PROVE  Steps(h, Ended(Notify([h EXCEPT !.notified = notified], d, <<"progress", d>>)))
<1> DEFINE g == [h EXCEPT !["notified"] = notified]
           x == <<"progress", d>>
<1>1. CoreInv(h)
  BY DEF MemoryInv
<1>2. Goes(h, g) /\ CoreInv(g)
  BY <1>1, AsideIs DEF Goes
<1>3. g = [h EXCEPT !.notified = notified]
  OBVIOUS
<1> HIDE DEF g
<1>4. d \in DOMAIN g.deferred /\ Knows(g, x)
  BY <1>2, CoreIs, PlainData DEF KnowsValue
<1>5. Goes(g, Notify(g, d, x))
  BY <1>2, <1>4, NotifyIs
<1>6. Goes(h, Notify(g, d, x))
  BY <1>1, <1>2, <1>5, GoesTrans
<1>7. Steps(h, Ended(Notify(g, d, x)))
  BY <1>6, GoesSteps, EndedIs
<1> QED
  BY <1>3, <1>7

\* The script that is running is one of those that may.
ScriptInv == script \in Scripts

LEMMA ScriptIs ==
  ASSUME ScriptInv, CoreInv(m), Len(m.held) < Len(script)
  PROVE  LET c == script[Len(m.held) + 1]
         IN MayBeCalled(c) /\ (c.of[1] = "held" => c.of[2] \in DOMAIN m.held)
<1> DEFINE i == Len(m.held) + 1
           c == script[i]
<1>1. script \in Seq(ScriptCall)
  BY ScriptsAssumption DEF ScriptInv
<1>2. Len(m.held) \in Nat /\ DOMAIN m.held = 1..Len(m.held)
  BY CoreIs, SeqIs DEF ShapeInv
<1>3. Len(script) \in Nat /\ DOMAIN script = 1..Len(script)
  <2> HIDE DEF ScriptCall
  <2> QED
    BY <1>1, LenProperties
<1>4. i \in DOMAIN script
  BY <1>2, <1>3
<1>5. c \in ScriptCall
  <2> HIDE DEF ScriptCall
  <2> QED
    BY <1>1, <1>3, <1>4, ElementOfSeq
<1>6. /\ TakesItsArguments(c)
      /\ c.call \in {"spread", "promised", "tap", "finally", "nfapply"} => c.fulfilled # None
      /\ c.call \notin {"promise", "nfapply", "async", "spawn"} => c.of # None
      /\ c.of[1] = "held" => c.of[2] < i
  BY <1>4, ScriptsAssumption DEF ScriptInv
<1>7. c.of[1] = "held" => c.of[2] \in Nat \ {0}
  <2>1. MayBeCalled(c)
    BY <1>5, <1>6 DEF MayBeCalled
  <2>2. c.of = None \/ c.of \in Input \/ c.of \in {"held"} \X (Nat \ {0})
    BY <2>1, ArgumentsAre
  <2>3. None[1] # "held"
    BY DEF None
  <2>4. \A x \in Input : x[1] # "held"
    BY DEF Input, Item, Undefined
  <2> QED
    BY <2>2, <2>3, <2>4
<1>8. c.of[1] = "held" => c.of[2] \in DOMAIN m.held
  <2> SUFFICES ASSUME c.of[1] = "held" PROVE c.of[2] \in DOMAIN m.held
    OBVIOUS
  <2> DEFINE n == c.of[2]
  <2>1. n \in Nat \ {0} /\ n < Len(m.held) + 1
    BY <1>6, <1>7
  <2> HIDE DEF n
  <2>2. n \in 1..Len(m.held)
    BY <1>2, <2>1
  <2> QED
    BY <1>2, <2>2 DEF n
<1> QED
  BY <1>5, <1>6, <1>8 DEF MayBeCalled

LEMMA NextSteps ==
  ASSUME MemoryInv(m), ScriptInv, Next
  PROVE  Steps(m, m') /\ ScriptInv'
<1>1. CoreInv(m)
  BY DEF MemoryInv
<1>2. CASE ScriptCalls
  <2> DEFINE c == script[Len(m.held) + 1]
             h == Makes(c)
  <2>1. m' = Ended([h EXCEPT !.held = Append(@, h.it)]) /\ Len(m.held) < Len(script) /\ script' = script
    BY <1>2 DEF ScriptCalls, Holds
  <2>2. MayBeCalled(c) /\ (c.of[1] = "held" => c.of[2] \in DOMAIN m.held)
    BY <1>1, <2>1, ScriptIs
  <2> HIDE DEF c
  <2>3. Steps(m, Ended([h EXCEPT !.held = Append(@, h.it)]))
    BY <2>2, CallSteps
  <2> QED
    BY <2>1, <2>3 DEF ScriptInv
<1>3. CASE \E d \in Unresolved : ScriptResolves(d)
  BY <1>3, ResolveSteps DEF Unresolved, ScriptResolves, ScriptInv
<1>4. CASE \E d \in Unresolved : ScriptRejects(d)
  BY <1>4, RejectSteps DEF Unresolved, ScriptRejects, ScriptInv
<1>5. CASE \E d \in Notifying : ScriptNotifies(d)
  <2>1. PICK d \in Notifying : ScriptNotifies(d)
    BY <1>5
  <2>2. d \in 1..Sources
    BY NotifyingAssumption
  <2> QED
    BY <2>1, <2>2, NotifySteps DEF ScriptNotifies, ScriptInv
<1>6. CASE FlushStarts
  <2>1. m' = [m EXCEPT !.flush = "running"] /\ script' = script
    BY <1>6 DEF FlushStarts, Beat
  <2>2. Goes(m, m')
    BY <1>1, <2>1, FlushIs
  <2> QED
    BY <2>1, <2>2, GoesSteps DEF ScriptInv
<1>7. CASE RunTask
  <2>1. /\ m.flush # "idle" /\ m.queue # <<>> /\ script' = script
        /\ m' = Ended(Run([m EXCEPT !.queue = Tail(@)], Head(m.queue)))
    BY <1>7 DEF RunTask, Beat
  <2> QED
    BY <2>1, RunSteps DEF ScriptInv
<1>8. CASE FlushEnds
  <2>1. m' = [m EXCEPT !.flush = "idle"] /\ m.queue = <<>> /\ script' = script
    BY <1>8 DEF FlushEnds, Beat
  <2>2. Goes(m, m')
    BY <1>1, <2>1, FlushIs
  <2> QED
    BY <2>1, <2>2, GoesSteps DEF ScriptInv
<1>9. CASE Fires
  <2>1. PICK timer \in m.timers : TimerFires(timer)
    BY <1>9 DEF Fires
  <2> DEFINE f == m.fired \cup {timer[2]}
             h == [m EXCEPT !.timers = @ \ {timer}, !.fired = f]
  <2>2. /\ m' = Ended(IF timer[1] = "timeout" THEN Reject(h, timer[2], TimedOut)
                      ELSE Resolve(h, timer[2], timer[3]))
        /\ script' = script
    BY <2>1 DEF TimerFires
  <2> HIDE DEF f
  <2>3. Steps(m, Ended(IF timer[1] = "timeout" THEN Reject(h, timer[2], TimedOut)
                       ELSE Resolve(h, timer[2], timer[3])))
    BY FiresIs
  <2> QED
    BY <2>2, <2>3 DEF ScriptInv
<1> QED
  BY <1>2, <1>3, <1>4, <1>5, <1>6, <1>7, <1>8, <1>9 DEF Next, Turn, Flush

LEMMA InitMemory ==
  ASSUME Init
  PROVE  MemoryInv(m) /\ ScriptInv /\ m.late = {}
<1>1. /\ m.deferred = [d \in 1..Sources |-> NewDeferred] /\ m.queue = <<>> /\ m.held = <<>>
      /\ DOMAIN m = MemoryFields /\ m.flush = "idle" /\ m.timers = {} /\ m.rejections = 0
      /\ m.unhandled = {} /\ m.outside = 1..Sources /\ m.late = {} /\ script \in Scripts
  BY DEF Init, MemoryFields
<1>2. IsSeq(<<>>) /\ DOMAIN <<>> = {}
  <2>1. <<>> \in Seq({})
    OBVIOUS
  <2> QED
    BY <2>1 DEF IsSeq
<1>3. /\ IsSeq(m.deferred) /\ Len(m.deferred) = Sources /\ DOMAIN m.deferred = 1..Sources
      /\ \A d \in 1..Sources : m.deferred[d] = NewDeferred
  <2> DEFINE s == [d \in 1..Sources |-> NewDeferred]
  <2>1. Sources \in Nat /\ DOMAIN s = 1..Sources /\ s = [i \in DOMAIN s |-> s[i]]
        /\ \A d \in 1..Sources : s[d] = NewDeferred
    BY SourcesAssumption
  <2> HIDE DEF s
  <2>2. IsSeq(s) /\ Len(s) = Sources
    BY <2>1, IsSeqIs
  <2> QED
    BY <1>1, <2>1, <2>2 DEF s
<1> DEFINE h == m
<1>4. \A d \in 1..Sources :
        /\ DOMAIN m.deferred[d] = DeferredFields /\ ~IsResolved(m, d) /\ Target(m, d) = None
        /\ Messages(m, d) = <<>> /\ Listeners(m, d) = <<>> /\ Self(m, d) = None
        /\ OnFulfilled(m, d) = None /\ OnRejected(m, d) = None /\ OnProgress(m, d) = None
        /\ IsDone(m, d) = FALSE /\ AnswerOf(m, d) = Pending /\ Gathered(m, d) = None
        /\ Waiting(m, d) = <<>>
  BY <1>3, NewDeferredIs DEF IsResolved, Target, Messages, Listeners, Self, OnFulfilled, OnRejected,
     OnProgress, IsDone, AnswerOf, Gathered, Waiting
<1>5. ShapeInv(m)
  <2>1. \A d \in DOMAIN m.deferred :
          /\ DOMAIN m.deferred[d] = DeferredFields
          /\ IsSeq(Messages(m, d)) /\ IsSeq(Listeners(m, d)) /\ IsSeq(Waiting(m, d))
          /\ IsDone(m, d) \in BOOLEAN
    BY <1>2, <1>3, <1>4
  <2>2. DOMAIN m = MemoryFields /\ IsSeq(m.queue) /\ IsSeq(m.held) /\ m.rejections \in Nat
    BY <1>1, <1>2
  <2> QED
    BY <2>1, <2>2 DEF ShapeInv
<1>6. TargetsInv(m)
  <2>1. None[1] = "none" /\ Sources >= Sources
    BY SourcesAssumption DEF None
  <2> QED
    BY <1>3, <1>4, <2>1 DEF TargetsInv
<1>7. KnownInv(m)
  BY <1>1, <1>2, <1>3, <1>4 DEF KnownInv
<1>8. FlatInv(m)
  <2>1. None # <<"spread", <<"same">>>>
    BY DEF None
  <2> QED
    BY <1>3, <1>4, <2>1 DEF FlatInv
<1>9. QueueInv(m) /\ KeptInv(m) /\ OrderInv(m) /\ WaitingInv(m) /\ ListenInv(m)
  <2>1. QueueInv(m) /\ KeptInv(m)
    BY <1>1, <1>2, <1>3, <1>4 DEF QueueInv, KeptInv
  <2>2. OrderInv(m)
    BY <1>1, <1>2, <1>3, <1>4 DEF OrderInv
  <2>3. WaitingInv(m)
    BY <1>2, <1>3, <1>4, NoPromiseIsNone DEF WaitingInv
  <2>4. ListenInv(m)
    BY <1>1, <1>2, <1>3, <1>4 DEF ListenInv
  <2> QED
    BY <2>1, <2>2, <2>3, <2>4
<1>10. DoneInv(m)
  BY <1>1, <1>3, <1>4 DEF DoneInv
<1>11. \A d : ~IsLost(m, d)
  BY <1>3, <1>4 DEF IsLost
<1> QED
  BY <1>1, <1>5, <1>6, <1>7, <1>8, <1>9, <1>10, <1>11 DEF MemoryInv, CoreInv, ScriptInv

\* What the memory of the library is like in every state.
QInv == MemoryInv(m) /\ ScriptInv /\ m.late = {}

LEMMA QInvNext ==
  ASSUME QInv, [Next]_vars
  PROVE  QInv'
<1>1. CASE Next
  <2>1. Steps(m, m') /\ ScriptInv'
    BY <1>1, NextSteps DEF QInv
  <2> QED
    BY <2>1 DEF Steps, QInv
<1>2. CASE UNCHANGED vars
  <2>1. m' = m /\ script' = script
    BY <1>2 DEF vars
  <2>2. ScriptInv' /\ MemoryInv(m') /\ m'.late = {}
    BY <2>1 DEF QInv, ScriptInv
  <2> QED
    BY <2>2 DEF QInv
<1> QED
  BY <1>1, <1>2

\* In every state the memory of q.js refers to what there is; no chain of promises closes
\* a ring; no message is lost; the messages to a promise keep the order in which then was
\* called, whatever the promise is resolved with meanwhile; and each call of then is in
\* the list of its promise until it is answered.
THEOREM QInvariant == Spec => []QInv
<1>1. Init => QInv
  BY InitMemory DEF QInv
<1>2. QInv /\ [Next]_vars => QInv'
  BY QInvNext
<1> QED
  BY <1>1, <1>2, PTL DEF Spec

\* An answered call of then has seen the rejection that its promise has become.
LEMMA SeesNearest ==
  ASSUME NEW h, CoreInv(h), NEW d \in DOMAIN h.deferred, Self(h, d) # None, NEW k
  PROVE  SeesRejection(h, d, k) <=>
           Nearest(h, Self(h, d))[1] = "rejected" /\ Nearest(h, Self(h, d))[2] = k
<1> DEFINE x == Self(h, d)
           y == Nearest(h, x)
<1>1. Knows(h, x)
  BY CoreIs DEF KnownInv, KnowsPromise
<1>2. IsEnd(h, y) /\ Along(h, x, y)
  BY <1>1, NearestKnown
<1> HIDE DEF y
<1>3. ASSUME NEW z, z[1] = "rejected", Along(h, x, z) PROVE z = y
  BY <1>2, <1>3, AlongEnds, DeferredIs DEF IsEnd
<1>4. SeesRejection(h, d, k) <=> y[1] = "rejected" /\ y[2] = k
  BY <1>2, <1>3 DEF SeesRejection
<1> QED
  BY <1>4 DEF y

LEMMA QInvUnhandled ==
  ASSUME QInv
  PROVE  UnhandledIsUnobserved
<1>1. CoreInv(m)
  BY DEF QInv, MemoryInv
<1>2. /\ \A d \in DOMAIN m.deferred : IsDone(m, d) => Self(m, d) # None
      /\ \A k \in 1..m.rejections :
           k \in m.unhandled <=> ~ \E d \in DOMAIN m.deferred : IsDone(m, d) /\ SeesRejection(m, d, k)
  BY <1>1, CoreIs DEF DoneInv
<1>3. ASSUME NEW d \in DOMAIN m.deferred, IsDone(m, d), NEW k
      PROVE  SeesRejection(m, d, k) <=>
               LET y == Nearest(m, m.deferred[d].self) IN y[1] = "rejected" /\ y[2] = k
  BY <1>1, <1>2, <1>3, SeesNearest DEF Self
<1>4. \A d \in DOMAIN m.deferred : IsDone(m, d) = m.deferred[d].done
  BY DEF IsDone
<1> QED
  BY <1>2, <1>3, <1>4 DEF UnhandledIsUnobserved

\* The list of unhandled rejections (unhandledReasons, which a page reads with
\* getUnhandledReasons) holds just those rejections that no handler has got: whatever
\* is resolved with a rejection later, and whichever of its promises then is called on.
THEOREM QUnhandledIsUnobserved == Spec => []UnhandledIsUnobserved
<1>1. QInv => UnhandledIsUnobserved
  BY QInvUnhandled
<1> QED
  BY <1>1, QInvariant, PTL

\* A listener hears of no progress once its handler was called: what the listeners of a
\* promise are told is in the queue before the message that calls the handlers.
THEOREM QNoProgressAfterAnswer == Spec => []NoProgressAfterAnswer
<1>1. QInv => NoProgressAfterAnswer
  BY DEF QInv, NoProgressAfterAnswer
<1> QED
  BY <1>1, QInvariant, PTL

-----------------------------------------------------------------------------
(* The promise of q.js is what a promise promises *)

\* What the abstract specification sees of the memory.
OutcomesOf(h) ==
  [d \in 1..MaxDeferreds |-> IF d \in DOMAIN h.deferred THEN Inspect(h, Deferred(d)) ELSE Pending]
WaitingOf(h) ==
  [d \in 1..MaxDeferreds |-> IF d \in DOMAIN h.deferred THEN Waiting(h, d) ELSE <<>>]
AnswersOf(h) ==
  [d \in 1..MaxDeferreds |-> IF d \in DOMAIN h.deferred THEN AnswerOf(h, d) ELSE Pending]

StartsWith(t, s) == Len(s) <= Len(t) /\ SubSeq(t, 1, Len(s)) = s

LEMMA StartsIs ==
  ASSUME NEW s, IsSeq(s), NEW t, IsSeq(t), Len(s) <= Len(t), \A i \in DOMAIN s : t[i] = s[i]
  PROVE  StartsWith(t, s)
<1>1. PICK V, W : s \in Seq(V) /\ t \in Seq(W)
  BY DEF IsSeq
<1> DEFINE S == V \cup W
           u == SubSeq(t, 1, Len(s))
<1>2. s \in Seq(S) /\ t \in Seq(S)
  BY <1>1
<1> HIDE DEF S
<1>3. /\ Len(s) \in Nat /\ DOMAIN s = 1..Len(s) /\ Len(t) \in Nat /\ DOMAIN t = 1..Len(t)
  BY <1>2
<1>4. u \in Seq(S) /\ Len(u) = Len(s) /\ \A i \in 1..Len(s) : u[i] = t[i]
  BY <1>2, <1>3
<1> HIDE DEF u
<1>5. u = s
  BY <1>2, <1>3, <1>4
<1> QED
  BY <1>5 DEF StartsWith, u

LEMMA EmptyStarts ==
  ASSUME NEW t, IsSeq(t)
  PROVE  StartsWith(t, <<>>)
<1>1. IsSeq(<<>>) /\ DOMAIN <<>> = {} /\ Len(<<>>) = 0
  <2>1. <<>> \in Seq({})
    OBVIOUS
  <2> QED
    BY <2>1 DEF IsSeq
<1>2. Len(t) \in Nat
  BY SeqIs
<1> QED
  BY <1>1, <1>2, StartsIs

\* A chain that has an end keeps it.
LEMMA InspectStays ==
  ASSUME NEW h, CoreInv(h), NEW g, CoreInv(g), DOMAIN h.deferred \subseteq DOMAIN g.deferred,
         \A d \in DOMAIN h.deferred : IsResolved(h, d) => Target(g, d) = Target(h, d),
         NEW d \in DOMAIN h.deferred, Inspect(h, Deferred(d)) # Pending
  PROVE  Inspect(g, Deferred(d)) = Inspect(h, Deferred(d))
<1> DEFINE x == Deferred(d)
           y == Nearest(h, x)
           z == Nearest(g, x)
<1>1. KnowsPromise(h, x) /\ KnowsPromise(g, x) /\ Knows(h, x) /\ Knows(g, x)
  BY CoreIs, KnownDeferred DEF KnowsPromise, Knows
<1>2. Along(h, x, y) /\ IsEnd(g, z) /\ Along(g, x, z)
  BY <1>1, NearestKnown
<1>3. IsPromise(y) /\ y[1] # "deferred"
  BY <1>1, InspectIs
<1>4. Along(g, x, y) /\ IsEnd(g, y)
  BY <1>2, <1>3, AlongMore, FinalEnds DEF Final
<1>5. z = y
  <2> HIDE DEF y, z
  <2> QED
    BY <1>2, <1>4, AlongEnds
<1> QED
  BY <1>3, <1>5 DEF Inspect, IsPromise

LEMMA SameViews ==
  ASSUME NEW h, NEW g, g.deferred = h.deferred
  PROVE  OutcomesOf(g) = OutcomesOf(h) /\ WaitingOf(g) = WaitingOf(h) /\ AnswersOf(g) = AnswersOf(h)
<1>1. \A x : Nearest(g, x) = Nearest(h, x)
  BY DEF Nearest
<1>2. \A x : Inspect(g, x) = Inspect(h, x)
  BY <1>1 DEF Inspect
<1> QED
  BY <1>2 DEF OutcomesOf, WaitingOf, AnswersOf, Waiting, AnswerOf

LEMMA WaitingSeq ==
  ASSUME NEW h, CoreInv(h), NEW p \in 1..MaxDeferreds
  PROVE  IsSeq(WaitingOf(h)[p])
<1>1. IsSeq(<<>>)
  <2>1. <<>> \in Seq({})
    OBVIOUS
  <2> QED
    BY <2>1 DEF IsSeq
<1> QED
  BY <1>1, CoreIs DEF ShapeInv, WaitingOf

LEMMA WidensSees ==
  ASSUME NEW h, CoreInv(h), NEW g, CoreInv(g), Widens(h, g)
  PROVE  /\ \A p \in 1..MaxDeferreds : StartsWith(WaitingOf(g)[p], WaitingOf(h)[p])
         /\ AnswersOf(g) = AnswersOf(h)
<1>1. DOMAIN h.deferred \subseteq DOMAIN g.deferred
  BY MoreKnows DEF Widens
<1>2. ASSUME NEW p \in 1..MaxDeferreds
      PROVE  StartsWith(WaitingOf(g)[p], WaitingOf(h)[p])
  <2>1. CASE p \in DOMAIN h.deferred
    <3> DEFINE s == Waiting(h, p)
               t == Waiting(g, p)
    <3>1. IsSeq(s) /\ IsSeq(t) /\ Len(s) <= Len(t) /\ \A i \in DOMAIN s : t[i] = s[i]
      BY <1>1, <2>1, CoreIs DEF ShapeInv, Widens
    <3>2. StartsWith(t, s)
      <4> HIDE DEF s, t
      <4> QED
        BY <3>1, StartsIs
    <3> QED
      BY <1>1, <2>1, <3>2 DEF WaitingOf
  <2>2. CASE p \notin DOMAIN h.deferred
    <3>1. WaitingOf(h)[p] = <<>>
      BY <2>2 DEF WaitingOf
    <3> QED
      BY <3>1, WaitingSeq, EmptyStarts
  <2> QED
    BY <2>1, <2>2
<1>3. \A d \in 1..MaxDeferreds : AnswersOf(g)[d] = AnswersOf(h)[d]
  BY <1>1, CoreIs DEF AnswersOf, Widens
<1> QED
  BY <1>2, <1>3 DEF AnswersOf

LEMMA CalledSees ==
  ASSUME NEW h, CoreInv(h), NEW d, NEW y, IsAnswering(h, d, y), NEW o, NEW g,
         HasAnswered(h, g, d, y, o), NEW p \in DOMAIN h.deferred, Self(h, d) = Deferred(p)
  PROVE  /\ p \in 1..MaxDeferreds => WaitingOf(g)[p] = Tail(WaitingOf(h)[p])
         /\ \A q \in 1..MaxDeferreds : q # p => WaitingOf(g)[q] = WaitingOf(h)[q]
         /\ AnswersOf(g) = [AnswersOf(h) EXCEPT ![d] = o]
<1>1. DOMAIN g.deferred = DOMAIN h.deferred /\ d \in DOMAIN h.deferred
  BY AnsweringIs DEF HasAnswered
<1>2. \A e \in DOMAIN h.deferred :
        Waiting(g, e) = IF e = p THEN Tail(Waiting(h, e)) ELSE Waiting(h, e)
  BY DeferredsDiffer DEF HasAnswered
<1>3. \A e \in DOMAIN h.deferred : AnswerOf(g, e) = IF e = d THEN o ELSE AnswerOf(h, e)
  BY <1>1, DeferredIs DEF HasAnswered
<1>4. p \in 1..MaxDeferreds => WaitingOf(g)[p] = Tail(WaitingOf(h)[p])
  BY <1>1, <1>2 DEF WaitingOf
<1>5. \A q \in 1..MaxDeferreds : q # p => WaitingOf(g)[q] = WaitingOf(h)[q]
  BY <1>1, <1>2 DEF WaitingOf
<1>6. \A e \in 1..MaxDeferreds :
        AnswersOf(g)[e] = IF e = d THEN o ELSE AnswersOf(h)[e]
  BY <1>1, <1>3 DEF AnswersOf
<1>7. AnswersOf(g) = [AnswersOf(h) EXCEPT ![d] = o]
  BY <1>6 DEF AnswersOf
<1> QED
  BY <1>4, <1>5, <1>7

LEMMA CalledAlone ==
  ASSUME NEW h, CoreInv(h), NEW d, NEW y, IsAnswering(h, d, y), NEW o, NEW g,
         HasAnswered(h, g, d, y, o), Self(h, d)[1] # "deferred"
  PROVE  WaitingOf(g) = WaitingOf(h) /\ AnswersOf(g) = AnswersOf(h)
<1>1. DOMAIN g.deferred = DOMAIN h.deferred /\ d \in DOMAIN h.deferred
  BY AnsweringIs DEF HasAnswered
<1>2. \A e \in DOMAIN h.deferred : Waiting(g, e) = Waiting(h, e) /\ AnswerOf(g, e) = AnswerOf(h, e)
  BY <1>1, DeferredIs DEF HasAnswered
<1> QED
  BY <1>1, <1>2 DEF WaitingOf, AnswersOf

\* The handlers are called with what the promise has become.
LEMMA CalledWith ==
  ASSUME NEW h, CoreInv(h), NEW d, NEW y, IsAnswering(h, d, y), NEW side, NEW x, IsSide(side, x, y),
         NEW p \in DOMAIN h.deferred, Self(h, d) = Deferred(p)
  PROVE  Inspect(h, Deferred(p)) = <<side, x>> /\ <<side, x>> # Pending
<1> DEFINE z == Nearest(h, Deferred(p))
<1>1. KnowsPromise(h, Deferred(p)) /\ Knows(h, Deferred(p))
  BY CoreIs, KnownDeferred DEF KnowsPromise, Knows
<1>2. Final(y) /\ Along(h, Deferred(p), y) /\ KnowsPromise(h, y) /\ IsEnd(h, y)
  BY AnsweringIs, FinalEnds
<1>3. IsEnd(h, z) /\ Along(h, Deferred(p), z)
  BY <1>1, NearestKnown
<1>4. z = y
  <2> HIDE DEF z
  <2> QED
    BY <1>2, <1>3, AlongEnds
<1>5. <<side, x>> # Pending
  <2>1. Pending[1] = "pending" /\ <<side, x>>[1] = side
    BY DEF Pending
  <2> QED
    BY <2>1 DEF IsSide
<1>6. CASE side = "fulfilled" /\ y[1] = "fulfilled" /\ x = y[2]
  <2>1. Inspect(h, Deferred(p)) = y /\ y = Fulfilled(y[2])
    BY <1>1, <1>4, <1>6, InspectIs
  <2> QED
    BY <1>5, <1>6, <2>1 DEF Fulfilled
<1>7. CASE side = "rejected" /\ y[1] = "rejected" /\ x = y[3]
  <2>1. Inspect(h, Deferred(p)) = <<"rejected", y[3]>>
    BY <1>1, <1>4, <1>7, InspectIs
  <2> QED
    BY <1>5, <1>7, <2>1
<1> QED
  BY <1>6, <1>7 DEF IsSide

\* Deferreds stay, and what they have become.
LEMMA StepsMore ==
  ASSUME NEW h, NEW k, Steps(h, k)
  PROVE  /\ DOMAIN h.deferred \subseteq DOMAIN k.deferred
         /\ \A d \in DOMAIN h.deferred : IsResolved(h, d) => Target(k, d) = Target(h, d)
<1>1. PICK f, g : /\ f.deferred = h.deferred /\ g.deferred = k.deferred
                  /\ Widens(f, g) \/ HasCalled(f, g)
  BY DEF Steps
<1>2. ASSUME NEW b, Widens(b, g)
      PROVE  /\ DOMAIN b.deferred \subseteq DOMAIN g.deferred
             /\ \A d \in DOMAIN b.deferred : IsResolved(b, d) => Target(g, d) = Target(b, d)
  BY <1>2, MoreKnows DEF Widens, More
<1>3. /\ DOMAIN f.deferred \subseteq DOMAIN g.deferred
      /\ \A d \in DOMAIN f.deferred : IsResolved(f, d) => Target(g, d) = Target(f, d)
  <2>1. CASE Widens(f, g)
    BY <1>2, <2>1
  <2>2. CASE HasCalled(f, g)
    <3>1. PICK d, y, side, x, b : HasAnswered(f, b, d, y, <<side, x>>) /\ Goes(b, g)
      BY <2>2 DEF HasCalled
    <3>2. /\ DOMAIN b.deferred = DOMAIN f.deferred
          /\ \A e \in DOMAIN f.deferred : Target(b, e) = Target(f, e)
      BY <3>1 DEF HasAnswered
    <3>3. \A e \in DOMAIN f.deferred : IsResolved(f, e) => IsResolved(b, e)
      BY <3>2 DEF IsResolved, Target
    <3>4. Widens(b, g)
      BY <3>1 DEF Goes, Grows
    <3> QED
      BY <1>2, <3>2, <3>3, <3>4
  <2> QED
    BY <1>1, <2>1, <2>2
<1> QED
  BY <1>1, <1>3 DEF IsResolved, Target

\* No outcome changes.
LEMMA StepsSettle ==
  ASSUME NEW h, MemoryInv(h), NEW k, Steps(h, k)
  PROVE  \A p \in 1..MaxDeferreds : OutcomesOf(h)[p] # Pending => OutcomesOf(k)[p] = OutcomesOf(h)[p]
<1>1. CoreInv(h) /\ CoreInv(k)
  BY DEF MemoryInv, Steps
<1> QED
  BY <1>1, StepsMore, InspectStays DEF OutcomesOf

\* What the abstract specification asks of a step, of what waits and was answered.
Observes(h, k) ==
  /\ \A p \in 1..MaxDeferreds : StartsWith(WaitingOf(k)[p], WaitingOf(h)[p])
  /\ AnswersOf(k) = AnswersOf(h)

AnswersHead(h, k, p) ==
  /\ WaitingOf(h)[p] # <<>> /\ OutcomesOf(h)[p] # Pending
  /\ AnswersOf(k) = [AnswersOf(h) EXCEPT ![Head(WaitingOf(h)[p])] = OutcomesOf(h)[p]]
  /\ StartsWith(WaitingOf(k)[p], Tail(WaitingOf(h)[p]))
  /\ \A q \in 1..MaxDeferreds \ {p} : StartsWith(WaitingOf(k)[q], WaitingOf(h)[q])

LEMMA StepsAnswer ==
  ASSUME NEW h, MemoryInv(h), NEW k, Steps(h, k), Len(h.deferred) <= MaxDeferreds
  PROVE  Observes(h, k) \/ \E p \in 1..MaxDeferreds : AnswersHead(h, k, p)
<1>1. PICK f, g : /\ CoreInv(f) /\ CoreInv(g) /\ f.deferred = h.deferred /\ g.deferred = k.deferred
                  /\ Widens(f, g) \/ HasCalled(f, g)
  BY DEF Steps
<1>2. /\ OutcomesOf(f) = OutcomesOf(h) /\ WaitingOf(f) = WaitingOf(h) /\ AnswersOf(f) = AnswersOf(h)
      /\ WaitingOf(g) = WaitingOf(k) /\ AnswersOf(g) = AnswersOf(k)
  BY <1>1, SameViews
<1>3. CASE Widens(f, g)
  BY <1>1, <1>2, <1>3, WidensSees DEF Observes
<1>4. CASE HasCalled(f, g)
  <2>1. PICK d, y, side, x, b :
          /\ IsAnswering(f, d, y) /\ IsSide(side, x, y)
          /\ HasAnswered(f, b, d, y, <<side, x>>) /\ Goes(b, g)
    BY <1>4 DEF HasCalled
  <2>2. CoreInv(b) /\ Widens(b, g)
    BY <1>1, <2>1, AnswersIs DEF Goes, Grows
  <2>3. /\ \A p \in 1..MaxDeferreds : StartsWith(WaitingOf(g)[p], WaitingOf(b)[p])
        /\ AnswersOf(g) = AnswersOf(b)
    BY <1>1, <2>2, WidensSees
  <2>4. CASE Self(f, d)[1] # "deferred"
    <3>1. WaitingOf(b) = WaitingOf(f) /\ AnswersOf(b) = AnswersOf(f)
      BY <1>1, <2>1, <2>4, CalledAlone
    <3> QED
      BY <1>2, <2>3, <3>1 DEF Observes
  <2>5. CASE Self(f, d)[1] = "deferred"
    <3> DEFINE p == Self(f, d)[2]
    <3>1. Self(f, d) = Deferred(p) /\ p \in DOMAIN f.deferred /\ p \in 1..MaxDeferreds
      <4>1. KnowsPromise(f, Self(f, d))
        BY <1>1, <2>1, AnsweringIs, CoreIs DEF KnownInv
      <4>2. Self(f, d) = Deferred(p) /\ p \in 1..Len(f.deferred)
        BY <2>5, <4>1, KnownIs DEF KnowsPromise, Knows
      <4>3. Len(f.deferred) \in Nat /\ Len(f.deferred) <= MaxDeferreds
        BY <1>1, CoreIs
      <4> HIDE DEF p
      <4> QED
        BY <1>1, <4>2, <4>3, CoreIs, MaxDeferredsAssumption
    <3> HIDE DEF p
    <3>2. Waiting(f, p) # <<>> /\ Waiting(f, p)[1] = d
      BY <1>1, <2>1, <3>1, HeadIs
    <3>3. WaitingOf(f)[p] = Waiting(f, p) /\ OutcomesOf(f)[p] = Inspect(f, Deferred(p))
      BY <3>1 DEF WaitingOf, OutcomesOf
    <3>4. Head(WaitingOf(f)[p]) = d
      <4>1. IsSeq(Waiting(f, p))
        BY <1>1, <3>1, CoreIs DEF ShapeInv
      <4> QED
        BY <3>2, <3>3, <4>1, TailIs
    <3>5. OutcomesOf(f)[p] = <<side, x>> /\ <<side, x>> # Pending
      BY <1>1, <2>1, <3>1, <3>3, CalledWith
    <3>6. /\ WaitingOf(b)[p] = Tail(WaitingOf(f)[p])
          /\ \A q \in 1..MaxDeferreds : q # p => WaitingOf(b)[q] = WaitingOf(f)[q]
          /\ AnswersOf(b) = [AnswersOf(f) EXCEPT ![d] = <<side, x>>]
      BY <1>1, <2>1, <3>1, CalledSees
    <3>7. AnswersHead(f, g, p)
      BY <2>3, <3>1, <3>2, <3>3, <3>4, <3>5, <3>6 DEF AnswersHead
    <3>8. AnswersHead(h, k, p)
      BY <1>2, <3>7 DEF AnswersHead
    <3> QED
      BY <3>1, <3>8
  <2> QED
    BY <2>4, <2>5
<1> QED
  BY <1>1, <1>3, <1>4

LEMMA WaitsOnceIs ==
  ASSUME NEW h, CoreInv(h), Len(h.deferred) <= MaxDeferreds
  PROVE  /\ WaitingOf(h) \in [1..MaxDeferreds -> Seq(1..MaxDeferreds)]
         /\ \A p \in 1..MaxDeferreds : \A i \in 1..Len(WaitingOf(h)[p]) :
              /\ AnswersOf(h)[WaitingOf(h)[p][i]] = Pending
              /\ \A q \in 1..MaxDeferreds : \A j \in 1..Len(WaitingOf(h)[q]) :
                   WaitingOf(h)[p][i] = WaitingOf(h)[q][j] => p = q /\ i = j
<1>1. DOMAIN h.deferred \subseteq 1..MaxDeferreds
  <2> DEFINE n == Len(h.deferred)
  <2>1. n \in Nat /\ DOMAIN h.deferred = 1..n /\ n <= MaxDeferreds
    BY CoreIs
  <2> HIDE DEF n
  <2> QED
    BY <2>1, MaxDeferredsAssumption
<1>2. ASSUME NEW p \in DOMAIN h.deferred
      PROVE  /\ WaitingOf(h)[p] = Waiting(h, p) /\ Len(Waiting(h, p)) \in Nat
             /\ DOMAIN Waiting(h, p) = 1..Len(Waiting(h, p))
             /\ Waiting(h, p) = [i \in DOMAIN Waiting(h, p) |-> Waiting(h, p)[i]]
  <2>1. IsSeq(Waiting(h, p))
    BY CoreIs DEF ShapeInv
  <2>2. PICK V : Waiting(h, p) \in Seq(V)
    BY <2>1 DEF IsSeq
  <2> QED
    BY <1>1, <2>1, <2>2, SeqIs DEF WaitingOf
<1>3. ASSUME NEW p \in 1..MaxDeferreds, p \notin DOMAIN h.deferred
      PROVE  WaitingOf(h)[p] = <<>> /\ Len(WaitingOf(h)[p]) = 0
  BY <1>3 DEF WaitingOf
<1>4. ASSUME NEW p \in DOMAIN h.deferred, NEW i \in DOMAIN Waiting(h, p)
      PROVE  LET d == Waiting(h, p)[i]
             IN /\ d \in DOMAIN h.deferred /\ d \in Int /\ Self(h, d) = Deferred(p) /\ ~IsDone(h, d)
                /\ AnswerOf(h, d) = Pending
                /\ \A j \in DOMAIN Waiting(h, p) : i < j => d < Waiting(h, p)[j]
  <2>1. WaitingInv(h) /\ DOMAIN h.deferred \subseteq Int
    BY CoreIs
  <2> QED
    BY <2>1 DEF WaitingInv
<1>5. WaitingOf(h) \in [1..MaxDeferreds -> Seq(1..MaxDeferreds)]
  <2>1. ASSUME NEW p \in 1..MaxDeferreds PROVE WaitingOf(h)[p] \in Seq(1..MaxDeferreds)
    <3>1. CASE p \in DOMAIN h.deferred
      <4> DEFINE s == Waiting(h, p)
      <4>1. /\ WaitingOf(h)[p] = s /\ Len(s) \in Nat /\ DOMAIN s = 1..Len(s)
            /\ s = [i \in DOMAIN s |-> s[i]]
        BY <1>2, <3>1
      <4>2. \A i \in DOMAIN s : s[i] \in 1..MaxDeferreds
        BY <1>1, <1>4, <3>1
      <4> DEFINE V == 1..MaxDeferreds
                 n == Len(s)
      <4> HIDE DEF s
      <4>3. s \in [1..n -> V] /\ n \in Nat
        BY <4>1, <4>2
      <4> HIDE DEF V, n
      <4>4. s \in Seq(V)
        BY <4>3
      <4> QED
        BY <4>1, <4>4 DEF V
    <3>2. CASE p \notin DOMAIN h.deferred
      <4>1. <<>> \in Seq(1..MaxDeferreds)
        OBVIOUS
      <4> QED
        BY <1>3, <3>2, <4>1
    <3> QED
      BY <3>1, <3>2
  <2> QED
    BY <2>1 DEF WaitingOf
<1>6. ASSUME NEW p \in 1..MaxDeferreds, NEW i \in 1..Len(WaitingOf(h)[p])
      PROVE  /\ p \in DOMAIN h.deferred /\ i \in DOMAIN Waiting(h, p) /\ i \in Int
             /\ WaitingOf(h)[p][i] = Waiting(h, p)[i]
  <2>1. p \in DOMAIN h.deferred
    BY <1>3
  <2> QED
    BY <1>2, <2>1
<1>7. ASSUME NEW p \in 1..MaxDeferreds, NEW i \in 1..Len(WaitingOf(h)[p])
      PROVE  AnswersOf(h)[WaitingOf(h)[p][i]] = Pending
  BY <1>1, <1>4, <1>6 DEF AnswersOf
<1>8. ASSUME NEW p \in 1..MaxDeferreds, NEW i \in 1..Len(WaitingOf(h)[p]),
             NEW q \in 1..MaxDeferreds, NEW j \in 1..Len(WaitingOf(h)[q]),
             WaitingOf(h)[p][i] = WaitingOf(h)[q][j]
      PROVE  p = q /\ i = j
  <2>1. /\ p \in DOMAIN h.deferred /\ i \in DOMAIN Waiting(h, p) /\ i \in Int
        /\ q \in DOMAIN h.deferred /\ j \in DOMAIN Waiting(h, q) /\ j \in Int
        /\ Waiting(h, p)[i] = Waiting(h, q)[j]
    BY <1>6, <1>8
  <2>2. Deferred(p) = Deferred(q)
    BY <1>4, <2>1
  <2>3. p = q
    BY <2>2, DeferredsDiffer
  <2>4. ~(i < j) /\ ~(j < i)
    <3>1. Waiting(h, p)[i] \in Int
      BY <1>4, <2>1
    <3>2. /\ i < j => Waiting(h, p)[i] < Waiting(h, p)[j]
          /\ j < i => Waiting(h, p)[j] < Waiting(h, p)[i]
      BY <1>4, <2>1, <2>3
    <3> QED
      BY <2>1, <2>3, <3>1, <3>2
  <2> QED
    BY <2>1, <2>3, <2>4
<1> QED
  BY <1>5, <1>7, <1>8

LEMMA AbstractStep ==
  QInv /\ Within' /\ [Next]_vars => [Abstract!Next]_(Abstract!vars)
<1> SUFFICES ASSUME QInv, Within', [Next]_vars PROVE [Abstract!Next]_(Abstract!vars)
  OBVIOUS
<1>1. CASE UNCHANGED vars
  <2>1. m' = m
    BY <1>1 DEF vars
  <2> QED
    BY <2>1 DEF Abstract!vars
<1>2. CASE Next
  <2>1. Steps(m, m') /\ MemoryInv(m) /\ CoreInv(m) /\ CoreInv(m')
    BY <1>2, NextSteps DEF QInv, Steps, MemoryInv
  <2>2. Len(m'.deferred) <= MaxDeferreds
    BY DEF Within
  <2>3. Len(m.deferred) <= MaxDeferreds
    <3>1. DOMAIN m.deferred \subseteq DOMAIN m'.deferred
      BY <2>1, StepsMore
    <3> DEFINE n == Len(m.deferred)
               k == Len(m'.deferred)
    <3>2. n \in Nat /\ k \in Nat /\ DOMAIN m.deferred = 1..n /\ DOMAIN m'.deferred = 1..k
      BY <2>1, CoreIs
    <3>3. 1..n \subseteq 1..k /\ k <= MaxDeferreds
      BY <2>2, <3>1, <3>2
    <3> HIDE DEF n, k
    <3>4. n <= k
      BY <3>2, <3>3
    <3>5. n <= MaxDeferreds
      BY <3>2, <3>3, <3>4, MaxDeferredsAssumption
    <3> QED
      BY <3>5 DEF n
  <2>4. /\ WaitingOf(m') \in [1..MaxDeferreds -> Seq(1..MaxDeferreds)]
        /\ \A p \in 1..MaxDeferreds : \A i \in 1..Len(WaitingOf(m')[p]) :
             /\ AnswersOf(m')[WaitingOf(m')[p][i]] = Pending
             /\ \A q \in 1..MaxDeferreds : \A j \in 1..Len(WaitingOf(m')[q]) :
                  WaitingOf(m')[p][i] = WaitingOf(m')[q][j] => p = q /\ i = j
    BY <2>1, <2>2, WaitsOnceIs
  <2>5. Abstract!TypeOK' /\ Abstract!WaitsOnce'
    BY <2>4 DEF Abstract!TypeOK, Abstract!WaitsOnce, WaitingOf, AnswersOf, OutcomesOf, Waiting, AnswerOf
  <2>6. Abstract!Settles
    <3>1. \A p \in 1..MaxDeferreds : OutcomesOf(m)[p] # Pending => OutcomesOf(m')[p] = OutcomesOf(m)[p]
      BY <2>1, StepsSettle
    <3> QED
      BY <3>1 DEF Abstract!Settles, OutcomesOf
  <2>7. Abstract!Observe \/ \E p \in 1..MaxDeferreds : Abstract!Answer(p)
    <3>1. CASE Observes(m, m')
      BY <3>1 DEF Observes, StartsWith, Abstract!Observe, Abstract!Observes, WaitingOf, AnswersOf,
         Waiting, AnswerOf
    <3>2. CASE \E p \in 1..MaxDeferreds : AnswersHead(m, m', p)
      <4>1. PICK p \in 1..MaxDeferreds : AnswersHead(m, m', p)
        BY <3>2
      <4>2. Abstract!Answer(p)
        BY <4>1 DEF AnswersHead, StartsWith, Abstract!Answer, Abstract!Observes, WaitingOf, AnswersOf,
           OutcomesOf, Waiting, AnswerOf
      <4> QED
        BY <4>2
    <3> QED
      BY <2>1, <2>3, <3>1, <3>2, StepsAnswer
  <2> QED
    BY <2>5, <2>6, <2>7 DEF Abstract!Next
<1> QED
  BY <1>1, <1>2

\* q.js is what a promise promises (PromiseSpec), as long as the scripts make no more
\* promises than the abstract specification has: promises settle once and keep their
\* outcome; every handler is called at most once, in a later turn, with the outcome of its
\* promise, and in the order of the calls of then, whatever the callbacks of the library
\* and of the scripts do in between.
THEOREM QKeepsItsPromises == Spec /\ []Within => KeepsItsPromises
<1>1. Init => Abstract!Init
  <2> SUFFICES ASSUME Init PROVE Abstract!Init
    OBVIOUS
  <2>1. m.deferred = [d \in 1..Sources |-> NewDeferred]
    BY DEF Init
  <2>2. \A d \in 1..Sources : m.deferred[d].waiting = <<>> /\ m.deferred[d].answer = Pending
    BY <2>1, NewDeferredIs
  <2>3. \A d \in DOMAIN m.deferred : Inspect(m, Deferred(d)) = Pending
    <3> SUFFICES ASSUME NEW d \in DOMAIN m.deferred PROVE Inspect(m, Deferred(d)) = Pending
      OBVIOUS
    <3>1. CoreInv(m)
      BY InitMemory DEF MemoryInv
    <3>2. KnowsPromise(m, Deferred(d)) /\ Knows(m, Deferred(d))
      BY <3>1, CoreIs, KnownDeferred DEF KnowsPromise, Knows
    <3>3. IsEnd(m, Deferred(d))
      BY <2>1, NewDeferredIs DEF IsEnd, IsResolved
    <3>4. Nearest(m, Deferred(d)) = Deferred(d)
      BY <3>1, <3>2, <3>3, NearestKnown, AlongEnd
    <3> QED
      BY <3>1, <3>2, <3>4, InspectIs, DeferredIs
  <2> QED
    BY <2>1, <2>2, <2>3 DEF Abstract!Init
<1>2. QInv /\ Within' /\ [Next]_vars => [Abstract!Next]_(Abstract!vars)
  BY AbstractStep
<1> QED
  BY <1>1, <1>2, QInvariant, PTL DEF Spec, KeepsItsPromises, Abstract!Spec


-----------------------------------------------------------------------------
(* No handler is forgotten *)

\* Between two flushes every call of then on a promise that has settled has had one of
\* its handlers called, or has passed the outcome on.
HandlersWereCalled ==
  m.flush = "idle" =>
    \A d \in DOMAIN m.deferred :
      Self(m, d) # None /\ Inspect(m, Self(m, d)) # Pending => IsDone(m, d)

\* However then, resolve and reject follow one another, and whatever is resolved with
\* whatever, a settled promise keeps no message of then: nobody waits for it in vain.
THEOREM QNoHandlerIsForgotten == Spec => []HandlersWereCalled
<1>1. ASSUME QInv PROVE HandlersWereCalled
  <2> SUFFICES ASSUME m.flush = "idle", NEW d \in DOMAIN m.deferred, Self(m, d) # None,
                      ~IsDone(m, d)
               PROVE  Inspect(m, Self(m, d)) = Pending
    BY DEF HandlersWereCalled
  <2> DEFINE x == Self(m, d)
  <2>1. CoreInv(m) /\ ~IsLost(m, d)
    BY <1>1 DEF QInv, MemoryInv
  <2>2. m.queue = <<>>
    BY <2>1, CoreIs DEF QueueInv
  <2>3. PICK e \in DOMAIN m.deferred : \E i \in DOMAIN Messages(m, e) : Messages(m, e)[i] = ToAnswer(d)
    BY <2>1, <2>2 DEF IsLost, IsPlaced, IsQueued
  <2>4. ~IsResolved(m, e) /\ IsMessageAt(m, Deferred(e), ToAnswer(d))
    BY <2>1, <2>3, CoreIs DEF KeptInv
  <2>5. Along(m, x, Deferred(e))
    BY <2>4, MessagesDiffer DEF IsMessageAt, IsThenAt
  <2>6. Knows(m, x)
    BY <2>1, CoreIs DEF KnownInv, KnowsPromise
  <2>7. IsEnd(m, Deferred(e))
    BY <2>4, DeferredsDiffer DEF IsEnd
  <2> HIDE DEF x
  <2>8. Nearest(m, x) = Deferred(e)
    BY <2>1, <2>5, <2>6, <2>7, NearestKnown, AlongEnds
  <2>9. Inspect(m, x) = Pending
    BY <2>8, DeferredIs DEF Inspect
  <2> QED
    BY <2>9 DEF x
<1> QED
  BY <1>1, QInvariant, PTL

=============================================================================
