---------------------------- MODULE Gateway_proofs ----------------------------
(***************************************************************************)
(* For every set of calls and budgets, and however many deployments a      *)
(* chain has: what a budget shows as spent is what its calls account for;  *)
(* what a caller is told of a failed chain is true; and an alert that is   *)
(* due is sent.  An open transaction holds the rows it updated, so nobody  *)
(* rolls over or updates a row whose sum is in flux, and the one that      *)
(* takes a row over its line sees it; a chain that says that no retry      *)
(* helps has tried every deployment it was allowed to.                     *)
(***************************************************************************)
EXTENDS Gateway, Sums_proofs

-----------------------------------------------------------------------------
(***************************************************************************)
(* Chains.                                                                 *)
(***************************************************************************)

ChainType ==
  [mode : Modes, dep : 1 .. Deployments, tryN : 0 .. MaxRetries, dropped : BOOLEAN,
   retriable : BOOLEAN, blocked : BOOLEAN, last : Outcomes \cup {"none"},
   seen : SUBSET Outcomes, clock : Times, ended : BOOLEAN]

\* A 400 is reported as it is.
Reported(ch) == ch.last \in {"refused", "bad"} /\ ~ch.blocked

More(ch) == ch.mode.fallback /\ ch.dep < Deployments

\* A chain knows that a later call could succeed when an attempt failed for a
\* passing reason, or when it ended before its last deployment.
ChainInv(ch) ==
  /\ ch \in ChainType
  /\ ch.last # "none" => ch.last \in ch.seen
  /\ ch.retriable => "transient" \in ch.seen \/ (ch.ended /\ More(ch))
  /\ "transient" \in ch.seen => ch.retriable \/ (ch.ended /\ Reported(ch))
  /\ ch.ended /\ More(ch) => ch.retriable \/ ch.last = "ok" \/ Reported(ch)

\* How far a chain is: each attempt takes it on.
PerDeployment == MaxRetries + 2
Progress(ch) ==
  (ch.dep - 1) * PerDeployment + ch.tryN + (IF ch.dropped THEN 1 ELSE 0)

LEMMA StartInv ==
  ASSUME NEW mode \in Modes
  PROVE  ChainInv(Start(mode)) /\ Progress(Start(mode)) \in Nat
<1>1. Start(mode) \in ChainType
  BY ChainAssumption DEF Start, ChainType, Outcomes, Times
<1>2. 0 * PerDeployment = 0
  BY ChainAssumption DEF PerDeployment
<1> QED
  BY <1>1, <1>2 DEF ChainInv, Start, Progress, More, Reported

\* A failed attempt is remembered.
Remembers(f) ==
  /\ f \in ChainType /\ ~f.ended
  /\ f.last # "none" /\ f.last \in f.seen
  /\ f.retriable <=> "transient" \in f.seen

LEMMA FailedInv ==
  ASSUME NEW ch, ChainInv(ch), ~ch.ended, NEW o \in Outcomes, o # "ok", NEW t \in Times
  PROVE  /\ Remembers(Failed(ch, o, t)) /\ Failed(ch, o, t).last = o
         /\ Failed(ch, o, t).mode = ch.mode /\ Failed(ch, o, t).dep = ch.dep
         /\ Failed(ch, o, t).tryN = ch.tryN /\ Failed(ch, o, t).dropped = ch.dropped
         /\ Failed(ch, o, t).clock = t
<1> DEFINE seen == ch.seen \cup {o}
           retriable == ch.retriable \/ o = "transient"
           blocked == ch.blocked \/ o = "blocked"
<1>1. ch \in ChainType /\ seen \in SUBSET Outcomes /\ retriable \in BOOLEAN /\ blocked \in BOOLEAN
  BY DEF ChainInv, ChainType
<1>2. retriable <=> "transient" \in seen
  BY DEF ChainInv
<1>3. Failed(ch, o, t) = [ch EXCEPT !.last = o, !.seen = seen, !.clock = t,
                                    !.retriable = retriable, !.blocked = blocked]
  BY DEF Failed
<1>4. o \in seen /\ o # "none"
  BY DEF Outcomes
<1> DEFINE f == [ch EXCEPT !.last = o, !.seen = seen, !.clock = t,
                           !.retriable = retriable, !.blocked = blocked]
<1> HIDE DEF seen, retriable, blocked
<1>5. ch.ended = FALSE
  BY <1>1 DEF ChainType
<1>6. /\ f \in ChainType /\ f.last = o /\ f.seen = seen /\ f.clock = t
      /\ f.retriable = retriable /\ f.mode = ch.mode /\ f.dep = ch.dep
      /\ f.tryN = ch.tryN /\ f.dropped = ch.dropped /\ f.ended = ch.ended
  BY <1>1 DEF ChainType
<1> HIDE DEF f
<1>7. Remembers(f)
  BY <1>2, <1>4, <1>5, <1>6 DEF Remembers
<1> QED
  BY <1>3, <1>6, <1>7 DEF f

\* On to the next deployment, with the same knowledge.
LEMMA NextInv ==
  ASSUME NEW f, Remembers(f)
  PROVE  LET g == NextDeployment(f)
         IN  ChainInv(g) /\ (~g.ended => Progress(g) >= Progress(f) + 1)
<1> DEFINE g == NextDeployment(f)
<1>1. f \in ChainType /\ f.dep \in 1 .. Deployments /\ Deployments \in Nat /\ MaxRetries \in Nat
  BY ChainAssumption DEF Remembers, ChainType
<1>2. CASE ~f.mode.fallback \/ f.dep = Deployments
  <2>1. g = [f EXCEPT !.ended = TRUE]
    BY <1>2 DEF NextDeployment, Ended
  <2>2. g \in ChainType /\ g.ended /\ g.mode = f.mode /\ g.dep = f.dep /\ g.seen = f.seen
        /\ g.last = f.last /\ g.retriable = f.retriable
    BY <1>1, <2>1 DEF ChainType
  <2> HIDE DEF g
  <2> QED
    BY <1>1, <1>2, <2>2 DEF ChainInv, Remembers, More, g
<1>3. CASE f.mode.fallback /\ f.dep # Deployments /\ f.clock = "late"
  <2>1. g = [Ended(f) EXCEPT !.retriable = TRUE]
    BY <1>3 DEF NextDeployment
  <2>2. Ended(f) \in ChainType /\ Ended(f) = [f EXCEPT !.ended = TRUE]
    BY <1>1 DEF Ended, ChainType
  <2>3. g \in ChainType /\ g.ended /\ g.mode = f.mode /\ g.dep = f.dep /\ g.seen = f.seen
        /\ g.last = f.last /\ g.retriable
    BY <1>1, <2>1, <2>2 DEF ChainType
  <2> HIDE DEF g
  <2> QED
    BY <1>1, <1>3, <2>3 DEF ChainInv, Remembers, More, g
<1>4. CASE f.mode.fallback /\ f.dep # Deployments /\ f.clock # "late"
  <2> DEFINE d == f.dep + 1
  <2>1. d \in 1 .. Deployments /\ 0 \in 0 .. MaxRetries
    BY <1>1, <1>4
  <2>2. g = [f EXCEPT !.dep = d, !.tryN = 0, !.dropped = FALSE]
    BY <1>4 DEF NextDeployment
  <2> HIDE DEF d, g
  <2>3. g \in ChainType /\ ~g.ended /\ g.dep = d /\ g.tryN = 0 /\ ~g.dropped /\ g.mode = f.mode
        /\ g.seen = f.seen /\ g.last = f.last /\ g.retriable = f.retriable
    BY <1>1, <2>1, <2>2 DEF ChainType, Remembers
  <2>4. ChainInv(g)
    BY <2>3 DEF ChainInv, Remembers
  <2>5. f.tryN \in 0 .. MaxRetries
    BY <1>1 DEF ChainType
  <2>6. Progress(g) >= Progress(f) + 1
    <3> DEFINE k == PerDeployment
               e == f.dep
               p == (e - 1) * k
    <3>1. k \in Nat /\ k = MaxRetries + 2 /\ e \in Nat \ {0}
      BY <1>1 DEF PerDeployment
    <3>2. (d - 1) * k = p + k /\ p \in Int
      <4>1. d - 1 = e /\ e - 1 \in Int
        BY <3>1 DEF d
      <4> HIDE DEF e, k
      <4> QED
        BY <3>1, <4>1
    <3>3. Progress(g) = p + k
      BY <2>3, <3>1, <3>2 DEF Progress
    <3>4. Progress(f) = p + f.tryN + (IF f.dropped THEN 1 ELSE 0)
      BY DEF Progress
    <3> HIDE DEF p, k
    <3> QED
      BY <1>1, <2>5, <3>1, <3>2, <3>3, <3>4
  <2> QED
    BY <2>4, <2>6 DEF g
<1> QED
  BY <1>2, <1>3, <1>4

\* The same deployment again, or else the next.
LEMMA SameInv ==
  ASSUME NEW f, Remembers(f), NEW g, Remembers(g), Progress(g) \in Int, Progress(f) \in Int,
         Progress(g) >= Progress(f) + 1
  PROVE  LET h == SameDeployment(g)
         IN  ChainInv(h) /\ (~h.ended => Progress(h) >= Progress(f) + 1)
<1>1. ChainInv(g)
  BY DEF Remembers, ChainInv
<1>2. CASE SameDeployment(g) = g
  BY <1>1, <1>2
<1>3. CASE SameDeployment(g) = NextDeployment(g)
  <2> DEFINE h == NextDeployment(g)
  <2>1. ChainInv(h) /\ (~h.ended => Progress(h) >= Progress(g) + 1)
    BY NextInv
  <2>2. h \in ChainType => Progress(h) \in Int
    BY ChainAssumption DEF Progress, ChainType, PerDeployment
  <2> HIDE DEF h
  <2> QED
    BY <1>3, <2>1, <2>2 DEF ChainInv, h
<1> QED
  BY <1>2, <1>3 DEF SameDeployment

LEMMA ProgressTyped ==
  ASSUME NEW ch \in ChainType
  PROVE  Progress(ch) \in Nat /\ Progress(ch) < Deployments * PerDeployment
<1> DEFINE k == PerDeployment
           e == ch.dep
           p == (e - 1) * k
           m == IF ch.dropped THEN 1 ELSE 0
<1>1. /\ k \in Nat /\ k = MaxRetries + 2 /\ e \in Nat \ {0} /\ Deployments \in Nat
      /\ e <= Deployments /\ ch.tryN \in Nat /\ ch.tryN <= MaxRetries
      /\ MaxRetries \in Nat /\ m \in {0, 1}
  BY ChainAssumption DEF ChainType, PerDeployment
<1> HIDE DEF k, e, m
<1>2. p \in Nat /\ p + k = e * k
  BY <1>1
<1>3. e * k <= Deployments * k
  BY <1>1
<1>4. Deployments * k \in Nat /\ e * k \in Nat
  BY <1>1
<1>5. Progress(ch) = p + ch.tryN + m
  BY DEF Progress, e, k, m
<1> HIDE DEF p
<1> QED
  BY <1>1, <1>2, <1>3, <1>4, <1>5 DEF k

LEMMA AttemptInv ==
  ASSUME NEW ch, ChainInv(ch), ~ch.ended, NEW o \in Outcomes, NEW t \in Times, NEW u \in Times
  PROVE  LET g == Attempt(ch, o, t, u)
         IN  ChainInv(g) /\ (~g.ended => Progress(g) >= Progress(ch) + 1)
<1> DEFINE g == Attempt(ch, o, t, u)
           failed == Failed(ch, o, t)
           at(c) == [c EXCEPT !.clock = u]
<1>1. ch \in ChainType /\ Progress(ch) \in Nat
  BY ProgressTyped DEF ChainInv
<1>2. CASE o = "ok"
  <2> DEFINE seen == ch.seen \cup {"ok"}
             ok == [ch EXCEPT !.last = "ok", !.seen = seen]
  <2>1. g = [ok EXCEPT !.ended = TRUE]
    BY <1>2 DEF Attempt, Ended
  <2>2. seen \in SUBSET Outcomes
    BY <1>1 DEF ChainType, Outcomes
  <2>3. "transient" \in seen <=> "transient" \in ch.seen
    OBVIOUS
  <2>4. "ok" \in seen
    OBVIOUS
  <2> HIDE DEF seen
  <2>5. ok \in ChainType /\ ok.last = "ok" /\ ok.seen = seen /\ ok.retriable = ch.retriable
        /\ ok.mode = ch.mode /\ ok.dep = ch.dep
    BY <1>1, <2>2 DEF ChainType, Outcomes
  <2> HIDE DEF ok
  <2>6. g \in ChainType /\ g.last = "ok" /\ g.seen = seen /\ g.retriable = ch.retriable
        /\ g.mode = ch.mode /\ g.dep = ch.dep /\ g.ended
    BY <2>1, <2>5 DEF ChainType
  <2> HIDE DEF g
  <2> QED
    BY <1>1, <2>3, <2>4, <2>6 DEF ChainInv, More, g
<1>3. CASE o # "ok"
  <2>1. /\ Remembers(failed) /\ failed.last = o /\ failed.mode = ch.mode /\ failed.dep = ch.dep
        /\ failed.tryN = ch.tryN /\ failed.dropped = ch.dropped
    BY <1>3, FailedInv
  <2>2. Progress(failed) = Progress(ch)
    BY <2>1 DEF Progress
  <2> HIDE DEF failed
  <2>3. failed \in ChainType
    BY <2>1 DEF Remembers
  <2>4. CASE o = "refused" /\ ~ch.dropped
    <3> DEFINE h == [failed EXCEPT !.dropped = TRUE]
    <3>1. g = SameDeployment(at(h))
      BY <1>3, <2>4 DEF Attempt, failed
    <3>2. h \in ChainType /\ h.seen = failed.seen /\ h.last = failed.last /\ h.ended = failed.ended
          /\ h.retriable = failed.retriable /\ h.dep = failed.dep /\ h.tryN = failed.tryN
          /\ h.dropped
      BY <2>3 DEF ChainType
    <3> HIDE DEF h
    <3>3. at(h) \in ChainType /\ at(h).seen = h.seen /\ at(h).last = h.last
          /\ at(h).ended = h.ended /\ at(h).retriable = h.retriable /\ at(h).dep = h.dep
          /\ at(h).tryN = h.tryN /\ at(h).dropped
      BY <3>2 DEF ChainType
    <3>4. Remembers(at(h))
      BY <2>1, <3>2, <3>3 DEF Remembers
    <3>5. Progress(at(h)) \in Nat
      BY <3>3, ProgressTyped
    <3> DEFINE a == at(h)
    <3>6. a.dep = failed.dep /\ a.tryN = failed.tryN /\ a.dropped /\ ~failed.dropped
      BY <2>1, <2>4, <3>2, <3>3
    <3>7. (failed.dep - 1) * PerDeployment \in Int /\ failed.tryN \in Int
      BY <2>3, ChainAssumption DEF ChainType, PerDeployment
    <3> HIDE DEF a, at
    <3>8. Progress(a) >= Progress(failed) + 1
      BY <3>6, <3>7 DEF Progress
    <3> QED
      BY <1>1, <2>1, <2>2, <3>1, <3>4, <3>5, <3>8, SameInv DEF a
  <2>5. CASE ~(o = "refused" /\ ~ch.dropped) /\ o \in {"refused", "bad"} /\ ~ch.mode.stream
    <3> DEFINE e == [failed EXCEPT !.ended = TRUE]
    <3>1. g = [e EXCEPT !.retriable = FALSE, !.blocked = FALSE]
      BY <1>3, <2>5 DEF Attempt, Ended, failed
    <3>2. e \in ChainType /\ e.ended /\ e.last = failed.last /\ e.seen = failed.seen
      BY <2>3 DEF ChainType
    <3> HIDE DEF e
    <3>3. g \in ChainType /\ g.ended /\ g.last = o /\ g.seen = failed.seen /\ ~g.retriable
          /\ ~g.blocked
      BY <2>1, <3>1, <3>2 DEF ChainType
    <3> HIDE DEF g
    <3> QED
      BY <2>1, <2>5, <3>3 DEF ChainInv, Reported, Remembers, g
  <2>6. CASE /\ ~(o = "refused" /\ ~ch.dropped) /\ ~(o \in {"refused", "bad"} /\ ~ch.mode.stream)
             /\ MayRetry(failed)
    <3> DEFINE n == failed.tryN + 1
               h == [failed EXCEPT !.tryN = n]
    <3>1. g = SameDeployment(at(h))
      BY <1>3, <2>6 DEF Attempt, failed
    <3>2. n \in 0 .. MaxRetries
      BY <2>3, <2>6, ChainAssumption DEF MayRetry, ChainType
    <3>3. failed.tryN \in Int /\ n = failed.tryN + 1
      BY <2>3 DEF ChainType
    <3> HIDE DEF n
    <3>4. h \in ChainType /\ h.seen = failed.seen /\ h.last = failed.last /\ h.ended = failed.ended
          /\ h.retriable = failed.retriable /\ h.dep = failed.dep /\ h.tryN = n
          /\ h.dropped = failed.dropped
      BY <2>3, <3>2 DEF ChainType
    <3> HIDE DEF h
    <3> DEFINE a == at(h)
    <3>5. a \in ChainType /\ a.seen = h.seen /\ a.last = h.last
          /\ a.ended = h.ended /\ a.retriable = h.retriable /\ a.dep = h.dep
          /\ a.tryN = h.tryN /\ a.dropped = h.dropped
      BY <3>4 DEF ChainType
    <3> HIDE DEF a, at
    <3>6. Remembers(a)
      BY <2>1, <3>4, <3>5 DEF Remembers
    <3>7. Progress(a) \in Nat
      BY <3>5, ProgressTyped
    <3>8. (failed.dep - 1) * PerDeployment \in Int
      BY <2>3, ChainAssumption DEF ChainType, PerDeployment
    <3>9. Progress(a) >= Progress(failed) + 1
      BY <3>3, <3>4, <3>5, <3>8 DEF Progress
    <3> QED
      BY <1>1, <2>1, <2>2, <3>1, <3>6, <3>7, <3>9, SameInv DEF a
  <2>7. CASE /\ ~(o = "refused" /\ ~ch.dropped) /\ ~(o \in {"refused", "bad"} /\ ~ch.mode.stream)
             /\ ~MayRetry(failed)
    <3> DEFINE a == at(failed)
    <3>1. g = NextDeployment(a)
      BY <1>3, <2>7 DEF Attempt, failed
    <3>2. a \in ChainType /\ a.seen = failed.seen /\ a.last = failed.last
          /\ a.ended = failed.ended /\ a.retriable = failed.retriable /\ a.dep = failed.dep
          /\ a.tryN = failed.tryN /\ a.dropped = failed.dropped
      BY <2>3 DEF ChainType
    <3> HIDE DEF a, at
    <3>3. Remembers(a) /\ Progress(a) = Progress(failed)
      BY <2>1, <3>2 DEF Remembers, Progress
    <3> QED
      BY <2>2, <3>1, <3>3, NextInv
  <2> QED
    BY <2>4, <2>5, <2>6, <2>7
<1> QED
  BY <1>2, <1>3

\* All the chains that one more attempt makes of some.
Spread(S) ==
  UNION { IF ch.ended THEN {ch}
          ELSE UNION { { Attempt(ch, o, t, u) : u \in NotBefore(t) } :
                       o \in OutcomesFrom(ch.clock), t \in NotBefore(ch.clock) } :
          ch \in S }

IsAfter(g, mode) ==
  g = [n \in 0 .. Deployments * (MaxRetries + 2) |->
         IF n = 0 THEN {Start(mode)} ELSE Spread(g[n - 1])]

LEMMA AfterIs ==
  ASSUME NEW mode
  PROVE  After(mode) = (CHOOSE g : IsAfter(g, mode))[Deployments * (MaxRetries + 2)]
BY DEF After, IsAfter, Spread

LEMMA SpreadIs ==
  ASSUME NEW S, NEW d \in Spread(S),
         \A ch \in S : ChainInv(ch)
  PROVE  \E ch \in S :
           \/ ch.ended /\ d = ch
           \/ /\ ~ch.ended
              /\ \E o \in Outcomes, t \in Times, u \in Times : d = Attempt(ch, o, t, u)
<1>1. PICK ch \in S :
        d \in IF ch.ended THEN {ch}
              ELSE UNION { { Attempt(ch, o, t, u) : u \in NotBefore(t) } :
                           o \in OutcomesFrom(ch.clock), t \in NotBefore(ch.clock) }
  BY DEF Spread
<1>2. \A t \in Times : NotBefore(t) \subseteq Times /\ OutcomesFrom(t) \subseteq Outcomes
  BY DEF NotBefore, OutcomesFrom, Times, Outcomes
<1>3. ch.clock \in Times
  BY DEF ChainInv, ChainType
<1>4. CASE ch.ended
  BY <1>1, <1>4
<1>5. CASE ~ch.ended
  <2>1. PICK o \in OutcomesFrom(ch.clock), t \in NotBefore(ch.clock) :
          d \in { Attempt(ch, o, t, u) : u \in NotBefore(t) }
    BY <1>1, <1>5
  <2>2. PICK u \in NotBefore(t) : d = Attempt(ch, o, t, u)
    BY <2>1
  <2>3. o \in Outcomes /\ t \in Times /\ u \in Times
    BY <1>2, <1>3
  <2> QED
    BY <1>5, <2>2, <2>3
<1> QED
  BY <1>4, <1>5

\* The chains after up to n attempts, as one function, for every n.
AfterUpTo(g, mode, n) ==
  g = [k \in 0 .. n |-> IF k = 0 THEN {Start(mode)} ELSE Spread(g[k - 1])]

LEMMA AfterExists ==
  ASSUME NEW mode, NEW N \in Nat
  PROVE  \E g : AfterUpTo(g, mode, N)
<1> DEFINE T == {n \in Nat : \E g : AfterUpTo(g, mode, n)}
<1>1. 0 \in T
  <2> DEFINE g == [k \in 0 .. 0 |-> {Start(mode)}]
  <2>1. AfterUpTo(g, mode, 0)
    BY DEF AfterUpTo
  <2> QED
    BY <2>1
<1>2. ASSUME NEW n \in T PROVE n + 1 \in T
  <2>1. PICK g : AfterUpTo(g, mode, n)
    BY <1>2
  <2> DEFINE h == [k \in 0 .. (n + 1) |-> IF k = 0 THEN {Start(mode)} ELSE Spread(g[k - 1])]
  <2>2. ASSUME NEW k \in 0 .. n PROVE h[k] = g[k]
    <3>1. k \in 0 .. (n + 1)
      OBVIOUS
    <3>2. h[k] = IF k = 0 THEN {Start(mode)} ELSE Spread(g[k - 1])
      BY <3>1
    <3>3. g[k] = IF k = 0 THEN {Start(mode)} ELSE Spread(g[k - 1])
      BY <2>1 DEF AfterUpTo
    <3> QED
      BY <3>2, <3>3
  <2>3. ASSUME NEW k \in 0 .. (n + 1), k # 0 PROVE k - 1 \in 0 .. n
    BY <2>3
  <2>4. ASSUME NEW k \in 0 .. (n + 1)
        PROVE  (IF k = 0 THEN {Start(mode)} ELSE Spread(g[k - 1]))
                 = (IF k = 0 THEN {Start(mode)} ELSE Spread(h[k - 1]))
    BY <2>2, <2>3
  <2>5. h = [k \in 0 .. (n + 1) |-> IF k = 0 THEN {Start(mode)} ELSE Spread(h[k - 1])]
    <3> DEFINE b(k) == IF k = 0 THEN {Start(mode)} ELSE Spread(g[k - 1])
               e(k) == IF k = 0 THEN {Start(mode)} ELSE Spread(h[k - 1])
    <3>1. \A k \in 0 .. (n + 1) : b(k) = e(k)
      BY <2>4
    <3>2. h = [k \in 0 .. (n + 1) |-> b(k)]
      OBVIOUS
    <3> HIDE DEF b, e, h
    <3>3. h = [k \in 0 .. (n + 1) |-> e(k)]
      BY <3>1, <3>2
    <3> QED
      BY <3>3 DEF e
  <2> HIDE DEF h
  <2>6. AfterUpTo(h, mode, n + 1)
    BY <2>5 DEF AfterUpTo
  <2> QED
    BY <2>6
<1>3. T = Nat
  <2> HIDE DEF T
  <2>1. T \subseteq Nat
    BY DEF T
  <2> QED
    BY <1>1, <1>2, <2>1, Induction
<1> QED
  BY <1>3

\* Every chain is over after as many attempts as the model lets it make.
LEMMA AfterEnds ==
  ASSUME NEW mode \in Modes, NEW ch \in After(mode)
  PROVE  ChainInv(ch) /\ ch.ended
<1> DEFINE N == Deployments * (MaxRetries + 2)
<1>0. N \in Nat /\ N = Deployments * PerDeployment
  BY ChainAssumption DEF PerDeployment
<1> HIDE DEF N
<1>1. \E g : IsAfter(g, mode)
  BY <1>0, AfterExists DEF IsAfter, AfterUpTo, N
<1> DEFINE g == CHOOSE g : IsAfter(g, mode)
<1>2. IsAfter(g, mode)
  BY <1>1
<1>3. After(mode) = g[N]
  BY AfterIs DEF N
<1> HIDE DEF g
<1> DEFINE Right(n) == \A c \in g[n] : ChainInv(c) /\ (~c.ended => Progress(c) >= n)
           T == {n \in Nat : n \in 0 .. N => Right(n)}
<1>4. 0 \in T
  <2>1. 0 \in 0 .. N
    BY <1>0
  <2>2. g[0] = {Start(mode)}
    BY <1>2, <2>1 DEF IsAfter, N
  <2>3. Right(0)
    BY <2>2, StartInv
  <2> QED
    BY <2>3
<1>5. ASSUME NEW n \in T PROVE n + 1 \in T
  <2>1. SUFFICES ASSUME n + 1 \in 0 .. N, NEW d \in g[n + 1]
                 PROVE  ChainInv(d) /\ (~d.ended => Progress(d) >= n + 1)
    OBVIOUS
  <2>2. n \in Nat /\ n \in 0 .. N /\ n + 1 # 0 /\ (n + 1) - 1 = n
    BY <1>0, <2>1
  <2>3. Right(n)
    BY <1>5, <2>2
  <2>4. g[n + 1] = Spread(g[n])
    BY <1>2, <2>1, <2>2 DEF IsAfter, N
  <2>5. PICK c \in g[n] :
           \/ c.ended /\ d = c
           \/ /\ ~c.ended
              /\ \E o \in Outcomes, t \in Times, u \in Times : d = Attempt(c, o, t, u)
    BY <2>1, <2>3, <2>4, SpreadIs
  <2>6. ChainInv(c) /\ (~c.ended => Progress(c) >= n)
    BY <2>3, <2>5
  <2>7. CASE c.ended /\ d = c
    BY <2>6, <2>7
  <2>8. ASSUME ~c.ended, NEW o \in Outcomes, NEW t \in Times, NEW u \in Times,
               d = Attempt(c, o, t, u)
        PROVE  ChainInv(d) /\ (~d.ended => Progress(d) >= n + 1)
    <3>1. ChainInv(d) /\ (~d.ended => Progress(d) >= Progress(c) + 1)
      BY <2>6, <2>8, AttemptInv
    <3>2. Progress(c) \in Nat /\ Progress(d) \in Nat
      BY <2>6, <3>1, ProgressTyped DEF ChainInv
    <3>3. Progress(c) >= n
      BY <2>6, <2>8
    <3> QED
      BY <2>2, <3>1, <3>2, <3>3
  <2> QED
    BY <2>5, <2>7, <2>8
<1>6. T = Nat
  <2> HIDE DEF T
  <2>1. T \subseteq Nat
    BY DEF T
  <2> QED
    BY <1>4, <1>5, <2>1, Induction
<1>7. Right(N)
  BY <1>0, <1>6
<1>8. ChainInv(ch) /\ (~ch.ended => Progress(ch) >= N)
  BY <1>3, <1>7
<1>9. Progress(ch) \in Nat /\ Progress(ch) < N
  BY <1>0, <1>8, ProgressTyped DEF ChainInv
<1> QED
  BY <1>0, <1>8, <1>9

\* What the caller of a chain is told is so.
LEMMA EndingsHonest ==
  ASSUME NEW end \in Endings
  PROVE  /\ end.told \in {"ok", "bad request", "rejected", "try again", "do not retry"}
         /\ end.couldWork \in BOOLEAN
         /\ end.told = "do not retry" => ~end.couldWork
         /\ end.told = "try again" => end.couldWork
<1>1. PICK ch \in Chains :
        end = [stream |-> ch.mode.stream, told |-> Told(ch), couldWork |-> CouldWork(ch)]
  BY DEF Endings
<1>2. ChainInv(ch) /\ ch.ended
  BY AfterEnds DEF Chains
<1>3. end.told = Told(ch) /\ end.couldWork = CouldWork(ch)
  BY <1>1
<1>4. Told(ch) \in {"ok", "bad request", "rejected", "try again", "do not retry"} /\ CouldWork(ch) \in BOOLEAN
  BY DEF Told, CouldWork
<1>5. Told(ch) = "do not retry" => ~CouldWork(ch)
  BY <1>2 DEF Told, CouldWork, ChainInv, More, Reported
<1>6. Told(ch) = "try again" => CouldWork(ch)
  BY <1>2 DEF Told, CouldWork, ChainInv, More, Reported
<1> QED
  BY <1>3, <1>4, <1>5, <1>6

-----------------------------------------------------------------------------
(***************************************************************************)
(* The invariant.                                                          *)
(***************************************************************************)

Pcs == {"new", "reset", "reserve", "chain", "settle", "credit", "notify", "done"}
Stamp == [Budgets -> Nat]
Alert == Budgets \X Nat \X {"threshold", "exhausted"}
AnswerType ==
  [told : {"none", "ok", "bad request", "rejected", "try again", "do not retry"},
   couldWork : BOOLEAN]

CallType ==
  [pc : Pcs, order : Seq(Budgets), at : Nat, answer : AnswerType, real : Nat,
   served : BOOLEAN, cut : BOOLEAN, alerts : SUBSET Alert,
   label : Stamp, in : Stamp, out : Stamp]

Types ==
  /\ now \in 1 .. Periods
  /\ period \in Stamp /\ \A b \in Budgets : period[b] \in 1 .. now
  /\ spend \in [Budgets -> Int]
  /\ lock \in [Budgets -> Calls \cup {Free}]
  /\ call \in [Calls -> CallType]

\* A listing of a call's budgets: all of them, each once.
Lists(order, S) ==
  /\ order \in Seq(S)
  /\ \A i, j \in 1 .. Len(order) : order[i] = order[j] => i = j
  /\ \A b \in S : \E i \in 1 .. Len(order) : order[i] = b

\* A call at work is at one of its budgets.
Ordered(c) ==
  /\ call[c].pc \in {"reset", "reserve", "chain", "settle", "credit"} =>
       Lists(call[c].order, Applies[c]) /\ call[c].at \in 1 .. Len(call[c].order)
  /\ call[c].pc \in {"new", "chain"} => call[c].at = 1

\* It holds the rows that its transaction has updated, and no others.
Holds(c) == \A b \in Budgets : lock[b] = c <=> b \in Touched(c)

\* It has reserved or settled in no period to come, nothing before its time, and a
\* call that failed has no cost.
Stamps(c) ==
  /\ \A b \in Budgets : call[c].in[b] <= period[b] /\ call[c].out[b] <= period[b]
  /\ call[c].pc \in {"new", "reset", "reserve"} => \A b \in Budgets : call[c].in[b] = 0
  /\ call[c].pc \in {"new", "reset", "reserve", "chain", "settle", "credit"} =>
       \A b \in Budgets : call[c].out[b] = 0
  /\ call[c].pc \in {"new", "reset", "reserve", "chain", "credit"} => call[c].real = 0

Honest(c) ==
  /\ call[c].answer.told = "do not retry" => ~call[c].answer.couldWork
  /\ call[c].answer.told = "try again" => call[c].answer.couldWork

Good(c) == Ordered(c) /\ Holds(c) /\ Stamps(c) /\ Honest(c)

IInv == Types /\ SpendIsAccounted /\ \A c \in Calls : Good(c)

-----------------------------------------------------------------------------
(***************************************************************************)
(* Budgets in order.                                                       *)
(***************************************************************************)

LEMMA OrderIs ==
  ASSUME NEW S, IsFiniteSet(S), S # {}, NEW order \in SetToSeqs(S)
  PROVE  Lists(order, S) /\ 1 \in 1 .. Len(order)
<1> DEFINE n == Cardinality(S)
<1>1. n \in Nat /\ IsFiniteSet(1 .. n) /\ Cardinality(1 .. n) = n
  BY FS_CardinalityType, FS_Interval
<1>2. order \in [1 .. n -> S] /\ \A i, j \in 1 .. n : i # j => order[i] # order[j]
  BY DEF SetToSeqs
<1>3. n # 0
  BY FS_EmptySet
<1> HIDE DEF n
<1>4. order \in Seq(S) /\ Len(order) = n
  BY <1>1, <1>2
<1>5. order \in Injection(1 .. n, S)
  BY <1>2 DEF Injection, IsInjective
<1>6. order \in Surjection(1 .. n, S)
  BY <1>1, <1>5, FS_Injection DEF n
<1>7. \A b \in S : \E i \in 1 .. n : order[i] = b
  BY <1>6 DEF Surjection
<1> QED
  BY <1>1, <1>2, <1>3, <1>4, <1>7 DEF Lists

\* What a call at work is at.
LEMMA AtBudget ==
  ASSUME Types, NEW c \in Calls, Ordered(c),
         call[c].pc \in {"reset", "reserve", "chain", "settle", "credit"}
  PROVE  /\ Lists(call[c].order, Applies[c])
         /\ Len(call[c].order) \in Nat /\ call[c].at \in 1 .. Len(call[c].order)
         /\ Budget(c) \in Applies[c] /\ Budget(c) \in Budgets
         /\ Applies[c] \subseteq Budgets
<1>1. Lists(call[c].order, Applies[c]) /\ call[c].at \in 1 .. Len(call[c].order)
  BY DEF Ordered
<1>2. call[c].order \in Seq(Applies[c]) /\ Len(call[c].order) \in Nat
  BY <1>1 DEF Lists
<1>3. call[c].order[call[c].at] \in Applies[c]
  BY <1>1, <1>2
<1>4. Applies[c] \subseteq Budgets
  BY GatewayAssumption
<1> QED
  BY <1>1, <1>2, <1>3, <1>4 DEF Budget

\* The budget a transaction is at is one it has not updated; with the last one it
\* has updated them all.
LEMMA TouchedIs ==
  ASSUME Types, NEW c \in Calls, Ordered(c), InTransaction(c)
  PROVE  /\ Touched(c) = {call[c].order[i] : i \in 1 .. (call[c].at - 1)}
         /\ Budget(c) \notin Touched(c) /\ Touched(c) \subseteq Applies[c]
         /\ Touched(c) \cup {Budget(c)} = {call[c].order[i] : i \in 1 .. call[c].at}
         /\ LastBudget(c) => Touched(c) \cup {Budget(c)} = Applies[c]
<1> DEFINE order == call[c].order
           at == call[c].at
<1>1. /\ Lists(order, Applies[c]) /\ Len(order) \in Nat /\ at \in 1 .. Len(order)
  BY AtBudget DEF InTransaction, At
<1>2. Touched(c) = {order[i] : i \in 1 .. (at - 1)} /\ Budget(c) = order[at]
  BY DEF Touched, Budget
<1>3. LastBudget(c) <=> at = Len(order)
  BY DEF LastBudget
<1> HIDE DEF order, at
<1>4. order[at] \notin {order[i] : i \in 1 .. (at - 1)}
  BY <1>1 DEF Lists
<1>5. {order[i] : i \in 1 .. (at - 1)} \cup {order[at]} = {order[i] : i \in 1 .. at}
  <2>1. 1 .. at = (1 .. (at - 1)) \cup {at}
    BY <1>1
  <2> QED
    BY <2>1
<1>6. \A i \in 1 .. at : order[i] \in Applies[c]
  <2>1. order \in Seq(Applies[c]) /\ \A i \in 1 .. at : i \in 1 .. Len(order)
    BY <1>1 DEF Lists
  <2> QED
    BY <2>1
<1>7. at = Len(order) => {order[i] : i \in 1 .. at} = Applies[c]
  BY <1>1, <1>6 DEF Lists
<1>8. \A i \in 1 .. (at - 1) : i \in 1 .. at
  BY <1>1
<1> QED
  BY <1>2, <1>3, <1>4, <1>5, <1>6, <1>7, <1>8 DEF order, at

\* Outside a transaction, and at its start, nothing is updated.
LEMMA NoneTouched ==
  ASSUME NEW c, ~InTransaction(c) \/ call[c].at = 1
  PROVE  Touched(c) = {}
BY DEF Touched

LEMMA NoneTouchedNext ==
  ASSUME NEW c, ~InTransaction(c)' \/ call'[c].at = 1
  PROVE  Touched(c)' = {}
BY DEF Touched

-----------------------------------------------------------------------------
(***************************************************************************)
(* The account.                                                            *)
(***************************************************************************)

LEMMA PartType ==
  ASSUME Types, NEW c \in Calls, NEW b \in Budgets
  PROVE  Part(c, b) \in Int /\ Delta(c) \in Int
<1>1. call[c].real \in Int /\ Estimate \in Int
  BY GatewayAssumption DEF Types, CallType
<1>2. Delta(c) \in Int
  BY <1>1 DEF Delta
<1> QED
  BY <1>1, <1>2 DEF Part

LEMMA PartTypeNext ==
  ASSUME Types', NEW c \in Calls, NEW b \in Budgets
  PROVE  Part(c, b)' \in Int
<1>1. call'[c].real \in Int /\ Estimate \in Int
  BY GatewayAssumption DEF Types, CallType
<1>2. Delta(c)' \in Int
  BY <1>1 DEF Delta, At
<1> QED
  BY <1>1, <1>2 DEF Part

LEMMA SamePart ==
  ASSUME NEW d, call'[d] = call[d], NEW b, period'[b] = period[b]
  PROVE  Part(d, b)' = Part(d, b)
<1>1. Delta(d)' = Delta(d) /\ Touched(d)' = Touched(d)
  BY DEF Delta, Touched, At, InTransaction
<1> QED
  BY <1>1 DEF Part

\* A step of one call, in which no row is rolled over, changes a budget by what it
\* changes the call's part by.
LEMMA Accounts ==
  ASSUME Types, Types', SpendIsAccounted, NEW c \in Calls, period' = period,
         \A d \in Calls \ {c} : call'[d] = call[d],
         \A b \in Budgets : spend'[b] = spend[b] + (Part(c, b)' - Part(c, b))
  PROVE  SpendIsAccounted'
<1> SUFFICES ASSUME NEW b \in Budgets
             PROVE  spend'[b] = (IF period'[b] = 1 THEN Spent[b] ELSE 0)
                                + SumFunction([d \in Calls |-> Part(d, b)'])
  BY DEF SpendIsAccounted
<1> DEFINE f == [d \in Calls |-> Part(d, b)]
           e == [d \in Calls |-> Part(d, b)']
<1>1. \A d \in Calls : f[d] \in Int /\ e[d] \in Int
  BY PartType, PartTypeNext
<1>2. \A d \in Calls \ {c} : f[d] = e[d]
  BY SamePart
<1>3. e[c] = Part(c, b)' /\ f[c] = Part(c, b)
  OBVIOUS
<1>4. SumFunction(e) = SumFunctionOnSet(e, Calls) /\ SumFunction(f) = SumFunctionOnSet(f, Calls)
  BY DEF SumFunction
<1>5. spend[b] = (IF period[b] = 1 THEN Spent[b] ELSE 0) + SumFunction(f)
  BY DEF SpendIsAccounted
<1>6. Spent[b] \in Int
  BY GatewayAssumption
<1> HIDE DEF e, f
<1>7. SumFunctionOnSet(e, Calls) = SumFunctionOnSet(f, Calls) + (e[c] - f[c])
  BY <1>1, <1>2, GatewayAssumption, SumChanges
<1>8. SumFunctionOnSet(f, Calls) \in Int
  BY <1>1, GatewayAssumption, SumType
<1> DEFINE s == IF period[b] = 1 THEN Spent[b] ELSE 0
           x == SumFunctionOnSet(f, Calls)
<1>9. s \in Int /\ spend[b] = s + x
  BY <1>4, <1>5, <1>6
<1>10. spend'[b] = spend[b] + (e[c] - f[c])
  BY <1>3
<1> HIDE DEF s, x
<1>11. spend'[b] = s + (x + (e[c] - f[c]))
  BY <1>1, <1>8, <1>9, <1>10 DEF x
<1>12. spend'[b] = s + SumFunction(e)
  BY <1>4, <1>7, <1>11 DEF x
<1> QED
  BY <1>12 DEF s, e

-----------------------------------------------------------------------------
(***************************************************************************)
(* The steps of one call.  A call sees of another only the rows it holds.  *)
(***************************************************************************)

OnlyBy(c) ==
  /\ \A d \in Calls \ {c} : call'[d] = call[d]
  /\ \A b \in Budgets : \/ lock'[b] = lock[b]
                        \/ lock[b] \in {Free, c} /\ lock'[b] \in {Free, c}
  /\ \A b \in Budgets : period'[b] >= period[b]

LEMMA OthersGood ==
  ASSUME Types, Types', NEW c \in Calls, OnlyBy(c), NEW d \in Calls \ {c}, Good(d)
  PROVE  Good(d)'
<1>1. call'[d] = call[d]
  BY DEF OnlyBy
<1>2. Touched(d)' = Touched(d)
  BY <1>1 DEF Touched, InTransaction, At
<1>3. Holds(d)'
  BY <1>2, GatewayAssumption DEF OnlyBy, Good, Holds
<1>4. Ordered(d)' /\ Honest(d)'
  BY <1>1 DEF Good, Ordered, Honest, At
<1>5. Stamps(d)'
  <2>1. ASSUME NEW b \in Budgets
        PROVE  call[d].in[b] <= period'[b] /\ call[d].out[b] <= period'[b]
    <3>1. call[d].in[b] \in Nat /\ call[d].out[b] \in Nat /\ period[b] \in Nat /\ period'[b] \in Nat
      BY DEF Types, CallType, Stamp
    <3> QED
      BY <3>1 DEF Good, Stamps, OnlyBy
  <2> QED
    BY <1>1, <2>1 DEF Good, Stamps
<1> QED
  BY <1>3, <1>4, <1>5 DEF Good

LEMMA Keeps ==
  ASSUME IInv, Types', NEW c \in Calls, OnlyBy(c), Good(c)', SpendIsAccounted'
  PROVE  IInv'
BY OthersGood DEF IInv

LEMMA CallTyped ==
  ASSUME Types, NEW c \in Calls
  PROVE  call[c] \in CallType
BY DEF Types

LEMMA UnlockIs ==
  ASSUME Types, NEW c \in Calls
  PROVE  /\ Unlock(c) \in [Budgets -> Calls \cup {Free}]
         /\ \A b \in Budgets : /\ Unlock(c)[b] # c
                               /\ \/ Unlock(c)[b] = lock[b]
                                  \/ lock[b] \in {Free, c} /\ Unlock(c)[b] \in {Free, c}
<1>1. lock \in [Budgets -> Calls \cup {Free}] /\ c # Free
  BY GatewayAssumption DEF Types
<1>2. \A b \in Budgets : Unlock(c)[b] = IF lock[b] = c THEN Free ELSE lock[b]
  BY DEF Unlock
<1>3. Unlock(c) \in [Budgets -> Calls \cup {Free}]
  BY <1>1 DEF Unlock
<1> QED
  BY <1>1, <1>2, <1>3

LEMMA DoneIs ==
  ASSUME NEW x \in CallType
  PROVE  LET e == Done(x)
         IN  /\ e \in CallType /\ e.pc = "done" /\ e.at = 1 /\ e.answer = NoAnswer
             /\ e.in = x.in /\ e.out = x.out /\ e.real = x.real
<1>1. NoAnswer \in AnswerType /\ << >> \in Seq(Budgets) /\ {} \in SUBSET Alert /\ "done" \in Pcs
  BY DEF NoAnswer, AnswerType, Pcs
<1> DEFINE none == << >>
           answer == NoAnswer
           alerts == {}
<1>2. Done(x) = [x EXCEPT !.pc = "done", !.order = none, !.at = 1, !.answer = answer, !.alerts = alerts]
  BY DEF Done
<1>3. none \in Seq(Budgets) /\ answer \in AnswerType /\ alerts \in SUBSET Alert
  BY <1>1
<1> HIDE DEF none, answer, alerts
<1>4. 1 \in Nat
  OBVIOUS
<1> DEFINE e == Done(x)
<1>5. e \in CallType /\ e.pc = "done" /\ e.at = 1 /\ e.answer = answer
             /\ e.in = x.in /\ e.out = x.out /\ e.real = x.real
  BY <1>1, <1>2, <1>3, <1>4 DEF CallType
<1> QED
  BY <1>5 DEF answer

\* A call that is over, or has only its alerts left.
LEMMA OverGood ==
  ASSUME Types, Types', NEW c \in Calls, Stamps(c), period' = period,
         NEW e, call'[c] = e, e.pc \in {"notify", "done"}, e.in = call[c].in,
         e.out = call[c].out, e.answer = NoAnswer \/ (Honest(c) /\ e.answer = call[c].answer)
  PROVE  Ordered(c)' /\ Stamps(c)' /\ Honest(c)' /\ ~InTransaction(c)'
<1>1. Ordered(c)' /\ ~InTransaction(c)'
  BY DEF Ordered, InTransaction, At
<1>2. Stamps(c)'
  BY DEF Stamps
<1>3. Honest(c)'
  <2>1. CASE e.answer = NoAnswer
    <3>1. call'[c].answer.told = "none"
      BY <2>1 DEF NoAnswer
    <3> QED
      BY <3>1 DEF Honest
  <2>2. CASE Honest(c) /\ e.answer = call[c].answer
    BY <2>2 DEF Honest
  <2> QED
    BY <2>1, <2>2
<1> QED
  BY <1>1, <1>2, <1>3

\* A transaction that is rolled back leaves the account as if it had never begun.
LEMMA RollbackKeeps ==
  ASSUME IInv, NEW c \in Calls, NEW e \in CallType, Rollback(c, e),
         e.in = call[c].in, e.out = call[c].out,
         e.real = call[c].real \/ \A b \in Budgets : call[c].out[b] = 0,
         Ordered(c)', Stamps(c)', Honest(c)', ~InTransaction(c)' \/ e.at = 1
  PROVE  IInv'
<1>1. /\ call' = [call EXCEPT ![c] = e] /\ lock' = Unlock(c) /\ now' = now /\ period' = period
      /\ spend' = [b \in Budgets |-> IF b \in Touched(c) THEN spend[b] - Delta(c) ELSE spend[b]]
  BY DEF Rollback
<1>2. Types
  BY DEF IInv
<1>3. call'[c] = e /\ \A d \in Calls \ {c} : call'[d] = call[d]
  BY <1>1, <1>2 DEF Types
<1>4. \A b \in Budgets : Delta(c) \in Int /\ Part(c, b) \in Int /\ spend[b] \in Int
  BY <1>2, PartType DEF Types
<1>5. Types'
  <2>1. spend' \in [Budgets -> Int]
    BY <1>1, <1>4
  <2>2. lock' \in [Budgets -> Calls \cup {Free}]
    BY <1>1, <1>2, UnlockIs
  <2>3. call' \in [Calls -> CallType]
    BY <1>1, <1>2 DEF Types
  <2> QED
    BY <1>1, <1>2, <2>1, <2>2, <2>3 DEF Types
<1>6. Touched(c)' = {}
  BY <1>3, NoneTouchedNext
<1>7. Good(c)'
  <2>1. Holds(c)'
    BY <1>1, <1>2, <1>6, UnlockIs DEF Holds
  <2> QED
    BY <2>1 DEF Good
<1>8. OnlyBy(c)
  <2>1. \A b \in Budgets : period'[b] >= period[b]
    BY <1>1, <1>2 DEF Types, Stamp
  <2> QED
    BY <1>1, <1>2, <1>3, <2>1, UnlockIs DEF OnlyBy
<1>9. ASSUME NEW b \in Budgets
      PROVE  spend'[b] = spend[b] + (Part(c, b)' - Part(c, b))
  <2> DEFINE i == IF call[c].in[b] = period[b] THEN Estimate ELSE 0
             o == IF call[c].out[b] = period[b] THEN call[c].real - Estimate ELSE 0
             d == IF b \in Touched(c) THEN Delta(c) ELSE 0
  <2>1. Part(c, b) = i + o + d
    BY DEF Part
  <2>2. call[c].out[b] = period[b] => e.real = call[c].real
    <3>1. period[b] # 0
      BY <1>2 DEF Types
    <3> QED
      BY <3>1
  <2>3. Part(c, b)' = i + o + 0
    BY <1>1, <1>3, <1>6, <2>2 DEF Part
  <2>4. spend'[b] = spend[b] - d
    BY <1>1, <1>4
  <2>5. i \in Int /\ o \in Int /\ d \in Int
    BY <1>2, <1>4, GatewayAssumption DEF Types, CallType
  <2> HIDE DEF i, o, d
  <2> QED
    BY <1>4, <2>1, <2>3, <2>4, <2>5
<1>10. SpendIsAccounted'
  BY <1>1, <1>2, <1>3, <1>5, <1>9, Accounts DEF IInv
<1> QED
  BY <1>5, <1>7, <1>8, <1>10, Keeps

\* An update inside a transaction adds the same to the account and to the row.
LEMMA GoesOnKeeps ==
  ASSUME IInv, NEW c \in Calls, InTransaction(c), Update(c, Budget(c)), ~LastBudget(c),
         NEW e \in CallType, call' = [call EXCEPT ![c] = e],
         e.pc = call[c].pc, e.order = call[c].order, e.at = call[c].at + 1,
         e.in = call[c].in, e.out = call[c].out, e.real = call[c].real,
         e.answer = call[c].answer
  PROVE  IInv'
<1> DEFINE B == Budget(c)
<1>1. /\ lock[B] \in {Free, c} /\ lock' = [lock EXCEPT ![B] = c] /\ now' = now
      /\ period' = period /\ spend' = [spend EXCEPT ![B] = @ + Delta(c)]
  BY DEF Update, CanLock
<1>2. Types /\ Good(c) /\ call[c] \in CallType
  BY CallTyped DEF IInv
<1>3. call'[c] = e /\ \A d \in Calls \ {c} : call'[d] = call[d]
  BY <1>2 DEF Types
<1>4. /\ Lists(call[c].order, Applies[c]) /\ B \in Budgets
      /\ Len(call[c].order) \in Nat /\ call[c].at \in 1 .. Len(call[c].order)
  BY <1>2, AtBudget DEF Good, InTransaction, At
<1>5. \A b \in Budgets : Delta(c) \in Int /\ Part(c, b) \in Int /\ spend[b] \in Int
  BY <1>2, PartType DEF Types
<1> HIDE DEF B
<1>6. Types'
  <2>1. spend' \in [Budgets -> Int]
    <3>1. spend \in [Budgets -> Int] /\ spend[B] + Delta(c) \in Int
      BY <1>2, <1>4, <1>5 DEF Types
    <3> QED
      BY <1>1, <1>4, <3>1
  <2>2. lock' \in [Budgets -> Calls \cup {Free}]
    BY <1>1, <1>2 DEF Types
  <2>3. call' \in [Calls -> CallType]
    BY <1>2 DEF Types
  <2> QED
    BY <1>1, <1>2, <2>1, <2>2, <2>3 DEF Types
<1>7. InTransaction(c)' /\ Delta(c)' = Delta(c)
  BY <1>3 DEF InTransaction, At, Delta
<1>8. Touched(c)' = Touched(c) \cup {B} /\ B \notin Touched(c)
  <2>1. Touched(c)' = {e.order[i] : i \in 1 .. (e.at - 1)}
    BY <1>3, <1>7 DEF Touched
  <2>2. (call[c].at + 1) - 1 = call[c].at
    BY <1>4
  <2>3. Touched(c) \cup {B} = {call[c].order[i] : i \in 1 .. call[c].at} /\ B \notin Touched(c)
    BY <1>2, TouchedIs DEF B, Good
  <2> QED
    BY <2>1, <2>2, <2>3
<1>9. Good(c)'
  <2>1. Holds(c)'
    <3>1. \A b \in Budgets : lock'[b] = IF b = B THEN c ELSE lock[b]
      BY <1>1, <1>2 DEF Types
    <3> QED
      BY <1>2, <1>8, <3>1 DEF Good, Holds
  <2>2. Ordered(c)'
    <3>1. call[c].at + 1 \in 1 .. Len(call[c].order)
      BY <1>4 DEF LastBudget
    <3>2. e.pc \notin {"new", "chain"}
      BY DEF InTransaction, At
    <3> QED
      BY <1>3, <1>4, <3>1, <3>2 DEF Ordered
  <2>3. Stamps(c)'
    BY <1>1, <1>2, <1>3 DEF Good, Stamps
  <2>4. Honest(c)'
    BY <1>2, <1>3 DEF Good, Honest
  <2> QED
    BY <2>1, <2>2, <2>3, <2>4 DEF Good
<1>10. OnlyBy(c)
  <2>1. \A b \in Budgets : period'[b] >= period[b]
    BY <1>1, <1>2 DEF Types, Stamp
  <2>2. \A b \in Budgets : lock'[b] = lock[b] \/ (lock[b] \in {Free, c} /\ lock'[b] \in {Free, c})
    BY <1>1, <1>2 DEF Types
  <2> QED
    BY <1>3, <2>1, <2>2 DEF OnlyBy
<1>11. ASSUME NEW b \in Budgets
       PROVE  spend'[b] = spend[b] + (Part(c, b)' - Part(c, b))
  <2> DEFINE i == IF call[c].in[b] = period[b] THEN Estimate ELSE 0
             o == IF call[c].out[b] = period[b] THEN call[c].real - Estimate ELSE 0
             d == Delta(c)
  <2>1. Part(c, b) = i + o + (IF b \in Touched(c) THEN d ELSE 0)
    BY DEF Part
  <2>2. Part(c, b)' = i + o + (IF b \in Touched(c) \cup {B} THEN d ELSE 0)
    BY <1>1, <1>3, <1>7, <1>8 DEF Part
  <2>3. spend'[b] = IF b = B THEN spend[b] + d ELSE spend[b]
    BY <1>1, <1>2 DEF Types
  <2>4. i \in Int /\ o \in Int /\ d \in Int
    BY <1>2, <1>5, GatewayAssumption DEF Types, CallType
  <2> HIDE DEF i, o, d
  <2> QED
    BY <1>5, <1>8, <2>1, <2>2, <2>3, <2>4
<1>12. SpendIsAccounted'
  BY <1>1, <1>2, <1>3, <1>6, <1>11, Accounts DEF IInv
<1> QED
  BY <1>6, <1>9, <1>10, <1>12, Keeps

\* The last update commits the transaction: what it added is now in the call's stamps.
LEMMA CommitKeeps ==
  ASSUME IInv, NEW c \in Calls, InTransaction(c), Update(c, Budget(c)), LastBudget(c),
         NEW e \in CallType, call' = [call EXCEPT ![c] = e],
         Ordered(c)', Stamps(c)', Honest(c)', ~InTransaction(c)',
         \A b \in Budgets :
           Part(c, b)' = (IF call[c].in[b] = period[b] THEN Estimate ELSE 0)
                         + (IF b \in Applies[c] THEN Delta(c) ELSE 0)
  PROVE  IInv'
<1> DEFINE B == Budget(c)
<1>1. /\ lock[B] \in {Free, c} /\ lock' = Unlock(c) /\ now' = now
      /\ period' = period /\ spend' = [spend EXCEPT ![B] = @ + Delta(c)]
  BY DEF Update, CanLock
<1>2. Types /\ Good(c) /\ call[c] \in CallType
  BY CallTyped DEF IInv
<1>3. call'[c] = e /\ \A d \in Calls \ {c} : call'[d] = call[d]
  BY <1>2 DEF Types
<1>4. B \in Budgets
  BY <1>2, AtBudget DEF Good, InTransaction, At
<1>5. \A b \in Budgets : Delta(c) \in Int /\ Part(c, b) \in Int /\ spend[b] \in Int
  BY <1>2, PartType DEF Types
<1>6. B \notin Touched(c) /\ Touched(c) \cup {B} = Applies[c]
  BY <1>2, TouchedIs DEF Good
<1> HIDE DEF B
<1>7. Types'
  <2>1. spend' \in [Budgets -> Int]
    <3>1. spend \in [Budgets -> Int] /\ spend[B] + Delta(c) \in Int
      BY <1>2, <1>4, <1>5 DEF Types
    <3> QED
      BY <1>1, <1>4, <3>1
  <2>2. lock' \in [Budgets -> Calls \cup {Free}]
    BY <1>1, <1>2, UnlockIs
  <2>3. call' \in [Calls -> CallType]
    BY <1>2 DEF Types
  <2> QED
    BY <1>1, <1>2, <2>1, <2>2, <2>3 DEF Types
<1>8. Touched(c)' = {}
  BY NoneTouchedNext
<1>9. Good(c)'
  <2>1. Holds(c)'
    BY <1>1, <1>2, <1>8, UnlockIs DEF Holds
  <2> QED
    BY <2>1 DEF Good
<1>10. OnlyBy(c)
  <2>1. \A b \in Budgets : period'[b] >= period[b]
    BY <1>1, <1>2 DEF Types, Stamp
  <2> QED
    BY <1>1, <1>2, <1>3, <2>1, UnlockIs DEF OnlyBy
<1>11. ASSUME NEW b \in Budgets
       PROVE  spend'[b] = spend[b] + (Part(c, b)' - Part(c, b))
  <2> DEFINE i == IF call[c].in[b] = period[b] THEN Estimate ELSE 0
             d == Delta(c)
  <2>1. call[c].out[b] # period[b]
    <3>1. call[c].out[b] = 0
      BY <1>2 DEF Good, Stamps, InTransaction, At
    <3> QED
      BY <1>2, <3>1 DEF Types
  <2>2. Part(c, b) = i + 0 + (IF b \in Touched(c) THEN d ELSE 0)
    BY <2>1 DEF Part
  <2>3. Part(c, b)' = i + (IF b \in Touched(c) \cup {B} THEN d ELSE 0)
    BY <1>6
  <2>4. spend'[b] = IF b = B THEN spend[b] + d ELSE spend[b]
    BY <1>1, <1>2 DEF Types
  <2>5. i \in Int /\ d \in Int
    BY <1>5, GatewayAssumption
  <2> HIDE DEF i, d
  <2> QED
    BY <1>5, <1>6, <2>2, <2>3, <2>4, <2>5
<1>12. SpendIsAccounted'
  BY <1>1, <1>2, <1>3, <1>7, <1>11, Accounts DEF IInv
<1> QED
  BY <1>7, <1>9, <1>10, <1>12, Keeps

\* A step outside a transaction.
LEMMA LocalKeeps ==
  ASSUME IInv, NEW c \in Calls, NEW e \in CallType, call' = [call EXCEPT ![c] = e],
         UNCHANGED <<now, period, spend, lock>>, ~InTransaction(c) \/ call[c].at = 1,
         ~InTransaction(c)' \/ e.at = 1, e.in = call[c].in, e.out = call[c].out,
         e.real = call[c].real \/ \A b \in Budgets : call[c].out[b] = 0,
         Ordered(c)', Stamps(c)', Honest(c)'
  PROVE  IInv'
<1>1. Types /\ Good(c)
  BY DEF IInv
<1>2. call'[c] = e /\ \A d \in Calls \ {c} : call'[d] = call[d]
  BY <1>1 DEF Types
<1>3. Types'
  BY <1>1 DEF Types
<1>4. Touched(c) = {} /\ Touched(c)' = {}
  BY <1>2, NoneTouched, NoneTouchedNext
<1>5. Good(c)'
  BY <1>1, <1>4 DEF Good, Holds
<1>6. OnlyBy(c)
  <2>1. \A b \in Budgets : period'[b] >= period[b]
    BY <1>1 DEF Types, Stamp
  <2> QED
    BY <1>2, <2>1 DEF OnlyBy
<1>7. ASSUME NEW b \in Budgets
      PROVE  spend'[b] = spend[b] + (Part(c, b)' - Part(c, b))
  <2>1. call[c].out[b] = period[b] => e.real = call[c].real
    <3>1. period[b] # 0
      BY <1>1 DEF Types
    <3> QED
      BY <3>1
  <2>2. Part(c, b)' = Part(c, b)
    BY <1>2, <1>4, <2>1 DEF Part
  <2>3. Part(c, b) \in Int /\ spend[b] \in Int
    BY <1>1, PartType DEF Types
  <2> QED
    BY <2>2, <2>3
<1>8. SpendIsAccounted'
  BY <1>1, <1>2, <1>3, <1>7, Accounts DEF IInv
<1> QED
  BY <1>3, <1>5, <1>6, <1>8, Keeps

LEMMA TickKeeps == ASSUME IInv, Tick PROVE IInv'
<1>1. now < Periods /\ now' = now + 1 /\ UNCHANGED <<period, spend, lock, call>>
  BY DEF Tick
<1>2. Types /\ now \in 1 .. Periods
  BY DEF IInv, Types
<1>3. now' \in 1 .. Periods /\ \A b \in Budgets : period'[b] \in 1 .. now'
  BY <1>1, <1>2, GatewayAssumption DEF Types
<1>4. Types'
  BY <1>1, <1>2, <1>3 DEF Types
<1>5. \A d \in Calls, b \in Budgets : Part(d, b)' = Part(d, b)
  BY <1>1, SamePart
<1>6. SpendIsAccounted'
  <2>1. SUFFICES ASSUME NEW b \in Budgets
                 PROVE  SumFunction([d \in Calls |-> Part(d, b)'])
                          = SumFunction([d \in Calls |-> Part(d, b)])
    BY <1>1 DEF IInv, SpendIsAccounted
  <2>2. [d \in Calls |-> Part(d, b)'] = [d \in Calls |-> Part(d, b)]
    BY <1>5
  <2> QED
    BY <2>2
<1>7. ASSUME NEW d \in Calls PROVE Good(d)'
  <2>1. Good(d)
    BY DEF IInv
  <2>2. Touched(d)' = Touched(d)
    BY <1>1 DEF Touched, InTransaction, At
  <2>3. Ordered(d)' /\ Holds(d)' /\ Stamps(d)' /\ Honest(d)'
    BY <1>1, <2>1, <2>2 DEF Good, Ordered, Holds, Stamps, Honest, At
  <2> QED
    BY <2>3 DEF Good
<1> QED
  BY <1>4, <1>6, <1>7 DEF IInv

LEMMA ReadKeeps == ASSUME IInv, NEW c \in Calls, Read(c) PROVE IInv'
<1>1. /\ call[c].pc = "new" /\ UNCHANGED <<now, period, spend, lock>>
  BY DEF Read, At
<1>2. PICK order \in SetToSeqs(Applies[c]) :
        call' = [call EXCEPT ![c].pc = "reset", ![c].order = order, ![c].label = period]
  BY DEF Read
<1> DEFINE e == [call[c] EXCEPT !.pc = "reset", !.order = order, !.label = period]
<1>3. Types /\ Good(c) /\ call[c] \in CallType
  BY CallTyped DEF IInv
<1>4. call' = [call EXCEPT ![c] = e]
  BY <1>2, <1>3 DEF Types
<1>5. IsFiniteSet(Applies[c]) /\ Applies[c] # {} /\ Applies[c] \subseteq Budgets
  BY GatewayAssumption, FS_Subset
<1>6. Lists(order, Applies[c]) /\ 1 \in 1 .. Len(order)
  BY <1>5, OrderIs
<1>7. order \in Seq(Budgets)
  BY <1>5, <1>6 DEF Lists
<1>8. /\ e \in CallType /\ e.pc = "reset" /\ e.order = order /\ e.at = call[c].at
      /\ e.in = call[c].in /\ e.out = call[c].out /\ e.real = call[c].real
      /\ e.answer = call[c].answer
  BY <1>3, <1>7 DEF CallType, Types, Pcs
<1> HIDE DEF e
<1>9. call'[c] = e
  BY <1>3, <1>4 DEF Types
<1>10. call[c].at = 1 /\ Honest(c) /\ Stamps(c)
  BY <1>1, <1>3 DEF Good, Ordered
<1>11. ~InTransaction(c) /\ ~InTransaction(c)'
  BY <1>1, <1>8, <1>9 DEF InTransaction, At
<1>12. Ordered(c)'
  BY <1>6, <1>8, <1>9, <1>10 DEF Ordered
<1>13. Stamps(c)' /\ Honest(c)'
  BY <1>1, <1>8, <1>9, <1>10 DEF Stamps, Honest
<1> QED
  BY <1>1, <1>4, <1>8, <1>11, <1>12, <1>13, LocalKeeps

LEMMA NotifyKeeps == ASSUME IInv, NEW c \in Calls, Notify(c) PROVE IInv'
<1> DEFINE e == Done(call[c])
<1>1. call[c].pc = "notify" /\ UNCHANGED <<now, period, spend, lock>> /\ call' = [call EXCEPT ![c] = e]
  BY DEF Notify, At
<1>2. Types /\ Types' /\ Good(c) /\ call[c] \in CallType
  <2>1. Types /\ Good(c) /\ call[c] \in CallType
    BY CallTyped DEF IInv
  <2>2. e \in CallType
    BY <2>1, DoneIs
  <2> QED
    BY <1>1, <2>1, <2>2 DEF Types
<1>3. /\ e \in CallType /\ e.pc = "done" /\ e.at = 1 /\ e.answer = NoAnswer
      /\ e.in = call[c].in /\ e.out = call[c].out /\ e.real = call[c].real
  BY <1>2, DoneIs
<1> HIDE DEF e
<1>4. call'[c] = e
  BY <1>1, <1>2 DEF Types
<1>5. Ordered(c)' /\ Stamps(c)' /\ Honest(c)'
  BY <1>1, <1>2, <1>3, <1>4, OverGood DEF Good
<1>6. ~InTransaction(c)
  BY <1>1 DEF InTransaction, At
<1> QED
  BY <1>1, <1>3, <1>5, <1>6, LocalKeeps

\* A chain's end, as the call takes it.
LEMMA AnswerKeeps == ASSUME IInv, NEW c \in Calls, Answer(c) PROVE IInv'
<1>1. Types /\ Good(c) /\ call[c] \in CallType /\ call[c].pc = "chain"
  BY CallTyped DEF IInv, Answer, At
<1>2. UNCHANGED <<now, period, spend, lock>>
  BY DEF Answer
<1>3. /\ Lists(call[c].order, Applies[c]) /\ call[c].at \in 1 .. Len(call[c].order)
      /\ call[c].at = 1 /\ ~InTransaction(c) /\ call[c].real = 0
      /\ \A b \in Budgets : call[c].out[b] = 0
  BY <1>1 DEF Good, Ordered, Stamps, InTransaction, At
<1>4. ASSUME NEW e \in CallType, call' = [call EXCEPT ![c] = e],
             e.pc = "settle" \/ (e.pc = "credit" /\ e.real = 0),
             e.order = call[c].order, e.at = call[c].at,
             e.in = call[c].in, e.out = call[c].out,
             /\ e.answer.told = "do not retry" => ~e.answer.couldWork
             /\ e.answer.told = "try again" => e.answer.couldWork
      PROVE  IInv'
  <2>1. call'[c] = e
    BY <1>1, <1>4 DEF Types
  <2>2. Ordered(c)'
    BY <1>3, <1>4, <2>1 DEF Ordered
  <2>3. Stamps(c)'
    BY <1>1, <1>2, <1>3, <1>4, <2>1 DEF Good, Stamps
  <2>4. Honest(c)'
    BY <1>4, <2>1 DEF Honest
  <2> QED
    BY <1>2, <1>3, <1>4, <2>2, <2>3, <2>4, LocalKeeps
<1>5. call[c].answer \in AnswerType /\ Honest(c)
  BY <1>1 DEF Good, CallType
<1>6. CASE \E end \in Endings :
             /\ end.told = "ok"
             /\ \E real \in Costs :
                  call' = [call EXCEPT ![c].pc = "settle", ![c].real = real, ![c].served = TRUE]
  <2>1. PICK real \in Costs :
          call' = [call EXCEPT ![c].pc = "settle", ![c].real = real, ![c].served = TRUE]
    BY <1>6
  <2> DEFINE e == [call[c] EXCEPT !.pc = "settle", !.real = real, !.served = TRUE]
  <2>2. call' = [call EXCEPT ![c] = e]
    BY <1>1, <2>1 DEF Types
  <2>3. real \in Nat
    BY GatewayAssumption
  <2>4. e \in CallType /\ e.pc = "settle" /\ e.order = call[c].order /\ e.at = call[c].at
        /\ e.in = call[c].in /\ e.out = call[c].out /\ e.answer = call[c].answer
    BY <1>1, <2>3 DEF CallType, Pcs
  <2> HIDE DEF e
  <2> QED
    BY <1>4, <1>5, <2>2, <2>4 DEF Honest
<1>7. CASE \E end \in Endings :
             /\ end.told # "ok"
             /\ call' = [call EXCEPT ![c].pc = "credit", ![c].alerts = {},
                  ![c].answer = [told |-> end.told, couldWork |-> end.couldWork]]
  <2>1. PICK end \in Endings :
          call' = [call EXCEPT ![c].pc = "credit", ![c].alerts = {},
                     ![c].answer = [told |-> end.told, couldWork |-> end.couldWork]]
    BY <1>7
  <2> DEFINE answer == [told |-> end.told, couldWork |-> end.couldWork]
             none == {}
             e == [call[c] EXCEPT !.pc = "credit", !.alerts = none, !.answer = answer]
  <2>2. call' = [call EXCEPT ![c] = e]
    BY <1>1, <2>1 DEF Types
  <2>3. answer \in AnswerType /\ none \in SUBSET Alert
    BY EndingsHonest DEF AnswerType
  <2>4. /\ answer.told = "do not retry" => ~answer.couldWork
        /\ answer.told = "try again" => answer.couldWork
    BY EndingsHonest
  <2> HIDE DEF answer, none
  <2>5. e \in CallType /\ e.pc = "credit" /\ e.order = call[c].order /\ e.at = call[c].at
        /\ e.in = call[c].in /\ e.out = call[c].out /\ e.answer = answer /\ e.real = call[c].real
    BY <1>1, <2>3 DEF CallType, Pcs
  <2> HIDE DEF e
  <2> QED
    BY <1>3, <1>4, <2>2, <2>4, <2>5
<1>8. CASE \E served \in {FALSE, (c \in Streams)} :
             call' = [call EXCEPT ![c].pc = "credit", ![c].alerts = {}, ![c].served = served]
  <2>1. PICK served \in {FALSE, (c \in Streams)} :
          call' = [call EXCEPT ![c].pc = "credit", ![c].alerts = {}, ![c].served = served]
    BY <1>8
  <2> DEFINE none == {}
             e == [call[c] EXCEPT !.pc = "credit", !.alerts = none, !.served = served]
  <2>2. call' = [call EXCEPT ![c] = e]
    BY <1>1, <2>1 DEF Types
  <2>3. served \in BOOLEAN
    <3> DEFINE streams == c \in Streams
    <3>1. streams \in BOOLEAN
      OBVIOUS
    <3> HIDE DEF streams
    <3>2. \A x \in {FALSE, streams} : x \in BOOLEAN
      BY <3>1
    <3> QED
      BY <3>2 DEF streams
  <2>5. none \in SUBSET Alert
    OBVIOUS
  <2> HIDE DEF none
  <2>4. e \in CallType /\ e.pc = "credit" /\ e.order = call[c].order /\ e.at = call[c].at
        /\ e.in = call[c].in /\ e.out = call[c].out /\ e.answer = call[c].answer
        /\ e.real = call[c].real
    BY <1>1, <2>3, <2>5 DEF CallType, Pcs
  <2> HIDE DEF e
  <2> QED
    BY <1>3, <1>4, <1>5, <2>2, <2>4 DEF Honest
<1> QED
  BY <1>6, <1>7, <1>8 DEF Answer

\* A rollover.  Nobody has updated the row, as the statement took its lock, and no
\* call has stamps of the period that begins: the account of the budget is empty.
LEMMA ResetKeeps == ASSUME IInv, NEW c \in Calls, Reset(c) PROVE IInv'
<1> DEFINE B == Budget(c)
           elapsed == call[c].label[B] < now
           rolls == elapsed /\ StillElapsed(c, B)
           label == [call[c].label EXCEPT ![B] = IF elapsed THEN period'[B] ELSE @]
           pc == IF LastBudget(c) THEN "reserve" ELSE "reset"
           at == IF LastBudget(c) THEN 1 ELSE call[c].at + 1
           e == [call[c] EXCEPT !.label = label, !.pc = pc, !.at = at]
<1>1. Types /\ Good(c) /\ call[c] \in CallType /\ call[c].pc = "reset"
  BY CallTyped DEF IInv, Reset, At
<1>2. /\ now' = now /\ lock' = lock
      /\ rolls => lock[B] \in {Free, c}
      /\ period' = IF rolls THEN [period EXCEPT ![B] = now] ELSE period
      /\ spend' = IF rolls THEN [spend EXCEPT ![B] = 0] ELSE spend
  BY DEF Reset, CanLock
<1>3. call' = [call EXCEPT ![c].label[B] = IF elapsed THEN period'[B] ELSE @,
                           ![c].pc = pc, ![c].at = at]
  BY DEF Reset
<1>4. call' = [call EXCEPT ![c] = e]
  BY <1>1, <1>3 DEF Types
<1>5. /\ Lists(call[c].order, Applies[c]) /\ Len(call[c].order) \in Nat
      /\ call[c].at \in 1 .. Len(call[c].order) /\ B \in Budgets
  BY <1>1, AtBudget DEF Good
<1>6. call[c].label \in Stamp /\ period \in Stamp /\ now \in Nat
      /\ \A b \in Budgets : period[b] \in 1 .. now
  BY <1>1, GatewayAssumption DEF Types, CallType
<1>7. period' \in Stamp /\ \A b \in Budgets : period'[b] \in 1 .. now /\ period'[b] >= period[b]
  <2> HIDE DEF B, rolls
  <2>1. CASE rolls
    <3>1. \A b \in Budgets : period'[b] = IF b = B THEN now ELSE period[b]
      BY <1>2, <1>6, <2>1 DEF Stamp
    <3>2. now \in 1 .. now
      BY <1>5, <1>6
    <3>3. period' \in Stamp
      BY <1>2, <1>6, <2>1 DEF Stamp
    <3> QED
      BY <1>6, <3>1, <3>2, <3>3
  <2>2. CASE ~rolls
    BY <1>2, <1>6, <2>2 DEF Stamp
  <2> QED
    BY <2>1, <2>2
<1>8. label \in Stamp
  <2> DEFINE p == IF elapsed THEN period'[B] ELSE call[c].label[B]
  <2>1. p \in Nat
    BY <1>5, <1>6, <1>7 DEF Stamp
  <2>2. label = [call[c].label EXCEPT ![B] = p]
    OBVIOUS
  <2> HIDE DEF p
  <2> QED
    BY <1>6, <2>1, <2>2 DEF Stamp
<1>9. pc \in Pcs /\ pc \in {"reset", "reserve"} /\ at \in Nat /\ at \in 1 .. Len(call[c].order)
      /\ (pc = "reserve" => at = 1)
  BY <1>5 DEF Pcs, LastBudget
<1> HIDE DEF label, pc, at
<1>10. /\ e \in CallType /\ e.pc = pc /\ e.at = at /\ e.order = call[c].order
       /\ e.in = call[c].in /\ e.out = call[c].out /\ e.real = call[c].real
       /\ e.answer = call[c].answer
  BY <1>1, <1>8, <1>9 DEF CallType
<1> HIDE DEF e
<1>11. call'[c] = e /\ \A d \in Calls \ {c} : call'[d] = call[d]
  BY <1>1, <1>4 DEF Types
<1>12. spend' \in [Budgets -> Int]
  <2> HIDE DEF B, rolls
  <2>1. spend \in [Budgets -> Int] /\ 0 \in Int
    BY <1>1 DEF Types
  <2>2. [spend EXCEPT ![B] = 0] \in [Budgets -> Int]
    BY <2>1
  <2> QED
    BY <1>2, <2>1, <2>2
<1>13. Types'
  BY <1>1, <1>2, <1>4, <1>7, <1>10, <1>12 DEF Types
<1>14. Touched(c) = {} /\ Touched(c)' = {}
  <2>1. ~InTransaction(c)
    BY <1>1 DEF InTransaction, At
  <2>2. ~InTransaction(c)' \/ call'[c].at = 1
    BY <1>9, <1>10, <1>11 DEF InTransaction, At
  <2> QED
    BY <2>1, <2>2, NoneTouched, NoneTouchedNext
<1>15. OnlyBy(c)
  BY <1>2, <1>7, <1>11 DEF OnlyBy
<1>16. Good(c)'
  <2>1. Ordered(c)'
    BY <1>5, <1>9, <1>10, <1>11 DEF Ordered
  <2>2. Holds(c)'
    BY <1>1, <1>2, <1>14 DEF Good, Holds
  <2>3. Honest(c)'
    BY <1>1, <1>10, <1>11 DEF Good, Honest
  <2>4. Stamps(c)'
    <3>1. \A b \in Budgets : call[c].in[b] = 0 /\ call[c].out[b] = 0
      BY <1>1 DEF Good, Stamps
    <3>2. call[c].real = 0
      BY <1>1 DEF Good, Stamps
    <3>3. \A b \in Budgets : period'[b] \in Nat
      BY <1>7 DEF Stamp
    <3> QED
      BY <1>10, <1>11, <3>1, <3>2, <3>3 DEF Stamps
  <2> QED
    BY <2>1, <2>2, <2>3, <2>4 DEF Good
<1>17. \A d \in Calls : call'[d].in = call[d].in /\ call'[d].out = call[d].out
                        /\ call'[d].real = call[d].real /\ Touched(d)' = Touched(d)
  <2>1. ASSUME NEW d \in Calls \ {c} PROVE Touched(d)' = Touched(d)
    BY <1>11 DEF Touched, InTransaction, At
  <2> QED
    BY <1>10, <1>11, <1>14, <2>1
<1>18. \A d \in Calls : \A b \in Touched(d) : Delta(d)' = Delta(d)
  BY <1>11, <1>14 DEF Delta, At
<1>19. ASSUME NEW b \in Budgets, ~(rolls /\ b = B)
       PROVE  spend'[b] = (IF period'[b] = 1 THEN Spent[b] ELSE 0)
                          + SumFunction([d \in Calls |-> Part(d, b)'])
  <2>1. period'[b] = period[b] /\ spend'[b] = spend[b]
    <3> HIDE DEF rolls, B
    <3> QED
      BY <1>1, <1>2, <1>19 DEF Types, Stamp
  <2>2. \A d \in Calls : Part(d, b)' = Part(d, b)
    BY <1>17, <1>18, <2>1 DEF Part
  <2>3. [d \in Calls |-> Part(d, b)'] = [d \in Calls |-> Part(d, b)]
    BY <2>2
  <2> QED
    BY <2>1, <2>3 DEF IInv, SpendIsAccounted
<1>20. ASSUME NEW b \in Budgets, rolls, b = B
       PROVE  spend'[b] = (IF period'[b] = 1 THEN Spent[b] ELSE 0)
                          + SumFunction([d \in Calls |-> Part(d, b)'])
  <2> DEFINE f == [d \in Calls |-> Part(d, b)']
  <2>1. period[b] < now /\ lock[b] \in {Free, c}
    BY <1>2, <1>20 DEF StillElapsed
  <2>2. period'[b] = now /\ spend'[b] = 0 /\ period'[b] # 1
    <3>1. period[b] \in 1 .. now
      BY <1>6
    <3>2. period'[b] = now /\ spend'[b] = 0
      <4> HIDE DEF rolls, B
      <4> QED
        BY <1>1, <1>2, <1>20 DEF Types, Stamp
    <3> QED
      BY <1>6, <2>1, <3>1, <3>2
  <2>3. ASSUME NEW d \in Calls PROVE Part(d, b)' = 0
    <3>1. Good(d)
      BY DEF IInv
    <3>2. call[d].in[b] # now /\ call[d].out[b] # now
      <4>1. call[d].in[b] <= period[b] /\ call[d].out[b] <= period[b]
        BY <3>1 DEF Good, Stamps
      <4>2. call[d].in[b] \in Nat /\ call[d].out[b] \in Nat /\ period[b] \in Nat
        BY <1>1 DEF Types, CallType, Stamp
      <4> QED
        BY <1>6, <2>1, <4>1, <4>2
    <3>3. b \notin Touched(d)
      <4>1. CASE d = c
        BY <1>14, <4>1
      <4>2. CASE d # c
        BY <2>1, <3>1, <4>2, GatewayAssumption DEF Good, Holds
      <4> QED
        BY <4>1, <4>2
    <3> QED
      BY <1>17, <2>2, <3>2, <3>3 DEF Part
  <2>4. \A d \in Calls : f[d] = 0
    BY <2>3
  <2>5. SumFunction(f) = SumFunctionOnSet(f, Calls)
    BY DEF SumFunction
  <2> HIDE DEF f
  <2>6. SumFunction(f) = 0
    BY <2>4, <2>5, SumOfZeros, GatewayAssumption
  <2> QED
    BY <2>2, <2>6 DEF f
<1>21. SpendIsAccounted'
  BY <1>19, <1>20 DEF SpendIsAccounted
<1> QED
  BY <1>13, <1>15, <1>16, <1>21, Keeps

\* What a call is alerted of.
LEMMA AlertsTyped ==
  ASSUME Types, NEW c \in Calls, NEW b \in Budgets, NEW X, X \subseteq {"threshold", "exhausted"}
  PROVE  Alerts(c, b, X) \in SUBSET Alert
<1>1. call[c].label[b] \in Nat
  BY DEF Types, CallType, Stamp
<1> DEFINE n == call[c].label[b]
<1> HIDE DEF n
<1>2. \A x \in X : <<b, n, x>> \in Alert
  BY <1>1 DEF Alert, n
<1>3. Alerts(c, b, X) = {<<b, n, x>> : x \in X}
  BY DEF Alerts, n
<1> QED
  BY <1>2, <1>3

LEMMA CrossingsTyped ==
  \A b, delta : Crossings(b, delta) \subseteq {"threshold", "exhausted"}
BY DEF Crossings

LEMMA StampedTyped ==
  ASSUME Types, NEW c \in Calls, NEW stamps \in Stamp
  PROVE  /\ Stamped(c, stamps) \in Stamp
         /\ \A b \in Budgets : Stamped(c, stamps)[b]
                                 = IF b \in Applies[c] THEN period[b] ELSE stamps[b]
<1>1. \A b \in Budgets : (IF b \in Applies[c] THEN period[b] ELSE stamps[b]) \in Nat
  BY DEF Types, Stamp
<1> QED
  BY <1>1 DEF Stamped, Stamp

LEMMA ReserveKeeps == ASSUME IInv, NEW c \in Calls, Reserve(c) PROVE IInv'
<1> DEFINE B == Budget(c)
           alerts == call[c].alerts \cup Alerts(c, B, Crossings(B, Estimate))
           in == Stamped(c, call[c].in)
           at == call[c].at + 1
           updated == [call[c] EXCEPT !.alerts = alerts]
<1>1. Types /\ Good(c) /\ call[c] \in CallType /\ call[c].pc = "reserve"
  BY CallTyped DEF IInv, Reserve, At
<1>2. Update(c, B) /\ call' = [call EXCEPT ![c] = Reserved(c, B)]
  BY DEF Reserve
<1>3. InTransaction(c) /\ Delta(c) = Estimate
  BY <1>1 DEF InTransaction, At, Delta
<1>4. /\ Lists(call[c].order, Applies[c]) /\ Len(call[c].order) \in Nat
      /\ call[c].at \in 1 .. Len(call[c].order) /\ B \in Budgets
  BY <1>1, AtBudget DEF Good
<1>5. alerts \in SUBSET Alert
  <2>1. call[c].alerts \in SUBSET Alert
    BY <1>1 DEF CallType
  <2>2. Alerts(c, B, Crossings(B, Estimate)) \in SUBSET Alert
    BY <1>1, <1>4, AlertsTyped, CrossingsTyped
  <2> QED
    BY <2>1, <2>2
<1>6. in \in Stamp /\ \A b \in Budgets : in[b] = IF b \in Applies[c] THEN period[b] ELSE call[c].in[b]
  <2>1. call[c].in \in Stamp
    BY <1>1 DEF CallType
  <2> QED
    BY <1>1, <2>1, StampedTyped
<1>7. at \in Nat
  BY <1>4
<1>8. Reserved(c, B) = IF LastBudget(c) THEN [updated EXCEPT !.in = in, !.pc = "chain", !.at = 1]
                       ELSE [updated EXCEPT !.at = at]
  <2>1. updated.in = call[c].in /\ updated.at = call[c].at
    BY <1>1, <1>5 DEF CallType
  <2> QED
    BY <2>1 DEF Reserved
<1> HIDE DEF alerts, in, at, B
<1>9. /\ updated \in CallType /\ updated.pc = call[c].pc /\ updated.order = call[c].order
      /\ updated.at = call[c].at /\ updated.in = call[c].in /\ updated.out = call[c].out
      /\ updated.real = call[c].real /\ updated.answer = call[c].answer
  BY <1>1, <1>5 DEF CallType
<1> HIDE DEF updated
<1>10. CASE ~LastBudget(c)
  <2> DEFINE e == [updated EXCEPT !.at = at]
  <2>1. /\ e \in CallType /\ e.pc = call[c].pc /\ e.order = call[c].order
        /\ e.at = at /\ e.in = call[c].in /\ e.out = call[c].out
        /\ e.real = call[c].real /\ e.answer = call[c].answer
    BY <1>7, <1>9 DEF CallType
  <2>2. call' = [call EXCEPT ![c] = e]
    BY <1>2, <1>8, <1>10
  <2> HIDE DEF e
  <2> QED
    BY <1>2, <1>3, <1>10, <2>1, <2>2, GoesOnKeeps DEF at, B
<1>11. CASE LastBudget(c)
  <2> DEFINE e == [updated EXCEPT !.in = in, !.pc = "chain", !.at = 1]
  <2>1. /\ e \in CallType /\ e.pc = "chain" /\ e.order = call[c].order
        /\ e.at = 1 /\ e.in = in /\ e.out = call[c].out
        /\ e.real = call[c].real /\ e.answer = call[c].answer
    BY <1>6, <1>9 DEF CallType, Pcs
  <2>2. call' = [call EXCEPT ![c] = e]
    BY <1>2, <1>8, <1>11
  <2> HIDE DEF e
  <2>3. call'[c] = e /\ period' = period
    BY <1>1, <1>2, <2>2 DEF Types, Update
  <2>4. ~InTransaction(c)'
    BY <2>1, <2>3 DEF InTransaction, At
  <2>5. Ordered(c)'
    <3>1. 1 \in 1 .. Len(call[c].order)
      BY <1>4
    <3> QED
      BY <1>4, <2>1, <2>3, <3>1 DEF Ordered
  <2>6. call[c].real = 0 /\ \A b \in Budgets : call[c].in[b] = 0 /\ call[c].out[b] = 0
                                               /\ period[b] \in Nat \ {0}
    BY <1>1 DEF Good, Stamps, Types
  <2>7. Stamps(c)'
    <3>1. \A b \in Budgets : e.in[b] <= period[b] /\ e.out[b] <= period[b]
      BY <1>6, <2>1, <2>6
    <3> QED
      BY <2>1, <2>3, <2>6, <3>1 DEF Stamps
  <2>8. Honest(c)'
    BY <1>1, <2>1, <2>3 DEF Good, Honest
  <2>9. ASSUME NEW b \in Budgets
        PROVE  Part(c, b)' = (IF call[c].in[b] = period[b] THEN Estimate ELSE 0)
                             + (IF b \in Applies[c] THEN Delta(c) ELSE 0)
    <3>1. Touched(c)' = {}
      BY <2>4, NoneTouchedNext
    <3>2. /\ (e.in[b] = period[b]) <=> b \in Applies[c]
          /\ call[c].in[b] # period[b] /\ e.out[b] # period[b]
      BY <1>6, <2>1, <2>6
    <3>3. Estimate \in Int
      BY GatewayAssumption
    <3>4. Part(c, b)' = (IF b \in Applies[c] THEN Estimate ELSE 0) + 0 + 0
      BY <2>3, <3>1, <3>2 DEF Part
    <3> QED
      BY <1>3, <3>2, <3>3, <3>4
  <2> QED
    BY <1>2, <1>3, <1>11, <2>1, <2>2, <2>4, <2>5, <2>7, <2>8, <2>9, CommitKeeps DEF B
<1> QED
  BY <1>10, <1>11

LEMMA SettleKeeps == ASSUME IInv, NEW c \in Calls, Settle(c) PROVE IInv'
<1> DEFINE B == Budget(c)
           alerts == call[c].alerts \cup Alerts(c, B, Crossings(B, Delta(c)))
           out == Stamped(c, call[c].out)
           at == call[c].at + 1
           none == << >>
           answer == NoAnswer
           on == [call[c] EXCEPT !.at = at, !.alerts = alerts]
           settled == [call[c] EXCEPT !.out = out, !.answer = answer, !.order = none,
                                      !.at = 1, !.pc = "notify", !.alerts = alerts]
<1>1. Types /\ Good(c) /\ call[c] \in CallType /\ call[c].pc \in {"settle", "credit"}
  BY CallTyped DEF IInv, Settle, At
<1>2. Update(c, B) /\ call' = [call EXCEPT ![c] = Settled(c, B)]
  BY DEF Settle
<1>3. InTransaction(c) /\ Delta(c) = call[c].real - Estimate
  <2>1. call[c].pc = "credit" => call[c].real = 0
    BY <1>1 DEF Good, Stamps
  <2> QED
    BY <1>1, <2>1 DEF InTransaction, At, Delta
<1>4. /\ Lists(call[c].order, Applies[c]) /\ Len(call[c].order) \in Nat
      /\ call[c].at \in 1 .. Len(call[c].order) /\ B \in Budgets
  BY <1>1, AtBudget DEF Good
<1>5. alerts \in SUBSET Alert
  <2>1. call[c].alerts \in SUBSET Alert
    BY <1>1 DEF CallType
  <2>2. Alerts(c, B, Crossings(B, Delta(c))) \in SUBSET Alert
    BY <1>1, <1>4, AlertsTyped, CrossingsTyped
  <2> QED
    BY <2>1, <2>2
<1>6. /\ out \in Stamp
      /\ \A b \in Budgets : out[b] = IF b \in Applies[c] THEN period[b] ELSE call[c].out[b]
  <2>1. call[c].out \in Stamp
    BY <1>1 DEF CallType
  <2> QED
    BY <1>1, <2>1, StampedTyped
<1>7. at \in Nat /\ answer \in AnswerType /\ none \in Seq(Budgets)
  BY <1>4 DEF NoAnswer, AnswerType
<1>8. Settled(c, B) = IF ~LastBudget(c) THEN on
                      ELSE IF alerts = {} THEN Done(settled) ELSE settled
  BY DEF Settled
<1> HIDE DEF alerts, out, at, B, none, answer
<1>9. CASE ~LastBudget(c)
  <2>1. /\ on \in CallType /\ on.pc = call[c].pc /\ on.order = call[c].order
        /\ on.at = at /\ on.in = call[c].in /\ on.out = call[c].out
        /\ on.real = call[c].real /\ on.answer = call[c].answer
    BY <1>1, <1>5, <1>7 DEF CallType
  <2>2. call' = [call EXCEPT ![c] = on]
    BY <1>2, <1>8, <1>9
  <2> HIDE DEF on
  <2> QED
    BY <1>2, <1>3, <1>9, <2>1, <2>2, GoesOnKeeps DEF at, B
<1>10. CASE LastBudget(c)
  <2> DEFINE e == Settled(c, B)
  <2>1. /\ settled \in CallType /\ settled.pc = "notify" /\ settled.out = out
        /\ settled.in = call[c].in /\ settled.real = call[c].real /\ settled.answer = answer
    BY <1>1, <1>5, <1>6, <1>7 DEF CallType, Pcs
  <2> HIDE DEF settled
  <2>2. /\ e \in CallType /\ e.pc \in {"notify", "done"} /\ e.out = out
        /\ e.in = call[c].in /\ e.real = call[c].real /\ e.answer = NoAnswer
    BY <1>8, <1>10, <2>1, DoneIs DEF answer
  <2>3. call' = [call EXCEPT ![c] = e]
    BY <1>2
  <2> HIDE DEF e
  <2>4. call'[c] = e /\ period' = period
    BY <1>1, <1>2, <2>3 DEF Types, Update
  <2>5. ~InTransaction(c)' /\ Ordered(c)'
    BY <2>2, <2>4 DEF InTransaction, At, Ordered
  <2>6. \A b \in Budgets : call[c].out[b] = 0 /\ period[b] \in Nat \ {0}
                           /\ call[c].in[b] <= period[b]
    BY <1>1 DEF Good, Stamps, Types
  <2>7. Stamps(c)'
    <3>1. \A b \in Budgets : e.in[b] <= period[b] /\ e.out[b] <= period[b]
      BY <1>6, <2>2, <2>6
    <3> QED
      BY <2>2, <2>4, <3>1 DEF Stamps
  <2>8. Honest(c)'
    <3>1. call'[c].answer.told = "none"
      BY <2>2, <2>4 DEF NoAnswer
    <3> QED
      BY <3>1 DEF Honest
  <2>9. ASSUME NEW b \in Budgets
        PROVE  Part(c, b)' = (IF call[c].in[b] = period[b] THEN Estimate ELSE 0)
                             + (IF b \in Applies[c] THEN Delta(c) ELSE 0)
    <3>1. Touched(c)' = {}
      BY <2>5, NoneTouchedNext
    <3>2. (e.out[b] = period[b]) <=> b \in Applies[c]
      BY <1>6, <2>2, <2>6
    <3>3. Estimate \in Int /\ call[c].real \in Int
      BY <1>1, GatewayAssumption DEF CallType
    <3>4. Part(c, b)' = (IF call[c].in[b] = period[b] THEN Estimate ELSE 0)
                        + (IF b \in Applies[c] THEN call[c].real - Estimate ELSE 0) + 0
      BY <2>2, <2>4, <3>1, <3>2 DEF Part
    <3> QED
      BY <1>3, <3>3, <3>4
  <2> QED
    BY <1>2, <1>3, <1>10, <2>2, <2>3, <2>5, <2>7, <2>8, <2>9, CommitKeeps DEF B
<1> QED
  BY <1>9, <1>10

LEMMA ExceededKeeps == ASSUME IInv, NEW c \in Calls, Exceeded(c) PROVE IInv'
<1> DEFINE alerts == Alerts(c, Budget(c), {"exhausted"})
           none == << >>
           e == [call[c] EXCEPT !.pc = "notify", !.order = none, !.at = 1, !.alerts = alerts]
<1>1. Types /\ Good(c) /\ call[c] \in CallType /\ call[c].pc = "reserve"
  BY CallTyped DEF IInv, Exceeded, At
<1>2. Rollback(c, e)
  BY DEF Exceeded
<1>3. alerts \in SUBSET Alert /\ none \in Seq(Budgets)
  <2>1. Budget(c) \in Budgets
    BY <1>1, AtBudget DEF Good
  <2> QED
    BY <1>1, <2>1, AlertsTyped
<1> HIDE DEF alerts, none
<1>4. /\ e \in CallType /\ e.pc = "notify" /\ e.at = 1 /\ e.in = call[c].in
      /\ e.out = call[c].out /\ e.real = call[c].real /\ e.answer = call[c].answer
  BY <1>1, <1>3 DEF CallType, Pcs
<1> HIDE DEF e
<1>5. call'[c] = e /\ period' = period
  BY <1>1, <1>2 DEF Types, Rollback
<1>6. Ordered(c)' /\ Stamps(c)' /\ Honest(c)' /\ ~InTransaction(c)'
  <2>1. Ordered(c)' /\ ~InTransaction(c)'
    BY <1>4, <1>5 DEF Ordered, InTransaction, At
  <2>2. Stamps(c)'
    BY <1>1, <1>4, <1>5 DEF Good, Stamps
  <2>3. Honest(c)'
    BY <1>1, <1>4, <1>5 DEF Good, Honest
  <2> QED
    BY <2>1, <2>2, <2>3
<1> QED
  BY <1>2, <1>4, <1>6, RollbackKeeps

\* A call that is cut off for good.
LEMMA CutKeeps ==
  ASSUME IInv, NEW c \in Calls, Rollback(c, Done([call[c] EXCEPT !.cut = TRUE]))
  PROVE  IInv'
<1> DEFINE cut == [call[c] EXCEPT !.cut = TRUE]
           e == Done(cut)
<1>1. Types /\ Good(c) /\ call[c] \in CallType
  BY CallTyped DEF IInv
<1>2. cut \in CallType /\ cut.in = call[c].in /\ cut.out = call[c].out /\ cut.real = call[c].real
  BY <1>1 DEF CallType
<1>3. Rollback(c, e)
  OBVIOUS
<1> HIDE DEF cut
<1>4. /\ e \in CallType /\ e.pc = "done" /\ e.at = 1 /\ e.answer = NoAnswer
      /\ e.in = call[c].in /\ e.out = call[c].out /\ e.real = call[c].real
  BY <1>2, DoneIs
<1> HIDE DEF e
<1>5. call'[c] = e /\ period' = period
  BY <1>1, <1>3 DEF Types, Rollback
<1>6. Ordered(c)' /\ Stamps(c)' /\ Honest(c)' /\ ~InTransaction(c)'
  <2>1. Ordered(c)' /\ ~InTransaction(c)'
    BY <1>4, <1>5 DEF Ordered, InTransaction, At
  <2>2. Stamps(c)'
    BY <1>1, <1>4, <1>5 DEF Good, Stamps
  <2>3. call'[c].answer.told = "none"
    BY <1>4, <1>5 DEF NoAnswer
  <2>4. Honest(c)'
    BY <2>3 DEF Honest
  <2> QED
    BY <2>1, <2>2, <2>4
<1> QED
  BY <1>3, <1>4, <1>6, RollbackKeeps

LEMMA TxFailsKeeps == ASSUME IInv, NEW c \in Calls, TxFails(c) PROVE IInv'
<1>1. Types /\ Good(c) /\ call[c] \in CallType /\ InTransaction(c)
  BY CallTyped DEF IInv, TxFails
<1>2. CASE MayCreditBack(c)
  <2> DEFINE none == {}
             e == [call[c] EXCEPT !.pc = "credit", !.at = 1, !.alerts = none, !.real = 0, !.cut = TRUE]
  <2>1. Rollback(c, e)
    BY <1>2 DEF TxFails
  <2>2. call[c].pc \in {"settle", "credit"}
    BY <1>1, <1>2 DEF InTransaction, MayCreditBack, At
  <2>3. none \in SUBSET Alert
    OBVIOUS
  <2> HIDE DEF none
  <2>4. /\ e \in CallType /\ e.pc = "credit" /\ e.at = 1 /\ e.in = call[c].in
        /\ e.out = call[c].out /\ e.real = 0 /\ e.answer = call[c].answer
        /\ e.order = call[c].order
    BY <1>1, <2>3 DEF CallType, Pcs
  <2> HIDE DEF e
  <2>5. call'[c] = e /\ period' = period
    BY <1>1, <2>1 DEF Types, Rollback
  <2>6. \A b \in Budgets : call[c].out[b] = 0
    BY <1>1, <2>2 DEF Good, Stamps
  <2>7. Ordered(c)'
    <3>1. Lists(call[c].order, Applies[c]) /\ 1 \in 1 .. Len(call[c].order)
      BY <1>1, <2>2, AtBudget DEF Good
    <3> QED
      BY <2>4, <2>5, <3>1 DEF Ordered
  <2>8. Stamps(c)'
    BY <1>1, <2>4, <2>5, <2>6 DEF Good, Stamps
  <2>9. Honest(c)'
    BY <1>1, <2>4, <2>5 DEF Good, Honest
  <2> QED
    BY <2>1, <2>4, <2>6, <2>7, <2>8, <2>9, RollbackKeeps
<1>3. CASE ~MayCreditBack(c)
  BY <1>3, CutKeeps DEF TxFails
<1> QED
  BY <1>2, <1>3

LEMMA DiesKeeps == ASSUME IInv, NEW c \in Calls, Dies(c) PROVE IInv'
BY CutKeeps DEF Dies

LEMMA StutterKeeps == ASSUME IInv, UNCHANGED vars PROVE IInv'
<1>1. \A d \in Calls : /\ Touched(d)' = Touched(d) /\ Ordered(d)' = Ordered(d)
                       /\ Stamps(d)' = Stamps(d) /\ Honest(d)' = Honest(d)
  BY DEF vars, Touched, InTransaction, At, Ordered, Stamps, Honest
<1>2. \A d \in Calls : Holds(d)' = Holds(d)
  BY <1>1 DEF vars, Holds
<1>3. \A d \in Calls : Good(d)'
  BY <1>1, <1>2 DEF IInv, Good
<1>4. \A d \in Calls, b \in Budgets : Part(d, b)' = Part(d, b)
  BY SamePart DEF vars
<1>5. SpendIsAccounted'
  <2>1. \A b \in Budgets : [d \in Calls |-> Part(d, b)'] = [d \in Calls |-> Part(d, b)]
    BY <1>4
  <2> QED
    BY <2>1 DEF IInv, SpendIsAccounted, vars
<1>6. Types'
  BY DEF IInv, Types, vars
<1> QED
  BY <1>3, <1>5, <1>6 DEF IInv

LEMMA InitIInv == ASSUME Init PROVE IInv
<1> DEFINE zeros == [b \in Budgets |-> 0]
           none == << >>
           answer == NoAnswer
           alerts == {}
<1>1. zeros \in Stamp /\ none \in Seq(Budgets) /\ answer \in AnswerType /\ alerts \in SUBSET Alert
  BY DEF Stamp, NoAnswer, AnswerType
<1>2. New = [pc |-> "new", order |-> none, at |-> 1, answer |-> answer, real |-> 0,
             served |-> FALSE, cut |-> FALSE, alerts |-> alerts,
             label |-> zeros, in |-> zeros, out |-> zeros]
  BY DEF New
<1>3. \A b \in Budgets : zeros[b] = 0
  OBVIOUS
<1>4. answer.told = "none"
  BY DEF NoAnswer
<1> HIDE DEF zeros, none, answer, alerts
<1>5. New \in CallType /\ New.pc = "new" /\ New.at = 1 /\ New.in = zeros /\ New.out = zeros
      /\ New.real = 0 /\ New.answer = answer
  BY <1>1, <1>2 DEF CallType, Pcs
<1>6. \A d \in Calls : call[d] = New
  BY DEF Init
<1>7. \A b \in Budgets : period[b] = 1
  BY DEF Init
<1>8. Types
  <2>1. now \in 1 .. Periods
    BY GatewayAssumption DEF Init
  <2>2. period \in Stamp /\ \A b \in Budgets : period[b] \in 1 .. now
    BY DEF Init, Stamp
  <2>3. spend \in [Budgets -> Int]
    BY GatewayAssumption DEF Init
  <2>4. lock \in [Budgets -> Calls \cup {Free}]
    BY DEF Init
  <2>5. call \in [Calls -> CallType]
    BY <1>5 DEF Init
  <2> QED
    BY <2>1, <2>2, <2>3, <2>4, <2>5 DEF Types
<1>9. \A d \in Calls : Touched(d) = {}
  BY <1>5, <1>6, NoneTouched
<1>10. ASSUME NEW d \in Calls PROVE Good(d)
  <2>1. Ordered(d)
    BY <1>5, <1>6 DEF Ordered
  <2>2. Holds(d)
    BY <1>9, GatewayAssumption DEF Holds, Init
  <2>3. Stamps(d)
    BY <1>3, <1>5, <1>6, <1>7 DEF Stamps
  <2>4. Honest(d)
    BY <1>4, <1>5, <1>6 DEF Honest
  <2> QED
    BY <2>1, <2>2, <2>3, <2>4 DEF Good
<1>11. SpendIsAccounted
  <2>1. SUFFICES ASSUME NEW b \in Budgets
                 PROVE  spend[b] = (IF period[b] = 1 THEN Spent[b] ELSE 0)
                                   + SumFunction([d \in Calls |-> Part(d, b)])
    BY DEF SpendIsAccounted
  <2> DEFINE f == [d \in Calls |-> Part(d, b)]
  <2>2. \A d \in Calls : Part(d, b) = 0
    BY <1>3, <1>5, <1>6, <1>7, <1>9 DEF Part
  <2>3. \A d \in Calls : f[d] = 0
    BY <2>2
  <2>4. SumFunction(f) = SumFunctionOnSet(f, Calls)
    BY DEF SumFunction
  <2> HIDE DEF f
  <2>5. SumFunction(f) = 0
    BY <2>3, <2>4, SumOfZeros, GatewayAssumption
  <2>6. spend[b] = Spent[b] /\ Spent[b] \in Int
    BY GatewayAssumption DEF Init
  <2> QED
    BY <1>7, <2>5, <2>6 DEF f
<1> QED
  BY <1>8, <1>10, <1>11 DEF IInv

LEMMA NextIInv == ASSUME IInv, [Next]_vars PROVE IInv'
<1>1. CASE Tick
  BY <1>1, TickKeeps
<1>2. ASSUME NEW c \in Calls, Read(c) \/ Step(c) \/ TxFails(c) \/ Dies(c) PROVE IInv'
  <2>1. CASE Read(c)
    BY <2>1, ReadKeeps
  <2>2. CASE Reset(c)
    BY <2>2, ResetKeeps
  <2>3. CASE Reserve(c)
    BY <2>3, ReserveKeeps
  <2>4. CASE Exceeded(c)
    BY <2>4, ExceededKeeps
  <2>5. CASE Answer(c)
    BY <2>5, AnswerKeeps
  <2>6. CASE Settle(c)
    BY <2>6, SettleKeeps
  <2>7. CASE Notify(c)
    BY <2>7, NotifyKeeps
  <2>8. CASE TxFails(c)
    BY <2>8, TxFailsKeeps
  <2>9. CASE Dies(c)
    BY <2>9, DiesKeeps
  <2> QED
    BY <1>2, <2>1, <2>2, <2>3, <2>4, <2>5, <2>6, <2>7, <2>8, <2>9 DEF Step
<1>3. CASE UNCHANGED vars
  BY <1>3, StutterKeeps
<1> QED
  BY <1>1, <1>2, <1>3 DEF Next

LEMMA InvariantHolds == Spec => []IInv
<1>1. Init => IInv
  BY InitIInv
<1>2. IInv /\ [Next]_vars => IInv'
  BY NextIInv
<1> QED
  BY <1>1, <1>2, PTL DEF Spec

-----------------------------------------------------------------------------
(***************************************************************************)
(* Alerts.  What a budget has committed passes its line in a transaction   *)
(* that saw it pass, and whose call carries the alert from then on, until  *)
(* it is sent or the call turns out to be one that may lose it.            *)
(***************************************************************************)

Warning(b) == <<b, period[b], "threshold">>

\* What is spent of a budget, without what an open transaction adds.
Base(b) == spend[b] - (IF lock[b] = Free THEN 0 ELSE Delta(lock[b]))

\* A call that has lost no alert on a budget so far.
Fair(c, b) ==
  call[c].in[b] # 0 =>
    /\ ~call[c].cut /\ ~At(c, "credit")
    /\ call[c].in[b] = call[c].label[b]
    /\ call[c].out[b] # 0 => call[c].out[b] = call[c].in[b]
    /\ call[c].pc \in {"notify", "done"} => call[c].out[b] # 0 /\ call[c].real > 0

\* It has an alert on it to send.
Carries(c, b) ==
  /\ call[c].in[b] = period[b] /\ call[c].pc \in {"chain", "settle", "notify"}
  /\ Warning(b) \in call[c].alerts

Warned(b) == Warning(b) \in mails \/ \E c \in Calls : Carries(c, b)

Regular(b) == Limit[b] > 0 /\ (period[b] = 1 => ~PastLine(b, Spent[b]))

AlertsKept ==
  \A b \in Budgets :
    Regular(b) /\ (\A c \in Calls : Fair(c, b)) /\ PastLine(b, Base(b)) => Warned(b)

\* An open transaction has noticed the lines it crosses.
Noticed(c) ==
  \A b \in Touched(c) :
    Limit[b] > 0 /\ PastLine(b, spend[b]) /\ ~PastLine(b, spend[b] - Delta(c)) =>
      <<b, call[c].label[b], "threshold">> \in call[c].alerts

\* It has reserved on all its budgets before it settles.
StampedIn(c) ==
  call[c].pc \in {"chain", "settle", "credit"} => \A b \in Applies[c] : call[c].in[b] # 0

AInv == AlertsKept /\ \A c \in Calls : Noticed(c) /\ StampedIn(c)

\* What a step does to the rows of others, and what it owes to the alerts of a budget:
\* nothing if the budget is below its line, or else the call stays fair only if it
\* was, and carries what it carried and what it has made pass.
OnlyTouches(c) ==
  /\ \A d \in Calls \ {c} : call'[d] = call[d]
  /\ mails \subseteq mails'
  /\ \A b \in Budgets : lock[b] \notin {Free, c} => spend'[b] = spend[b] /\ lock'[b] = lock[b]

Owed(c, b) ==
  \/ ~(Regular(b)' /\ PastLine(b, Base(b))')
  \/ /\ period'[b] = period[b]
     /\ Fair(c, b)' => Fair(c, b)
     /\ Carries(c, b) /\ Fair(c, b)' => Carries(c, b)' \/ Warning(b)' \in mails'
     /\ Regular(b) /\ Fair(c, b)' /\ PastLine(b, Base(b))' /\ ~PastLine(b, Base(b)) =>
          Carries(c, b)'

LEMMA AlertsStep ==
  ASSUME IInv, IInv', AInv, NEW c \in Calls, OnlyTouches(c), Noticed(c)', StampedIn(c)',
         \A b \in Budgets : Owed(c, b)
  PROVE  AInv'
<1>1. ASSUME NEW d \in Calls \ {c} PROVE Noticed(d)' /\ StampedIn(d)'
  <2>1. call'[d] = call[d]
    BY DEF OnlyTouches
  <2>2. Touched(d)' = Touched(d) /\ Delta(d)' = Delta(d)
    BY <2>1 DEF Touched, Delta, InTransaction, At
  <2>3. \A b \in Touched(d) : spend'[b] = spend[b]
    <3>1. Touched(d) \subseteq Budgets
      <4>1. Types /\ Ordered(d) /\ Applies[d] \subseteq Budgets
        BY GatewayAssumption DEF IInv, Good
      <4>2. CASE InTransaction(d)
        BY <4>1, <4>2, TouchedIs
      <4>3. CASE ~InTransaction(d)
        BY <4>3 DEF Touched
      <4> QED
        BY <4>1, <4>2, <4>3
    <3>2. \A b \in Touched(d) : lock[b] = d
      BY <3>1 DEF IInv, Good, Holds
    <3> QED
      BY <3>1, <3>2, GatewayAssumption DEF OnlyTouches
  <2>4. Noticed(d) /\ StampedIn(d)
    BY DEF AInv
  <2>5. Noticed(d)'
    BY <2>1, <2>2, <2>3, <2>4 DEF Noticed, PastLine
  <2> QED
    BY <2>1, <2>4, <2>5 DEF StampedIn
<1>2. ASSUME NEW b \in Budgets, Regular(b)', \A d \in Calls : Fair(d, b)', PastLine(b, Base(b))'
      PROVE  Warned(b)'
  <2>1. /\ period'[b] = period[b] /\ Fair(c, b)
        /\ Carries(c, b) => Carries(c, b)' \/ Warning(b)' \in mails'
        /\ Regular(b) /\ ~PastLine(b, Base(b)) => Carries(c, b)'
    BY <1>2 DEF Owed
  <2>2. Regular(b) /\ Warning(b)' = Warning(b)
    BY <1>2, <2>1 DEF Regular, Warning, PastLine
  <2>3. ASSUME NEW d \in Calls \ {c} PROVE Fair(d, b)' = Fair(d, b) /\ Carries(d, b)' = Carries(d, b)
    <3>1. call'[d] = call[d]
      BY DEF OnlyTouches
    <3> QED
      BY <2>1, <2>2, <3>1 DEF Fair, Carries, At
  <2>4. \A d \in Calls : Fair(d, b)
    BY <1>2, <2>1, <2>3
  <2>5. CASE PastLine(b, Base(b))
    <3>1. Warned(b)
      BY <2>2, <2>4, <2>5 DEF AInv, AlertsKept
    <3>2. CASE Warning(b) \in mails
      BY <2>2, <3>2 DEF Warned, OnlyTouches
    <3>3. CASE \E d \in Calls : Carries(d, b)
      BY <2>1, <2>3, <3>3 DEF Warned
    <3> QED
      BY <3>1, <3>2, <3>3 DEF Warned
  <2>6. CASE ~PastLine(b, Base(b))
    BY <2>1, <2>2, <2>6 DEF Warned
  <2> QED
    BY <2>5, <2>6
<1>3. AlertsKept'
  BY <1>2 DEF AlertsKept
<1> QED
  BY <1>1, <1>3 DEF AInv

\* What is committed of a budget.
LEMMA BaseIs ==
  ASSUME IInv, NEW b \in Budgets
  PROVE  /\ Base(b) \in Int /\ spend[b] \in Int
         /\ lock[b] = Free => Base(b) = spend[b]
         /\ \A c \in Calls : b \in Touched(c) => lock[b] = c /\ Base(b) = spend[b] - Delta(c)
<1>1. Types /\ spend[b] \in Int /\ lock[b] \in Calls \cup {Free}
  BY DEF IInv, Types
<1>2. \A c \in Calls : Delta(c) \in Int /\ c # Free /\ (b \in Touched(c) <=> lock[b] = c)
  BY <1>1, PartType, GatewayAssumption DEF IInv, Good, Holds
<1>3. lock[b] = Free => Base(b) = spend[b] - 0
  BY DEF Base
<1>4. \A c \in Calls : lock[b] = c => Base(b) = spend[b] - Delta(c)
  BY <1>2 DEF Base
<1> QED
  BY <1>1, <1>2, <1>3, <1>4

LEMMA BaseIsNext ==
  ASSUME IInv', NEW b \in Budgets
  PROVE  /\ lock'[b] = Free => Base(b)' = spend'[b]
         /\ \A c \in Calls : b \in Touched(c)' => lock'[b] = c /\ Base(b)' = spend'[b] - Delta(c)'
<1>1. Types' /\ spend'[b] \in Int /\ lock'[b] \in Calls \cup {Free}
  BY DEF IInv, Types
<1>2. \A c \in Calls : c # Free /\ (b \in Touched(c)' <=> lock'[b] = c)
  BY <1>1, GatewayAssumption DEF IInv, Good, Holds
<1>3. lock'[b] = Free => Base(b)' = spend'[b] - 0
  BY DEF Base
<1>4. \A c \in Calls : lock'[b] = c => Base(b)' = spend'[b] - Delta(c)'
  BY <1>2 DEF Base
<1> QED
  BY <1>1, <1>2, <1>3, <1>4

\* A row that another call holds.
LEMMA BaseOthers ==
  ASSUME IInv, NEW c \in Calls, OnlyTouches(c), NEW b \in Budgets, lock[b] \notin {Free, c}
  PROVE  Base(b)' = Base(b)
<1>1. lock[b] \in Calls \ {c} /\ lock'[b] = lock[b] /\ spend'[b] = spend[b]
  BY DEF IInv, Types, OnlyTouches
<1>2. call'[lock[b]] = call[lock[b]]
  BY <1>1 DEF OnlyTouches
<1>3. Delta(lock[b])' = Delta(lock[b])
  <2> DEFINE d == lock[b]
  <2>1. d' = d
    BY <1>1
  <2>2. call'[lock'[b]] = call[lock[b]]
    BY <1>1, <1>2
  <2> QED
    BY <2>2 DEF Delta, At
<1> QED
  BY <1>1, <1>3 DEF Base

\* Nothing is committed, and the call stays fair only if it was, and carries what it
\* carried.
LEMMA SteadyAlerts ==
  ASSUME IInv, IInv', AInv, NEW c \in Calls, OnlyTouches(c), Noticed(c)', StampedIn(c)',
         period' = period,
         \A b \in Budgets : lock[b] \in {Free, c} => Base(b)' = Base(b),
         \A b \in Budgets : Fair(c, b)' =>
           Fair(c, b) /\ (Carries(c, b) => Carries(c, b)' \/ Warning(b)' \in mails')
  PROVE  AInv'
<1>1. ASSUME NEW b \in Budgets PROVE Owed(c, b)
  <2>1. Base(b)' = Base(b)
    BY BaseOthers
  <2>2. PastLine(b, Base(b))' = PastLine(b, Base(b))
    BY <2>1 DEF PastLine
  <2> QED
    BY <2>2 DEF Owed
<1> QED
  BY <1>1, AlertsStep

LEMMA QuietAlerts ==
  ASSUME IInv, IInv', AInv, NEW c \in Calls, \A d \in Calls \ {c} : call'[d] = call[d],
         UNCHANGED <<period, spend, lock>>, mails \subseteq mails',
         Touched(c) = {}, Touched(c)' = {}, StampedIn(c)',
         \A b \in Budgets : Fair(c, b)' =>
           Fair(c, b) /\ (Carries(c, b) => Carries(c, b)' \/ Warning(b)' \in mails')
  PROVE  AInv'
<1>1. OnlyTouches(c)
  BY DEF OnlyTouches
<1>2. ASSUME NEW b \in Budgets, lock[b] \in {Free, c} PROVE Base(b)' = Base(b)
  <2>1. lock[b] = Free
    BY <1>2 DEF IInv, Good, Holds
  <2> QED
    BY <2>1, BaseIs, BaseIsNext
<1>3. Noticed(c)'
  BY DEF Noticed
<1> QED
  BY <1>1, <1>2, <1>3, SteadyAlerts

LEMMA RollbackAlerts ==
  ASSUME IInv, IInv', AInv, NEW c \in Calls, NEW e, Rollback(c, e),
         e.pc \in {"credit", "notify", "done"}, ~InTransaction(c)' \/ e.at = 1,
         e.pc = "credit" => call[c].pc \in {"settle", "credit"},
         e.in = call[c].in, e.cut \/ call[c].pc = "reserve"
  PROVE  AInv'
<1>1. /\ call' = [call EXCEPT ![c] = e] /\ lock' = Unlock(c) /\ period' = period /\ mails' = mails
      /\ spend' = [b \in Budgets |-> IF b \in Touched(c) THEN spend[b] - Delta(c) ELSE spend[b]]
  BY DEF Rollback
<1>2. Types /\ Good(c)
  BY DEF IInv
<1>3. call'[c] = e /\ \A d \in Calls \ {c} : call'[d] = call[d]
  BY <1>1, <1>2 DEF Types
<1>4. Touched(c)' = {}
  BY <1>3, NoneTouchedNext
<1>5. \A b \in Budgets : (b \in Touched(c) <=> lock[b] = c) /\ lock'[b] = IF lock[b] = c THEN Free ELSE lock[b]
  BY <1>1, <1>2 DEF Good, Holds, Unlock
<1>6. OnlyTouches(c)
  BY <1>1, <1>3, <1>5 DEF OnlyTouches
<1>7. Noticed(c)'
  BY <1>4 DEF Noticed
<1>8. StampedIn(c)'
  <2>1. StampedIn(c)
    BY DEF AInv
  <2> QED
    BY <1>3, <2>1 DEF StampedIn
<1>9. ASSUME NEW b \in Budgets, lock[b] \in {Free, c} PROVE Base(b)' = Base(b)
  <2>1. lock'[b] = Free /\ Base(b)' = spend'[b]
    BY <1>5, <1>9, BaseIsNext
  <2> QED
    BY <1>1, <1>5, <1>9, <2>1, BaseIs
<1>10. ASSUME NEW b \in Budgets, Fair(c, b)' PROVE Fair(c, b) /\ ~Carries(c, b)
  <2>1. call[c].in[b] = 0
    <3>1. CASE call[c].pc = "reserve"
      BY <1>2, <3>1 DEF Good, Stamps
    <3>2. CASE e.cut
      BY <1>3, <1>10, <3>2 DEF Fair
    <3> QED
      BY <3>1, <3>2
  <2>2. period[b] # 0
    BY <1>2 DEF Types
  <2> QED
    BY <2>1, <2>2 DEF Fair, Carries
<1> QED
  BY <1>1, <1>6, <1>7, <1>8, <1>9, <1>10, SteadyAlerts

\* The update of a budget sees the line that it passes.
LEMMA Sees ==
  ASSUME IInv, NEW c \in Calls, NEW b \in Budgets, NEW delta \in Int, Limit[b] > 0,
         ~PastLine(b, spend[b]), PastLine(b, spend[b] + delta)
  PROVE  <<b, call[c].label[b], "threshold">> \in Alerts(c, b, Crossings(b, delta))
<1>1. spend[b] \in Int /\ Limit[b] \in Int
  BY GatewayAssumption DEF IInv, Types
<1>2. 5 * spend[b] < 4 * Limit[b] /\ 5 * (spend[b] + delta) >= 4 * Limit[b] /\ Limit[b] # 0
  BY <1>1 DEF PastLine
<1>3. "threshold" \in Crossings(b, delta)
  BY <1>2 DEF Crossings
<1> QED
  BY <1>3 DEF Alerts

\* What an update adds to the alerts that its transaction has noticed.
LEMMA NoticesAll ==
  ASSUME IInv, AInv, NEW c \in Calls, InTransaction(c), Update(c, Budget(c)), NEW alerts,
         call[c].alerts \subseteq alerts,
         Alerts(c, Budget(c), Crossings(Budget(c), Delta(c))) \subseteq alerts,
         NEW b \in Touched(c) \cup {Budget(c)}, Limit[b] > 0,
         NEW after \in Int, after = Base(b) + Delta(c), PastLine(b, after),
         ~PastLine(b, Base(b))
  PROVE  <<b, call[c].label[b], "threshold">> \in alerts
<1>1. Types /\ Good(c) /\ Noticed(c)
  BY DEF IInv, AInv
<1>2. Budget(c) \in Budgets /\ Applies[c] \subseteq Budgets /\ Touched(c) \subseteq Applies[c]
      /\ Budget(c) \notin Touched(c)
  BY <1>1, AtBudget, TouchedIs DEF Good, InTransaction, At
<1>3. Delta(c) \in Int /\ spend[b] \in Int
  BY <1>1, <1>2, PartType, BaseIs
<1>4. CASE b \in Touched(c)
  <2>1. Base(b) = spend[b] - Delta(c)
    BY <1>2, <1>4, BaseIs
  <2>2. after = spend[b]
    BY <1>3, <2>1
  <2> QED
    BY <1>1, <1>4, <2>1, <2>2 DEF Noticed
<1>5. CASE b = Budget(c)
  <2>1. lock[b] = Free
    BY <1>1, <1>2, <1>5 DEF Update, CanLock, Good, Holds
  <2>2. Base(b) = spend[b]
    BY <1>2, <1>5, <2>1, BaseIs
  <2> QED
    BY <1>2, <1>3, <1>5, <2>2, Sees
<1> QED
  BY <1>4, <1>5

LEMMA GoesOnAlerts ==
  ASSUME IInv, IInv', AInv, NEW c \in Calls, InTransaction(c), Update(c, Budget(c)), ~LastBudget(c),
         NEW e \in CallType, call' = [call EXCEPT ![c] = e],
         e.pc = call[c].pc, e.order = call[c].order, e.at = call[c].at + 1,
         e.in = call[c].in, e.out = call[c].out, e.real = call[c].real,
         e.label = call[c].label, e.cut = call[c].cut, call[c].alerts \subseteq e.alerts,
         Alerts(c, Budget(c), Crossings(Budget(c), Delta(c))) \subseteq e.alerts
  PROVE  AInv'
<1> DEFINE B == Budget(c)
<1>1. /\ lock[B] \in {Free, c} /\ lock' = [lock EXCEPT ![B] = c] /\ mails' = mails
      /\ period' = period /\ spend' = [spend EXCEPT ![B] = @ + Delta(c)]
  BY DEF Update, CanLock
<1>2. Types /\ Good(c)
  BY DEF IInv
<1>3. call'[c] = e /\ \A d \in Calls \ {c} : call'[d] = call[d]
  BY <1>2 DEF Types
<1>4. /\ B \in Budgets /\ call[c].at \in Nat
      /\ Touched(c) \cup {B} = {call[c].order[i] : i \in 1 .. call[c].at}
      /\ B \notin Touched(c) /\ Touched(c) \subseteq Budgets
  BY <1>2, AtBudget, TouchedIs DEF Good, InTransaction, At
<1>5. Delta(c)' = Delta(c) /\ InTransaction(c)'
  BY <1>3 DEF Delta, InTransaction, At
<1>6. Touched(c)' = Touched(c) \cup {B}
  <2>1. Touched(c)' = {e.order[i] : i \in 1 .. (e.at - 1)}
    BY <1>3, <1>5 DEF Touched
  <2>2. (call[c].at + 1) - 1 = call[c].at
    BY <1>4
  <2> QED
    BY <1>4, <2>1, <2>2
<1>7. \A b \in Budgets : spend'[b] = IF b = B THEN spend[b] + Delta(c) ELSE spend[b]
  BY <1>1, <1>2 DEF Types
<1>8. \A b \in Budgets : lock'[b] = IF b = B THEN c ELSE lock[b]
  BY <1>1, <1>2 DEF Types
<1>9. \A b \in Budgets : spend[b] \in Int /\ Delta(c) \in Int /\ (b \in Touched(c) <=> lock[b] = c)
  BY <1>2, PartType, BaseIs DEF Good, Holds
<1>10. lock[B] = Free
  BY <1>1, <1>4, <1>9
<1>11. ASSUME NEW b \in Budgets, lock[b] \in {Free, c} PROVE Base(b)' = Base(b)
  <2>1. CASE b = B
    <3>1. Base(b)' = spend'[b] - Delta(c)
      BY <1>5, <1>6, <2>1, BaseIsNext
    <3>2. Base(b) = spend[b]
      BY <1>10, <2>1, BaseIs
    <3> QED
      BY <1>7, <1>9, <2>1, <3>1, <3>2
  <2>2. CASE b # B /\ b \in Touched(c)
    <3>1. Base(b)' = spend'[b] - Delta(c)
      BY <1>5, <1>6, <2>2, BaseIsNext
    <3> QED
      BY <1>7, <2>2, <3>1, BaseIs
  <2>3. CASE b # B /\ b \notin Touched(c)
    <3>1. lock[b] = Free /\ lock'[b] = Free
      BY <1>8, <1>9, <1>11, <2>3
    <3> QED
      BY <1>7, <2>3, <3>1, BaseIs, BaseIsNext
  <2> QED
    BY <2>1, <2>2, <2>3
<1>12. OnlyTouches(c)
  BY <1>1, <1>3, <1>7, <1>8 DEF OnlyTouches
<1>13. Noticed(c)'
  <2>1. SUFFICES ASSUME NEW b \in Touched(c) \cup {B}, Limit[b] > 0,
                        PastLine(b, spend'[b]), ~PastLine(b, spend'[b] - Delta(c))
                 PROVE  <<b, e.label[b], "threshold">> \in e.alerts
    BY <1>3, <1>5, <1>6 DEF Noticed, PastLine
  <2>2. b \in Budgets
    BY <1>4
  <2>3. Base(b)' = spend'[b] - Delta(c) /\ Base(b)' = Base(b) /\ Base(b) \in Int
    <3>1. lock[b] \in {Free, c}
      BY <1>9, <1>10, <2>2
    <3> QED
      BY <1>5, <1>6, <1>11, <2>2, <3>1, BaseIs, BaseIsNext
  <2>4. spend'[b] \in Int
    BY <1>7, <1>9, <2>2
  <2>5. spend'[b] = Base(b) + Delta(c)
    BY <1>9, <2>2, <2>3, <2>4
  <2>6. ~PastLine(b, Base(b))
    BY <2>1, <2>3
  <2> QED
    BY <2>1, <2>4, <2>5, <2>6, NoticesAll
<1>14. StampedIn(c)'
  <2>1. StampedIn(c)
    BY DEF AInv
  <2> QED
    BY <1>3, <2>1 DEF StampedIn
<1>15. ASSUME NEW b \in Budgets, Fair(c, b)'
       PROVE  Fair(c, b) /\ (Carries(c, b) => Carries(c, b)')
  BY <1>1, <1>3, <1>15 DEF Fair, Carries, Warning, At
<1> QED
  BY <1>1, <1>11, <1>12, <1>13, <1>14, <1>15, SteadyAlerts

LEMMA CommitAlerts ==
  ASSUME IInv, IInv', AInv, NEW c \in Calls, InTransaction(c), Update(c, Budget(c)), LastBudget(c),
         NEW e \in CallType, call' = [call EXCEPT ![c] = e], ~InTransaction(c)', StampedIn(c)',
         call[c].alerts \subseteq e.alerts,
         Alerts(c, Budget(c), Crossings(Budget(c), Delta(c))) \subseteq e.alerts,
         \A b \in Budgets : Fair(c, b)' => Fair(c, b) /\ (Carries(c, b) => Carries(c, b)'),
         \A b \in Applies[c] :
           Fair(c, b)' /\ <<b, call[c].label[b], "threshold">> \in e.alerts => Carries(c, b)'
  PROVE  AInv'
<1> DEFINE B == Budget(c)
<1>1. /\ lock[B] \in {Free, c} /\ lock' = Unlock(c) /\ mails' = mails
      /\ period' = period /\ spend' = [spend EXCEPT ![B] = @ + Delta(c)]
  BY DEF Update, CanLock
<1>2. Types /\ Good(c)
  BY DEF IInv
<1>3. call'[c] = e /\ \A d \in Calls \ {c} : call'[d] = call[d]
  BY <1>2 DEF Types
<1>4. /\ B \in Budgets /\ B \notin Touched(c) /\ Touched(c) \cup {B} = Applies[c]
      /\ Applies[c] \subseteq Budgets
  BY <1>2, AtBudget, TouchedIs DEF Good, InTransaction, At
<1>5. Touched(c)' = {}
  BY NoneTouchedNext
<1>6. \A b \in Budgets : spend'[b] = IF b = B THEN spend[b] + Delta(c) ELSE spend[b]
  BY <1>1, <1>2 DEF Types
<1>7. \A b \in Budgets : spend[b] \in Int /\ Delta(c) \in Int /\ (b \in Touched(c) <=> lock[b] = c)
  BY <1>2, PartType, BaseIs DEF Good, Holds
<1>8. lock[B] = Free
  BY <1>1, <1>4, <1>7
<1>9. \A b \in Budgets : lock'[b] = IF lock[b] = c THEN Free ELSE lock[b]
  BY <1>1 DEF Unlock
<1>10. OnlyTouches(c)
  BY <1>1, <1>3, <1>6, <1>8, <1>9 DEF OnlyTouches
<1>11. Noticed(c)'
  BY <1>5 DEF Noticed
<1>12. ASSUME NEW b \in Budgets PROVE Owed(c, b)
  <2>1. CASE b \notin Applies[c]
    <3>1. Base(b)' = Base(b)
      <4>1. CASE lock[b] \in {Free, c}
        <5>1. lock[b] = Free /\ lock'[b] = Free /\ b # B
          BY <1>4, <1>7, <1>9, <2>1, <4>1
        <5> QED
          BY <1>6, <5>1, BaseIs, BaseIsNext
      <4> QED
        BY <1>10, <4>1, BaseOthers
    <3>2. PastLine(b, Base(b))' = PastLine(b, Base(b))
      BY <3>1 DEF PastLine
    <3> QED
      BY <1>1, <3>2 DEF Owed
  <2>2. CASE b \in Applies[c]
    <3>1. Base(b)' = spend'[b]
      <4>1. lock'[b] = Free
        BY <1>4, <1>7, <1>8, <1>9, <2>2
      <4> QED
        BY <4>1, BaseIsNext
    <3>2. Base(b)' \in Int /\ Base(b)' = Base(b) + Delta(c)
      <4>1. CASE b = B
        BY <1>6, <1>7, <1>8, <3>1, <4>1, BaseIs
      <4>2. CASE b # B
        <5>1. b \in Touched(c) /\ Base(b) = spend[b] - Delta(c)
          BY <1>4, <2>2, <4>2, BaseIs
        <5> QED
          BY <1>6, <1>7, <3>1, <4>2, <5>1
      <4> QED
        BY <4>1, <4>2
    <3>3. ASSUME Regular(b), Fair(c, b)', PastLine(b, Base(b))', ~PastLine(b, Base(b))
          PROVE  Carries(c, b)'
      <4> DEFINE after == Base(b)'
      <4>1. PastLine(b, after)
        BY <3>3 DEF PastLine
      <4>2. Limit[b] > 0
        BY <3>3 DEF Regular
      <4>3. b \in Touched(c) \cup {Budget(c)}
        BY <1>4, <2>2
      <4>4. after \in Int /\ after = Base(b) + Delta(c)
        BY <3>2
      <4> HIDE DEF after
      <4>5. <<b, call[c].label[b], "threshold">> \in e.alerts
        BY <3>3, <4>1, <4>2, <4>3, <4>4, NoticesAll
      <4> QED
        BY <2>2, <3>3, <4>5
    <3> QED
      BY <1>1, <3>3 DEF Owed
  <2> QED
    BY <2>1, <2>2
<1> QED
  BY <1>10, <1>11, <1>12, AlertsStep

LEMMA ReadAlerts == ASSUME IInv, IInv', AInv, NEW c \in Calls, Read(c) PROVE AInv'
<1>1. /\ call[c].pc = "new" /\ UNCHANGED <<period, spend, lock, mails>>
  BY DEF Read, At
<1>2. PICK order \in SetToSeqs(Applies[c]) :
        call' = [call EXCEPT ![c].pc = "reset", ![c].order = order, ![c].label = period]
  BY DEF Read
<1>3. Types /\ Good(c) /\ call[c] \in CallType
  BY CallTyped DEF IInv
<1>4. call'[c].pc = "reset" /\ call'[c].in = call[c].in /\ \A d \in Calls \ {c} : call'[d] = call[d]
  BY <1>2, <1>3 DEF Types, CallType
<1>5. \A b \in Budgets : call[c].in[b] = 0 /\ period[b] # 0
  BY <1>1, <1>3 DEF Good, Stamps, Types
<1>6. Touched(c) = {} /\ Touched(c)' = {}
  BY <1>1, <1>4 DEF Touched, InTransaction, At
<1>7. StampedIn(c)'
  BY <1>4 DEF StampedIn
<1>8. \A b \in Budgets : Fair(c, b) /\ ~Carries(c, b)
  BY <1>5 DEF Fair, Carries
<1> QED
  BY <1>1, <1>4, <1>6, <1>7, <1>8, QuietAlerts

LEMMA NotifyAlerts == ASSUME IInv, IInv', AInv, NEW c \in Calls, Notify(c) PROVE AInv'
<1> DEFINE e == Done(call[c])
<1>1. /\ call[c].pc = "notify" /\ UNCHANGED <<period, spend, lock>>
      /\ call' = [call EXCEPT ![c] = e] /\ mails' = mails \cup call[c].alerts
  BY DEF Notify, At
<1>2. Types /\ Good(c) /\ call[c] \in CallType
  BY CallTyped DEF IInv
<1>3. /\ e.pc = "done" /\ e.in = call[c].in /\ e.out = call[c].out /\ e.real = call[c].real
      /\ e.cut = call[c].cut /\ e.label = call[c].label
  BY <1>2 DEF Done, CallType
<1> HIDE DEF e
<1>4. call'[c] = e /\ \A d \in Calls \ {c} : call'[d] = call[d]
  BY <1>1, <1>2 DEF Types
<1>5. Touched(c) = {} /\ Touched(c)' = {}
  BY <1>1, <1>3, <1>4 DEF Touched, InTransaction, At
<1>6. StampedIn(c)'
  BY <1>3, <1>4 DEF StampedIn
<1>7. ASSUME NEW b \in Budgets, Fair(c, b)'
      PROVE  Fair(c, b) /\ (Carries(c, b) => Carries(c, b)' \/ Warning(b)' \in mails')
  <2>1. Fair(c, b)
    BY <1>1, <1>3, <1>4, <1>7 DEF Fair, At
  <2>2. Carries(c, b) => Warning(b)' \in mails'
    BY <1>1 DEF Carries, Warning
  <2> QED
    BY <2>1, <2>2
<1> QED
  BY <1>1, <1>4, <1>5, <1>6, <1>7, QuietAlerts

LEMMA AnswerAlerts == ASSUME IInv, IInv', AInv, NEW c \in Calls, Answer(c) PROVE AInv'
<1>1. Types /\ Good(c) /\ StampedIn(c) /\ call[c] \in CallType /\ call[c].pc = "chain"
  BY CallTyped DEF IInv, AInv, Answer, At
<1>2. UNCHANGED <<period, spend, lock, mails>>
  BY DEF Answer
<1>3. /\ call'[c].pc \in {"settle", "credit"} /\ call'[c].in = call[c].in /\ call'[c].out = call[c].out
      /\ call'[c].cut = call[c].cut /\ call'[c].label = call[c].label /\ call'[c].at = call[c].at
      /\ call'[c].pc = "settle" => call'[c].alerts = call[c].alerts
      /\ \A d \in Calls \ {c} : call'[d] = call[d]
  <2>1. CASE \E real \in Costs :
               call' = [call EXCEPT ![c].pc = "settle", ![c].real = real, ![c].served = TRUE]
    BY <1>1, <2>1 DEF Types, CallType
  <2>2. CASE \E end \in Endings :
               call' = [call EXCEPT ![c].pc = "credit", ![c].alerts = {},
                  ![c].answer = [told |-> end.told, couldWork |-> end.couldWork]]
    BY <1>1, <2>2 DEF Types, CallType
  <2>3. CASE \E served \in {FALSE, (c \in Streams)} :
               call' = [call EXCEPT ![c].pc = "credit", ![c].alerts = {}, ![c].served = served]
    BY <1>1, <2>3 DEF Types, CallType
  <2> QED
    BY <2>1, <2>2, <2>3 DEF Answer
<1>4. Touched(c) = {} /\ Touched(c)' = {}
  <2>1. call[c].at = 1
    BY <1>1 DEF Good, Ordered
  <2>2. ~InTransaction(c)
    BY <1>1 DEF InTransaction, At
  <2> QED
    BY <1>3, <2>1, <2>2, NoneTouched, NoneTouchedNext
<1>5. StampedIn(c)'
  BY <1>1, <1>3 DEF StampedIn
<1>6. ASSUME NEW b \in Budgets, Fair(c, b)'
      PROVE  Fair(c, b) /\ (Carries(c, b) => Carries(c, b)')
  <2>1. Fair(c, b)
    BY <1>1, <1>3, <1>6 DEF Fair, At
  <2>2. Carries(c, b) => Carries(c, b)'
    <3>1. period[b] # 0
      BY <1>1 DEF Types
    <3> QED
      BY <1>2, <1>3, <1>6, <3>1 DEF Fair, Carries, Warning, At
  <2> QED
    BY <2>1, <2>2
<1> QED
  BY <1>2, <1>3, <1>4, <1>5, <1>6, QuietAlerts

\* A rollover leaves the budget below its line.
LEMMA ResetAlerts == ASSUME IInv, IInv', AInv, NEW c \in Calls, Reset(c) PROVE AInv'
<1> DEFINE B == Budget(c)
           elapsed == call[c].label[B] < now
           rolls == elapsed /\ StillElapsed(c, B)
           pc == IF LastBudget(c) THEN "reserve" ELSE "reset"
           at == IF LastBudget(c) THEN 1 ELSE call[c].at + 1
<1>1. Types /\ Good(c) /\ call[c] \in CallType /\ call[c].pc = "reset"
  BY CallTyped DEF IInv, Reset, At
<1>2. /\ lock' = lock /\ mails' = mails
      /\ rolls => lock[B] \in {Free, c}
      /\ period' = IF rolls THEN [period EXCEPT ![B] = now] ELSE period
      /\ spend' = IF rolls THEN [spend EXCEPT ![B] = 0] ELSE spend
  BY DEF Reset, CanLock
<1>3. call' = [call EXCEPT ![c].label[B] = IF elapsed THEN period'[B] ELSE @,
                           ![c].pc = pc, ![c].at = at]
  BY DEF Reset
<1>4. B \in Budgets
  BY <1>1, AtBudget DEF Good
<1> HIDE DEF B, elapsed, rolls
<1>5. /\ call'[c].pc = pc /\ call'[c].at = at /\ call'[c].in = call[c].in
      /\ \A d \in Calls \ {c} : call'[d] = call[d]
  BY <1>1, <1>3 DEF Types, CallType
<1>6. \A b \in Budgets : call[c].in[b] = 0 /\ period[b] # 0
  BY <1>1 DEF Good, Stamps, Types
<1>7. Touched(c) = {} /\ Touched(c)' = {}
  <2>1. pc = "reset" \/ at = 1
    OBVIOUS
  <2>2. ~InTransaction(c) /\ (~InTransaction(c)' \/ call'[c].at = 1)
    BY <1>1, <1>5, <2>1 DEF InTransaction, At
  <2> QED
    BY <2>2, NoneTouched, NoneTouchedNext
<1>8. \A b \in Budgets : /\ ~(rolls /\ b = B) => spend'[b] = spend[b] /\ period'[b] = period[b]
                         /\ rolls /\ b = B => spend'[b] = 0
  BY <1>1, <1>2 DEF Types, Stamp
<1>9. OnlyTouches(c)
  BY <1>2, <1>5, <1>8 DEF OnlyTouches
<1>10. Noticed(c)' /\ StampedIn(c)'
  BY <1>5, <1>7 DEF Noticed, StampedIn
<1>11. \A b \in Budgets : lock[b] # c
  BY <1>1, <1>7 DEF Good, Holds
<1>12. ASSUME NEW b \in Budgets PROVE Owed(c, b)
  <2>1. Fair(c, b) /\ ~Carries(c, b)
    BY <1>6 DEF Fair, Carries
  <2>2. CASE rolls /\ b = B
    <3>1. lock'[b] = Free
      BY <1>2, <1>11, <2>2
    <3>2. Base(b)' = 0
      BY <1>8, <2>2, <3>1, BaseIsNext
    <3>3. Limit[b] > 0 => ~PastLine(b, Base(b))'
      BY <3>2, GatewayAssumption DEF PastLine
    <3> QED
      BY <3>3 DEF Owed, Regular
  <2>3. CASE ~(rolls /\ b = B)
    <3>1. Base(b)' = Base(b)
      <4>1. CASE lock[b] = Free
        BY <1>2, <1>8, <2>3, <4>1, BaseIs, BaseIsNext
      <4>2. CASE lock[b] # Free
        BY <1>9, <1>11, <4>2, BaseOthers
      <4> QED
        BY <4>1, <4>2
    <3>2. PastLine(b, Base(b))' = PastLine(b, Base(b))
      BY <3>1 DEF PastLine
    <3> QED
      BY <1>8, <2>1, <2>3, <3>2 DEF Owed
  <2> QED
    BY <2>2, <2>3
<1> QED
  BY <1>9, <1>10, <1>12, AlertsStep

LEMMA ReserveAlerts == ASSUME IInv, IInv', AInv, NEW c \in Calls, Reserve(c) PROVE AInv'
<1> DEFINE B == Budget(c)
           alerts == call[c].alerts \cup Alerts(c, B, Crossings(B, Estimate))
           in == Stamped(c, call[c].in)
           at == call[c].at + 1
           updated == [call[c] EXCEPT !.alerts = alerts]
           e == Reserved(c, B)
<1>1. Types /\ Types' /\ Good(c) /\ call[c] \in CallType /\ call[c].pc = "reserve"
  BY CallTyped DEF IInv, Reserve, At
<1>2. Update(c, B) /\ call' = [call EXCEPT ![c] = e]
  BY DEF Reserve
<1>3. InTransaction(c) /\ Delta(c) = Estimate
  BY <1>1 DEF InTransaction, At, Delta
<1>4. call'[c] = e /\ e \in CallType /\ period' = period
  BY <1>1, <1>2 DEF Types, Update
<1>5. B \in Budgets /\ Applies[c] \subseteq Budgets
  BY <1>1, AtBudget DEF Good
<1>6. \A b \in Budgets : call[c].in[b] = 0 /\ period[b] # 0 /\ call[c].out[b] = 0
  BY <1>1 DEF Good, Stamps, Types
<1>7. \A b \in Budgets : Fair(c, b) /\ ~Carries(c, b)
  BY <1>6 DEF Fair, Carries
<1>8. \A b \in Budgets : in[b] = IF b \in Applies[c] THEN period[b] ELSE call[c].in[b]
  BY DEF Stamped
<1>9. updated.in = call[c].in /\ updated.at = call[c].at
  BY <1>1 DEF CallType
<1>10. e = IF LastBudget(c) THEN [updated EXCEPT !.in = in, !.pc = "chain", !.at = 1]
           ELSE [updated EXCEPT !.at = at]
  BY <1>9 DEF Reserved
<1> HIDE DEF e, in, at, alerts
<1>11. /\ e.label = call[c].label /\ e.cut = call[c].cut /\ e.alerts = alerts
       /\ e.out = call[c].out /\ e.real = call[c].real /\ e.order = call[c].order
       /\ LastBudget(c) => e.in = in /\ e.pc = "chain"
       /\ ~LastBudget(c) => e.in = call[c].in /\ e.pc = call[c].pc /\ e.at = at
  BY <1>1, <1>10 DEF CallType
<1>12. call[c].alerts \subseteq e.alerts /\ Alerts(c, B, Crossings(B, Delta(c))) \subseteq e.alerts
  BY <1>3, <1>11 DEF alerts
<1>13. CASE ~LastBudget(c)
  <2>1. e.at = call[c].at + 1 /\ e.in = call[c].in /\ e.pc = call[c].pc
    BY <1>11, <1>13 DEF at
  <2> QED
    BY <1>2, <1>3, <1>4, <1>11, <1>12, <1>13, <2>1, GoesOnAlerts
<1>14. CASE LastBudget(c)
  <2>1. e.in = in /\ e.pc = "chain"
    BY <1>11, <1>14
  <2>2. ~InTransaction(c)'
    BY <1>4, <2>1 DEF InTransaction, At
  <2>3. StampedIn(c)'
    BY <1>4, <1>5, <1>6, <1>8, <2>1 DEF StampedIn
  <2>4. ASSUME NEW b \in Applies[c], Fair(c, b)', <<b, call[c].label[b], "threshold">> \in e.alerts
        PROVE  Carries(c, b)'
    <3>1. b \in Budgets /\ e.in[b] = period[b] /\ period[b] # 0
      BY <1>5, <1>6, <1>8, <2>1
    <3>2. call[c].label[b] = period[b]
      BY <1>4, <1>11, <2>4, <3>1 DEF Fair
    <3> QED
      BY <1>4, <2>1, <2>4, <3>1, <3>2 DEF Carries, Warning
  <2> QED
    BY <1>2, <1>3, <1>4, <1>7, <1>12, <1>14, <2>2, <2>3, <2>4, CommitAlerts
<1> QED
  BY <1>13, <1>14

LEMMA SettleAlerts == ASSUME IInv, IInv', AInv, NEW c \in Calls, Settle(c) PROVE AInv'
<1> DEFINE B == Budget(c)
           alerts == call[c].alerts \cup Alerts(c, B, Crossings(B, Delta(c)))
           out == Stamped(c, call[c].out)
           at == call[c].at + 1
           none == << >>
           answer == NoAnswer
           on == [call[c] EXCEPT !.at = at, !.alerts = alerts]
           settled == [call[c] EXCEPT !.out = out, !.answer = answer, !.order = none,
                                      !.at = 1, !.pc = "notify", !.alerts = alerts]
           e == Settled(c, B)
<1>1. /\ Types /\ Types' /\ Good(c) /\ StampedIn(c) /\ call[c] \in CallType
      /\ call[c].pc \in {"settle", "credit"}
  BY CallTyped DEF IInv, AInv, Settle, At
<1>2. Update(c, B) /\ call' = [call EXCEPT ![c] = e]
  BY DEF Settle
<1>3. InTransaction(c)
  BY <1>1 DEF InTransaction, At
<1>4. call'[c] = e /\ e \in CallType /\ period' = period
  BY <1>1, <1>2 DEF Types, Update
<1>5. B \in Budgets /\ Applies[c] \subseteq Budgets
  BY <1>1, AtBudget DEF Good
<1>6. /\ \A b \in Budgets : call[c].out[b] = 0 /\ period[b] # 0
      /\ \A b \in Applies[c] : call[c].in[b] # 0
      /\ call[c].pc = "credit" => call[c].real = 0
  BY <1>1 DEF Good, Stamps, Types, StampedIn
<1>7. \A b \in Budgets : out[b] = IF b \in Applies[c] THEN period[b] ELSE call[c].out[b]
  BY DEF Stamped
<1>8. e = IF ~LastBudget(c) THEN on ELSE IF alerts = {} THEN Done(settled) ELSE settled
  BY DEF Settled
<1> HIDE DEF e, out, at, alerts, none, answer
<1>9. /\ on.label = call[c].label /\ on.cut = call[c].cut /\ on.alerts = alerts
      /\ on.out = call[c].out /\ on.real = call[c].real /\ on.order = call[c].order
      /\ on.in = call[c].in /\ on.pc = call[c].pc /\ on.at = at
  BY <1>1 DEF CallType
<1>10. /\ settled.label = call[c].label /\ settled.cut = call[c].cut /\ settled.alerts = alerts
       /\ settled.out = out /\ settled.real = call[c].real /\ settled.in = call[c].in
       /\ settled.pc = "notify" /\ DOMAIN settled = DOMAIN call[c]
  BY <1>1 DEF CallType
<1> HIDE DEF on, settled
<1>11. CASE ~LastBudget(c)
  <2>1. e = on
    BY <1>8, <1>11
  <2>2. call[c].alerts \subseteq on.alerts /\ Alerts(c, B, Crossings(B, Delta(c))) \subseteq on.alerts
    BY <1>9 DEF alerts
  <2>3. on.at = call[c].at + 1
    BY <1>9 DEF at
  <2> QED
    BY <1>2, <1>3, <1>4, <1>9, <1>11, <2>1, <2>2, <2>3, GoesOnAlerts
<1>12. CASE LastBudget(c)
  <2>1. /\ e.label = call[c].label /\ e.cut = call[c].cut /\ e.alerts = alerts
        /\ e.out = out /\ e.real = call[c].real /\ e.in = call[c].in
        /\ e.pc \in {"notify", "done"} /\ (alerts # {} => e.pc = "notify")
    <3>1. CASE alerts # {}
      BY <1>8, <1>10, <1>12, <3>1
    <3>2. CASE alerts = {}
      <4>1. e = Done(settled)
        BY <1>8, <1>12, <3>2
      <4>2. DOMAIN call[c] = {"pc", "order", "at", "answer", "real", "served", "cut", "alerts",
                              "label", "in", "out"}
        BY <1>1 DEF CallType
      <4> QED
        BY <1>10, <3>2, <4>1, <4>2 DEF Done
    <3> QED
      BY <3>1, <3>2
  <2>2. ~InTransaction(c)' /\ StampedIn(c)'
    BY <1>4, <2>1 DEF InTransaction, At, StampedIn
  <2>3. call[c].alerts \subseteq e.alerts /\ Alerts(c, B, Crossings(B, Delta(c))) \subseteq e.alerts
    BY <2>1 DEF alerts
  <2>4. ASSUME NEW b \in Budgets, Fair(c, b)'
        PROVE  Fair(c, b) /\ (Carries(c, b) => Carries(c, b)')
    <3>1. call[c].in[b] # 0 => ~call[c].cut /\ call[c].in[b] = call[c].label[b] /\ call[c].real > 0
      BY <1>4, <2>1, <2>4 DEF Fair
    <3>2. call[c].in[b] # 0 => ~At(c, "credit")
      BY <1>6, <3>1 DEF At
    <3>3. Fair(c, b)
      BY <1>1, <1>6, <3>1, <3>2 DEF Fair
    <3>4. Carries(c, b) => Carries(c, b)'
      <4>1. Carries(c, b) => alerts # {}
        BY DEF Carries, alerts
      <4> QED
        BY <1>4, <2>1, <2>3, <4>1 DEF Carries, Warning
    <3> QED
      BY <3>3, <3>4
  <2>5. ASSUME NEW b \in Applies[c], Fair(c, b)', <<b, call[c].label[b], "threshold">> \in e.alerts
        PROVE  Carries(c, b)'
    <3>1. b \in Budgets /\ e.out[b] = period[b] /\ period[b] # 0 /\ e.in[b] # 0
      BY <1>5, <1>6, <1>7, <2>1
    <3>2. e.in[b] = period[b] /\ call[c].label[b] = period[b]
      BY <1>4, <2>1, <2>5, <3>1 DEF Fair
    <3>3. alerts # {}
      BY <2>1, <2>5
    <3> QED
      BY <1>4, <2>1, <2>5, <3>2, <3>3 DEF Carries, Warning
  <2> QED
    BY <1>2, <1>3, <1>4, <1>12, <2>2, <2>3, <2>4, <2>5, CommitAlerts
<1> QED
  BY <1>11, <1>12

LEMMA ExceededAlerts == ASSUME IInv, IInv', AInv, NEW c \in Calls, Exceeded(c) PROVE AInv'
<1> DEFINE alerts == Alerts(c, Budget(c), {"exhausted"})
           none == << >>
           e == [call[c] EXCEPT !.pc = "notify", !.order = none, !.at = 1, !.alerts = alerts]
<1>1. Types /\ call[c] \in CallType /\ call[c].pc = "reserve"
  BY CallTyped DEF IInv, Exceeded, At
<1>2. Rollback(c, e)
  BY DEF Exceeded
<1> HIDE DEF alerts, none
<1>3. e.pc = "notify" /\ e.at = 1 /\ e.in = call[c].in
  BY <1>1 DEF CallType
<1> HIDE DEF e
<1> QED
  BY <1>1, <1>2, <1>3, RollbackAlerts

LEMMA CutAlerts ==
  ASSUME IInv, IInv', AInv, NEW c \in Calls, Rollback(c, Done([call[c] EXCEPT !.cut = TRUE]))
  PROVE  AInv'
<1> DEFINE cut == [call[c] EXCEPT !.cut = TRUE]
           e == Done(cut)
<1>1. Types /\ call[c] \in CallType
  BY CallTyped DEF IInv
<1>2. cut \in CallType /\ cut.in = call[c].in /\ cut.cut
  BY <1>1 DEF CallType
<1>3. Rollback(c, e)
  OBVIOUS
<1> HIDE DEF cut
<1>4. e.pc = "done" /\ e.at = 1 /\ e.in = call[c].in /\ e.cut
  BY <1>2 DEF Done, CallType
<1> HIDE DEF e
<1> QED
  BY <1>3, <1>4, RollbackAlerts

LEMMA TxFailsAlerts == ASSUME IInv, IInv', AInv, NEW c \in Calls, TxFails(c) PROVE AInv'
<1>1. Types /\ call[c] \in CallType /\ InTransaction(c)
  BY CallTyped DEF IInv, TxFails
<1>2. CASE MayCreditBack(c)
  <2> DEFINE none == {}
             e == [call[c] EXCEPT !.pc = "credit", !.at = 1, !.alerts = none, !.real = 0, !.cut = TRUE]
  <2>1. Rollback(c, e)
    BY <1>2 DEF TxFails
  <2>2. call[c].pc \in {"settle", "credit"}
    BY <1>1, <1>2 DEF InTransaction, MayCreditBack, At
  <2> HIDE DEF none
  <2>3. e.pc = "credit" /\ e.at = 1 /\ e.in = call[c].in /\ e.cut
    BY <1>1 DEF CallType
  <2> HIDE DEF e
  <2> QED
    BY <2>1, <2>2, <2>3, RollbackAlerts
<1>3. CASE ~MayCreditBack(c)
  BY <1>3, CutAlerts DEF TxFails
<1> QED
  BY <1>2, <1>3

LEMMA IdleAlerts ==
  ASSUME AInv, UNCHANGED <<period, spend, lock, call, mails>>
  PROVE  AInv'
<1>1. \A d \in Calls : Touched(d)' = Touched(d) /\ Delta(d)' = Delta(d)
  BY DEF Touched, InTransaction, At, Delta
<1>2. \A d \in Calls : Noticed(d)' /\ StampedIn(d)'
  BY <1>1 DEF AInv, Noticed, StampedIn, PastLine
<1>3. ASSUME NEW b \in Budgets
      PROVE  /\ Regular(b)' = Regular(b) /\ Warned(b)' = Warned(b)
             /\ PastLine(b, Base(b))' = PastLine(b, Base(b))
             /\ \A d \in Calls : Fair(d, b)' = Fair(d, b)
  <2>1. Regular(b)' = Regular(b)
    BY DEF Regular, PastLine
  <2>2. Warned(b)' = Warned(b)
    BY DEF Warned, Carries, Warning, At
  <2>3. PastLine(b, Base(b))' = PastLine(b, Base(b))
    <3>1. Delta(lock[b])' = Delta(lock[b])
      BY DEF Delta, At
    <3>2. Base(b)' = Base(b)
      BY <3>1 DEF Base
    <3> QED
      BY <3>2 DEF PastLine
  <2>4. \A d \in Calls : Fair(d, b)' = Fair(d, b)
    BY DEF Fair, At
  <2> QED
    BY <2>1, <2>2, <2>3, <2>4
<1>4. AlertsKept'
  BY <1>3 DEF AInv, AlertsKept
<1> QED
  BY <1>2, <1>4 DEF AInv

LEMMA InitAlerts == ASSUME Init, IInv PROVE AInv
<1>1. \A d \in Calls : call[d].pc = "new" /\ call[d].at = 1
  BY DEF Init, New
<1>2. \A d \in Calls : Noticed(d) /\ StampedIn(d)
  BY <1>1, NoneTouched DEF Noticed, StampedIn
<1>3. \A b \in Budgets : lock[b] = Free /\ spend[b] = Spent[b] /\ period[b] = 1
  BY DEF Init
<1>4. \A b \in Budgets : Base(b) = Spent[b]
  BY <1>3, BaseIs
<1>5. AlertsKept
  BY <1>3, <1>4 DEF AlertsKept, Regular
<1> QED
  BY <1>2, <1>5 DEF AInv

LEMMA NextAInv == ASSUME IInv, IInv', AInv, [Next]_vars PROVE AInv'
<1>1. CASE Tick \/ UNCHANGED vars
  BY <1>1, IdleAlerts DEF Tick, vars
<1>2. ASSUME NEW c \in Calls, Read(c) \/ Step(c) \/ TxFails(c) \/ Dies(c) PROVE AInv'
  <2>1. CASE Read(c)
    BY <2>1, ReadAlerts
  <2>2. CASE Reset(c)
    BY <2>2, ResetAlerts
  <2>3. CASE Reserve(c)
    BY <2>3, ReserveAlerts
  <2>4. CASE Exceeded(c)
    BY <2>4, ExceededAlerts
  <2>5. CASE Answer(c)
    BY <2>5, AnswerAlerts
  <2>6. CASE Settle(c)
    BY <2>6, SettleAlerts
  <2>7. CASE Notify(c)
    BY <2>7, NotifyAlerts
  <2>8. CASE TxFails(c)
    BY <2>8, TxFailsAlerts
  <2>9. CASE Dies(c)
    BY <2>9, CutAlerts DEF Dies
  <2> QED
    BY <1>2, <2>1, <2>2, <2>3, <2>4, <2>5, <2>6, <2>7, <2>8, <2>9 DEF Step
<1> QED
  BY <1>1, <1>2 DEF Next

LEMMA AlertsHold == Spec => []AInv
<1>1. Init => AInv
  BY InitIInv, InitAlerts
<1>2. IInv /\ IInv' /\ AInv /\ [Next]_vars => AInv'
  BY NextAInv
<1> QED
  BY <1>1, <1>2, InvariantHolds, PTL DEF Spec

-----------------------------------------------------------------------------
(***************************************************************************)
(* The theorems.                                                           *)
(***************************************************************************)

\* A locked row belongs to an open transaction that has updated it, and no row is
\* in a period to come.
THEOREM TypeCorrect == Spec => []TypeOK
<1>1. ASSUME IInv PROVE TypeOK
  <2>1. Types /\ \A c \in Calls : Holds(c)
    BY <1>1 DEF IInv, Good
  <2>2. \A b \in Budgets : lock[b] # Free => lock[b] \in Calls
    BY <2>1 DEF Types
  <2>3. \A b \in Budgets : lock[b] # Free => b \in Touched(lock[b])
    BY <2>1, <2>2 DEF Holds
  <2>4. \A c \in Calls : call[c].pc \in Pcs
    BY <2>1 DEF Types, CallType
  <2> QED
    BY <2>1, <2>3, <2>4 DEF Types, TypeOK, Pcs
<1>2. IInv => TypeOK
  BY <1>1
<1> QED
  BY <1>2, InvariantHolds, PTL

\* What a budget shows as spent in its period is what its calls account for, however
\* many calls reserve, settle and fail at once and whenever the budget rolls over
\* (reserveSpend, reconcileBudgets, resetIfElapsed).
THEOREM SpendAccounted == Spec => []SpendIsAccounted
<1>1. IInv => SpendIsAccounted
  BY DEF IInv
<1> QED
  BY <1>1, InvariantHolds, PTL

\* A caller is told whether a retry could help, and told the truth, for any number
\* of deployments and retries (FallbackExhaustedError.retriable, mapProviderError).
THEOREM HonestAlways == Spec => []HonestAnswer
<1>1. IInv => HonestAnswer
  BY DEF IInv, Good, Honest, HonestAnswer
<1> QED
  BY <1>1, InvariantHolds, PTL

\* Once all is quiet, a budget past its line has had its alert in that period, unless
\* the exceptions that AlertSent names (detectBudgetCrossings, the lists of alerts in
\* reserveBudgets and reconcileBudgets, notifyBudgetCrossings).
THEOREM AlertReachesTeam == Spec => []AlertSent
<1>1. ASSUME IInv, AInv PROVE AlertSent
  <2>1. SUFFICES ASSUME NEW b \in Budgets, Regular(b),
                        \A c \in Calls : call[c].pc \in {"new", "done"},
                        \A c \in Calls : call[c].in[b] # 0 => Plain(c, b),
                        PastLine(b, spend[b])
                 PROVE  Warning(b) \in mails
    BY DEF AlertSent, Regular, Warning
  <2>2. \A c \in Calls : Fair(c, b)
    BY <2>1 DEF Fair, Plain, At
  <2>3. lock[b] = Free
    <3>1. \A c \in Calls : Touched(c) = {}
      BY <2>1 DEF Touched, InTransaction, At
    <3>2. \A c \in Calls : lock[b] # c
      BY <1>1, <3>1 DEF IInv, Good, Holds
    <3> QED
      BY <1>1, <3>2 DEF IInv, Types
  <2>4. Base(b) = spend[b]
    BY <1>1, <2>3, BaseIs
  <2>5. Warned(b)
    BY <1>1, <2>1, <2>2, <2>4 DEF AInv, AlertsKept
  <2>6. \A c \in Calls : ~Carries(c, b)
    BY <2>1 DEF Carries
  <2> QED
    BY <2>5, <2>6 DEF Warned
<1>2. IInv /\ AInv => AlertSent
  BY <1>1
<1> QED
  BY <1>2, InvariantHolds, AlertsHold, PTL
=============================================================================
