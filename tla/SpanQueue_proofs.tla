--------------------------- MODULE SpanQueue_proofs ---------------------------
(***************************************************************************)
(* For every program of reports, any caps, and however requests end: no    *)
(* span is forgotten, the queue waits for one request at a time, a span is *)
(* overtaken only after it was given up, and a buffer that is not empty is *)
(* served.  Two orders are kept.  What waits, the batch in flight and then *)
(* the buffer, is one queue whose entries of a group are in order (Clean): *)
(* splitting, merging, shedding and putting back a batch keep it so.  And  *)
(* a group that was sent is sound (Sound): an earlier span of its trace    *)
(* and flag is in it too, stored, or given up.  That stays so for as long  *)
(* as the request is at the server, whatever the client does meanwhile.    *)
(***************************************************************************)
EXTENDS SpanQueue, SequenceTheorems, Sums_proofs

-----------------------------------------------------------------------------
(***************************************************************************)
(* Sequences and their elements.                                           *)
(***************************************************************************)

LEMMA Elements ==
  ASSUME NEW S, NEW s \in Seq(S)
  PROVE  /\ ToSet(s) = {s[i] : i \in 1 .. Len(s)}
         /\ ToSet(s) \subseteq S
         /\ IsFiniteSet(ToSet(s))
<1>1. Len(s) \in Nat /\ DOMAIN s = 1 .. Len(s) /\ \A i \in 1 .. Len(s) : s[i] \in S
  OBVIOUS
<1>2. ToSet(s) = {s[i] : i \in 1 .. Len(s)}
  BY <1>1 DEF ToSet
<1>3. IsFiniteSet(1 .. Len(s))
  BY <1>1, FS_Interval
<1> DEFINE f == [i \in 1 .. Len(s) |-> s[i]]
<1>4. f \in Surjection(1 .. Len(s), ToSet(s))
  BY <1>2 DEF Surjection
<1>5. IsFiniteSet(ToSet(s))
  BY <1>3, <1>4, FS_Surjection
<1> QED
  BY <1>1, <1>2, <1>5

LEMMA ConcatElements ==
  ASSUME NEW S, NEW s \in Seq(S), NEW t \in Seq(S)
  PROVE  s \o t \in Seq(S) /\ ToSet(s \o t) = ToSet(s) \cup ToSet(t)
<1> DEFINE u == s \o t
<1>1. /\ u \in Seq(S) /\ Len(u) = Len(s) + Len(t)
      /\ Len(s) \in Nat /\ Len(t) \in Nat
      /\ \A i \in 1 .. Len(u) : u[i] = IF i <= Len(s) THEN s[i] ELSE t[i - Len(s)]
  BY ConcatProperties, LenProperties
<1> HIDE DEF u
<1>2. /\ ToSet(u) = {u[i] : i \in 1 .. Len(u)}
      /\ ToSet(s) = {s[i] : i \in 1 .. Len(s)}
      /\ ToSet(t) = {t[i] : i \in 1 .. Len(t)}
  BY <1>1, Elements
<1>3. ToSet(u) \subseteq ToSet(s) \cup ToSet(t)
  <2> SUFFICES ASSUME NEW i \in 1 .. Len(u) PROVE u[i] \in ToSet(s) \cup ToSet(t)
    BY <1>2
  <2>1. CASE i <= Len(s)
    BY <1>1, <1>2, <2>1
  <2>2. CASE i > Len(s)
    <3>1. i - Len(s) \in 1 .. Len(t) /\ u[i] = t[i - Len(s)]
      BY <1>1, <2>2
    <3> QED
      BY <1>2, <3>1
  <2> QED
    BY <1>1, <2>1, <2>2
<1>4. ToSet(s) \subseteq ToSet(u)
  <2> SUFFICES ASSUME NEW i \in 1 .. Len(s) PROVE s[i] \in ToSet(u)
    BY <1>2
  <2>1. i \in 1 .. Len(u) /\ u[i] = s[i]
    BY <1>1
  <2> QED
    BY <1>2, <2>1
<1>5. ToSet(t) \subseteq ToSet(u)
  <2> SUFFICES ASSUME NEW i \in 1 .. Len(t) PROVE t[i] \in ToSet(u)
    BY <1>2
  <2> DEFINE j == i + Len(s)
  <2>1. j \in 1 .. Len(u) /\ ~(j <= Len(s)) /\ j - Len(s) = i
    BY <1>1
  <2>2. u[j] = t[i]
    BY <1>1, <2>1
  <2> QED
    BY <1>2, <2>1, <2>2
<1> QED
  BY <1>1, <1>3, <1>4, <1>5 DEF u

\* A sequence falls into its first k elements and the others.
LEMMA Cut ==
  ASSUME NEW S, NEW s \in Seq(S), NEW k \in 0 .. Len(s)
  PROVE  /\ SubSeq(s, 1, k) \in Seq(S) /\ Len(SubSeq(s, 1, k)) = k
         /\ SubSeq(s, k + 1, Len(s)) \in Seq(S)
         /\ Len(SubSeq(s, k + 1, Len(s))) = Len(s) - k
         /\ SubSeq(s, 1, k) \o SubSeq(s, k + 1, Len(s)) = s
<1>1. Len(s) \in Nat /\ \A i \in 1 .. Len(s) : s[i] \in S
  OBVIOUS
<1>2. /\ SubSeq(s, 1, k) \in Seq(S)
      /\ Len(SubSeq(s, 1, k)) = IF 1 <= k THEN k - 1 + 1 ELSE 0
  <2>1. \A i \in 1 .. k : s[i] \in S
    BY <1>1
  <2> QED
    BY <2>1, SubSeqProperties, <1>1
<1>3. /\ SubSeq(s, k + 1, Len(s)) \in Seq(S)
      /\ Len(SubSeq(s, k + 1, Len(s))) = IF k + 1 <= Len(s) THEN Len(s) - (k + 1) + 1 ELSE 0
  <2>1. \A i \in (k + 1) .. Len(s) : s[i] \in S
    BY <1>1
  <2> QED
    BY <2>1, SubSeqProperties, <1>1
<1>4. SubSeq(s, 1, k) \o SubSeq(s, k + 1, Len(s)) = SubSeq(s, 1, Len(s))
  <2>1. /\ 1 \in 1 .. Len(s) + 1 /\ k \in (1 - 1) .. Len(s)
        /\ Len(s) \in k .. Len(s)
    BY <1>1
  <2> QED
    BY <2>1, ConcatAdjacentSubSeq
<1>5. SubSeq(s, 1, Len(s)) = s
  BY SubSeqFull
<1>6. Len(SubSeq(s, 1, k)) = k
  BY <1>1, <1>2
<1>7. Len(SubSeq(s, k + 1, Len(s))) = Len(s) - k
  <2>1. CASE k + 1 <= Len(s)
    BY <1>1, <1>3, <2>1
  <2>2. CASE k = Len(s)
    BY <1>1, <1>3, <2>2
  <2> QED
    BY <1>1, <2>1, <2>2
<1> QED
  BY <1>2, <1>3, <1>4, <1>5, <1>6, <1>7

LEMMA EmptyElements == ToSet(<<>>) = {}
BY Elements DEF ToSet

LEMMA OneElement ==
  ASSUME NEW S, NEW x \in S
  PROVE  <<x>> \in Seq(S) /\ Len(<<x>>) = 1 /\ <<x>>[1] = x /\ ToSet(<<x>>) = {x}
<1>1. <<x>> \in Seq(S) /\ Len(<<x>>) = 1 /\ <<x>>[1] = x
  OBVIOUS
<1>2. ToSet(<<x>>) = {<<x>>[i] : i \in 1 .. 1}
  BY <1>1, Elements
<1> QED
  BY <1>1, <1>2

-----------------------------------------------------------------------------
(***************************************************************************)
(* Spans of entries, and how many they are.                                *)
(***************************************************************************)

LEMMA SpansOf ==
  ASSUME NEW q \in Seq(EntryType)
  PROVE  /\ Spans(q) = UNION {ToSet(e.spans) : e \in ToSet(q)}
         /\ Spans(q) \subseteq Nat
         /\ IsFiniteSet(Spans(q))
<1>1. DOMAIN q = 1 .. Len(q) /\ ToSet(q) = {q[i] : i \in 1 .. Len(q)}
  BY Elements
<1>2. Spans(q) = UNION {ToSet(e.spans) : e \in ToSet(q)}
  BY <1>1 DEF Spans
<1>3. \A e \in ToSet(q) : e.spans \in Seq(Nat)
  <2>1. ToSet(q) \subseteq EntryType
    BY Elements
  <2> QED
    BY <2>1 DEF EntryType
<1>4. \A e \in ToSet(q) : ToSet(e.spans) \subseteq Nat /\ IsFiniteSet(ToSet(e.spans))
  BY <1>3, Elements
<1> DEFINE F == {ToSet(e.spans) : e \in ToSet(q)}
           f == [e \in ToSet(q) |-> ToSet(e.spans)]
<1>5. f \in Surjection(ToSet(q), F)
  BY DEF Surjection
<1>6. IsFiniteSet(F)
  BY <1>5, Elements, FS_Surjection
<1>7. IsFiniteSet(UNION F)
  BY <1>4, <1>6, FS_UNION
<1> QED
  BY <1>2, <1>4, <1>7

LEMMA TotalType ==
  ASSUME NEW q \in Seq(EntryType)
  PROVE  Total(q) \in Nat /\ (Spans(q) = {} => Total(q) = 0)
BY SpansOf, FS_CardinalityType, FS_EmptySet DEF Total

LEMMA SpansConcat ==
  ASSUME NEW a \in Seq(EntryType), NEW b \in Seq(EntryType)
  PROVE  /\ a \o b \in Seq(EntryType)
         /\ Spans(a \o b) = Spans(a) \cup Spans(b)
<1>1. a \o b \in Seq(EntryType) /\ ToSet(a \o b) = ToSet(a) \cup ToSet(b)
  BY ConcatElements
<1> DEFINE c == a \o b
<1>2. c \in Seq(EntryType) /\ ToSet(c) = ToSet(a) \cup ToSet(b)
  BY <1>1
<1> HIDE DEF c
<1>3. Spans(c) = UNION {ToSet(e.spans) : e \in ToSet(c)}
  BY <1>2, SpansOf
<1>4. /\ Spans(a) = UNION {ToSet(e.spans) : e \in ToSet(a)}
      /\ Spans(b) = UNION {ToSet(e.spans) : e \in ToSet(b)}
  BY SpansOf
<1>5. Spans(c) = Spans(a) \cup Spans(b)
  BY <1>2, <1>3, <1>4
<1> QED
  BY <1>1, <1>5 DEF c

LEMMA SpansOfOne ==
  ASSUME NEW e \in EntryType
  PROVE  /\ <<e>> \in Seq(EntryType) /\ Spans(<<e>>) = ToSet(e.spans)
         /\ e.spans \in Seq(Nat)
<1>1. <<e>> \in Seq(EntryType) /\ ToSet(<<e>>) = {e}
  BY OneElement
<1> DEFINE q == <<e>>
<1>2. q \in Seq(EntryType) /\ ToSet(q) = {e}
  BY <1>1
<1> HIDE DEF q
<1>3. Spans(q) = UNION {ToSet(f.spans) : f \in {e}}
  BY <1>2, SpansOf
<1>4. Spans(q) = ToSet(e.spans)
  BY <1>3
<1> QED
  BY <1>1, <1>4 DEF q, EntryType

LEMMA NoSpans == <<>> \in Seq(EntryType) /\ Spans(<<>>) = {} /\ Total(<<>>) = 0
<1>1. <<>> \in Seq(EntryType)
  OBVIOUS
<1>2. Spans(<<>>) = {}
  BY DEF Spans
<1> QED
  BY <1>1, <1>2, TotalType

\* An increasing sequence has as many elements as it is long.
LEMMA IncreasingCount ==
  ASSUME NEW s \in Seq(Nat), Increasing(s)
  PROVE  Cardinality(ToSet(s)) = Len(s)
<1>1. Len(s) \in Nat /\ DOMAIN s = 1 .. Len(s) /\ s \in [1 .. Len(s) -> Nat]
  OBVIOUS
<1>2. ToSet(s) = {s[i] : i \in 1 .. Len(s)}
  BY Elements
<1>3. s \in [1 .. Len(s) -> ToSet(s)]
  BY <1>1, <1>2
<1>4. ASSUME NEW i \in 1 .. Len(s), NEW j \in 1 .. Len(s), s[i] = s[j] PROVE i = j
  <2>1. /\ i < j => s[i] < s[j]
        /\ j < i => s[j] < s[i]
    BY <1>1 DEF Increasing
  <2>2. s[i] \in Nat /\ s[j] \in Nat /\ i \in Nat /\ j \in Nat
    BY <1>1
  <2> QED
    BY <1>4, <2>1, <2>2
<1>5. s \in Injection(1 .. Len(s), ToSet(s))
  BY <1>1, <1>3, <1>4 DEF Injection, IsInjective
<1>6. s \in Surjection(1 .. Len(s), ToSet(s))
  BY <1>2, <1>3 DEF Surjection
<1>7. ExistsBijection(1 .. Len(s), ToSet(s))
  BY <1>5, <1>6 DEF ExistsBijection, Bijection
<1> QED
  BY <1>1, <1>7, FS_CountingElements

-----------------------------------------------------------------------------
(***************************************************************************)
(* A queue in order: no span is in it twice, and of two entries of a group *)
(* the one in front is older.                                              *)
(***************************************************************************)

Apart(e, f) == ToSet(e.spans) \cap ToSet(f.spans) = {}
Precedes(e, f) == Apart(e, f) /\ (SameGroup(e, f) => Before(e, f))

Clean(q) ==
  /\ q \in Seq(EntryType)
  /\ \A e \in ToSet(q) : Increasing(e.spans)
  /\ \A i, j \in 1 .. Len(q) : i < j => Precedes(q[i], q[j])
Cross(a, b) == \A e \in ToSet(a), f \in ToSet(b) : Precedes(e, f)

LEMMA CleanConcat ==
  ASSUME NEW a \in Seq(EntryType), NEW b \in Seq(EntryType)
  PROVE  Clean(a \o b) <=> Clean(a) /\ Clean(b) /\ Cross(a, b)
<1> DEFINE c == a \o b
<1>1. /\ c \in Seq(EntryType) /\ Len(c) = Len(a) + Len(b)
      /\ Len(a) \in Nat /\ Len(b) \in Nat
      /\ \A i \in 1 .. Len(c) : c[i] = IF i <= Len(a) THEN a[i] ELSE b[i - Len(a)]
  BY ConcatProperties, LenProperties
<1>2. ToSet(c) = ToSet(a) \cup ToSet(b)
  BY ConcatElements
<1>3. /\ ToSet(a) = {a[i] : i \in 1 .. Len(a)}
      /\ ToSet(b) = {b[i] : i \in 1 .. Len(b)}
  BY Elements
<1> HIDE DEF c
<1>4. \A i \in 1 .. Len(a) : i \in 1 .. Len(c) /\ c[i] = a[i]
  BY <1>1
<1>5. ASSUME NEW j \in 1 .. Len(b)
      PROVE  j + Len(a) \in 1 .. Len(c) /\ c[j + Len(a)] = b[j]
  <2> DEFINE k == j + Len(a)
  <2>1. k \in 1 .. Len(c) /\ ~(k <= Len(a)) /\ k - Len(a) = j
    BY <1>1
  <2>2. c[k] = b[j]
    BY <1>1, <2>1
  <2> QED
    BY <2>1, <2>2
<1>6. ASSUME Clean(c) PROVE Clean(a) /\ Clean(b) /\ Cross(a, b)
  <2>1. Clean(a)
    BY <1>1, <1>2, <1>4, <1>6 DEF Clean
  <2>2. ASSUME NEW i \in 1 .. Len(b), NEW j \in 1 .. Len(b), i < j
        PROVE  Precedes(b[i], b[j])
    <3>1. i + Len(a) < j + Len(a)
      BY <1>1, <2>2
    <3> QED
      BY <1>5, <1>6, <3>1 DEF Clean
  <2>3. Clean(b)
    BY <1>2, <1>6, <2>2 DEF Clean
  <2>4. ASSUME NEW i \in 1 .. Len(a), NEW j \in 1 .. Len(b)
        PROVE  Precedes(a[i], b[j])
    <3>1. i < j + Len(a)
      BY <1>1
    <3> QED
      BY <1>4, <1>5, <1>6, <3>1 DEF Clean
  <2>5. Cross(a, b)
    BY <1>3, <2>4 DEF Cross
  <2> QED
    BY <2>1, <2>3, <2>5
<1>7. ASSUME Clean(a), Clean(b), Cross(a, b) PROVE Clean(c)
  <2>1. \A e \in ToSet(c) : Increasing(e.spans)
    BY <1>2, <1>7 DEF Clean
  <2>2. ASSUME NEW i \in 1 .. Len(c), NEW j \in 1 .. Len(c), i < j
        PROVE  Precedes(c[i], c[j])
    <3>1. CASE j <= Len(a)
      <4>1. i \in 1 .. Len(a) /\ j \in 1 .. Len(a)
        BY <1>1, <2>2, <3>1
      <4> QED
        BY <1>4, <1>7, <2>2, <4>1 DEF Clean
    <3>2. CASE i > Len(a)
      <4>1. /\ i - Len(a) \in 1 .. Len(b) /\ j - Len(a) \in 1 .. Len(b)
            /\ i - Len(a) < j - Len(a)
        BY <1>1, <2>2, <3>2
      <4>2. c[i] = b[i - Len(a)] /\ c[j] = b[j - Len(a)]
        BY <1>1, <2>2, <3>2
      <4> QED
        BY <1>7, <4>1, <4>2 DEF Clean
    <3>3. CASE i <= Len(a) /\ j > Len(a)
      <4>1. i \in 1 .. Len(a) /\ j - Len(a) \in 1 .. Len(b)
        BY <1>1, <3>3
      <4>2. c[i] = a[i] /\ c[j] = b[j - Len(a)]
        BY <1>1, <3>3
      <4> QED
        BY <1>3, <1>7, <4>1, <4>2 DEF Cross
    <3> QED
      BY <1>1, <3>1, <3>2, <3>3
  <2> QED
    BY <1>1, <2>1, <2>2 DEF Clean
<1> QED
  BY <1>6, <1>7 DEF c

LEMMA CleanOne ==
  ASSUME NEW e \in EntryType, Increasing(e.spans)
  PROVE  Clean(<<e>>)
BY OneElement DEF Clean

LEMMA CleanEmpty == Clean(<<>>)
BY EmptyElements DEF Clean

\* What is apart adds up.
LEMMA TotalConcat ==
  ASSUME NEW a \in Seq(EntryType), NEW b \in Seq(EntryType), Cross(a, b)
  PROVE  Total(a \o b) = Total(a) + Total(b)
<1>1. Spans(a) \cap Spans(b) = {}
  <2> SUFFICES ASSUME NEW s \in Spans(a), s \in Spans(b) PROVE FALSE
    OBVIOUS
  <2>1. PICK e \in ToSet(a) : s \in ToSet(e.spans)
    BY SpansOf
  <2>2. PICK f \in ToSet(b) : s \in ToSet(f.spans)
    BY SpansOf
  <2> QED
    BY <2>1, <2>2 DEF Cross, Precedes, Apart
<1>2. Cardinality(Spans(a) \cap Spans(b)) = 0
  BY <1>1, FS_EmptySet
<1>3. Cardinality(Spans(a) \cup Spans(b))
        = Cardinality(Spans(a)) + Cardinality(Spans(b)) - Cardinality(Spans(a) \cap Spans(b))
  BY SpansOf, FS_Union
<1>4. Total(a \o b) = Cardinality(Spans(a) \cup Spans(b))
  BY SpansConcat DEF Total
<1>5. Total(a) \in Nat /\ Total(b) \in Nat
  BY TotalType
<1>6. Cardinality(Spans(a) \cup Spans(b)) = Total(a) + Total(b) - 0
  BY <1>2, <1>3 DEF Total
<1> QED
  BY <1>4, <1>5, <1>6

\* A queue in order falls into two, in order, whose spans add up.
LEMMA CleanCut ==
  ASSUME NEW q, Clean(q), NEW k \in 0 .. Len(q)
  PROVE  LET front == SubSeq(q, 1, k)
             back  == SubSeq(q, k + 1, Len(q))
         IN  /\ front \in Seq(EntryType) /\ back \in Seq(EntryType)
             /\ Clean(front) /\ Clean(back) /\ Cross(front, back)
             /\ ToSet(q) = ToSet(front) \cup ToSet(back)
             /\ Spans(q) = Spans(front) \cup Spans(back)
             /\ Total(q) = Total(front) + Total(back)
<1>0. q \in Seq(EntryType)
  BY DEF Clean
<1> DEFINE front == SubSeq(q, 1, k)
           back  == SubSeq(q, k + 1, Len(q))
<1>1. front \in Seq(EntryType) /\ back \in Seq(EntryType) /\ front \o back = q
  BY <1>0, Cut
<1> HIDE DEF front, back
<1>2. Clean(front) /\ Clean(back) /\ Cross(front, back)
  BY <1>1, CleanConcat
<1>3. /\ ToSet(q) = ToSet(front) \cup ToSet(back)
      /\ Spans(q) = Spans(front) \cup Spans(back)
      /\ Total(q) = Total(front) + Total(back)
  <2>1. ToSet(front \o back) = ToSet(front) \cup ToSet(back)
    BY <1>1, ConcatElements
  <2>2. Spans(front \o back) = Spans(front) \cup Spans(back)
    BY <1>1, SpansConcat
  <2>3. Total(front \o back) = Total(front) + Total(back)
    BY <1>1, <1>2, TotalConcat
  <2> QED
    BY <1>1, <2>1, <2>2, <2>3
<1> QED
  BY <1>1, <1>2, <1>3 DEF front, back

-----------------------------------------------------------------------------
(***************************************************************************)
(* Merging.                                                                *)
(***************************************************************************)

Distinct(q) == \A i, j \in 1 .. Len(q) : i # j => ~SameGroup(q[i], q[j])

\* A group is made of some of the entries es, which agree with it.
Made(g, es) ==
  \E made \in SUBSET es :
    /\ made # {}
    /\ \A e \in made : e.trace = g.trace /\ e.capture = g.capture
    /\ ToSet(g.spans) = UNION {ToSet(e.spans) : e \in made}

Groups(groups, es) ==
  /\ Clean(groups) /\ Distinct(groups)
  /\ Spans(groups) = UNION {ToSet(e.spans) : e \in es}
  /\ \A g \in ToSet(groups) : Made(g, es)

LEMMA MadePrecedes ==
  ASSUME NEW es, NEW g, Made(g, es), NEW f, \A e \in es : Precedes(e, f)
  PROVE  Precedes(g, f)
<1>1. PICK made \in SUBSET es :
        /\ made # {}
        /\ \A e \in made : e.trace = g.trace /\ e.capture = g.capture
        /\ ToSet(g.spans) = UNION {ToSet(e.spans) : e \in made}
  BY DEF Made
<1>2. Apart(g, f)
  BY <1>1 DEF Precedes, Apart
<1>3. ASSUME SameGroup(g, f) PROVE Before(g, f)
  <2>1. \A e \in made : SameGroup(e, f)
    BY <1>1, <1>3 DEF SameGroup
  <2>2. \A e \in made : Before(e, f)
    BY <2>1 DEF Precedes
  <2> QED
    BY <1>1, <2>2 DEF Before
<1> QED
  BY <1>2, <1>3 DEF Precedes

LEMMA MadeMore ==
  ASSUME NEW es, NEW g, Made(g, es), NEW e
  PROVE  Made(g, es \cup {e})
BY DEF Made

LEMMA IncreasingConcat ==
  ASSUME NEW s \in Seq(Nat), NEW t \in Seq(Nat), Increasing(s), Increasing(t),
         \A x \in ToSet(s), y \in ToSet(t) : x < y
  PROVE  s \o t \in Seq(Nat) /\ Increasing(s \o t)
<1> DEFINE u == s \o t
<1>1. /\ u \in Seq(Nat) /\ Len(u) = Len(s) + Len(t)
      /\ Len(s) \in Nat /\ Len(t) \in Nat
      /\ \A i \in 1 .. Len(u) : u[i] = IF i <= Len(s) THEN s[i] ELSE t[i - Len(s)]
  BY ConcatProperties, LenProperties
<1>2. /\ ToSet(s) = {s[i] : i \in 1 .. Len(s)}
      /\ ToSet(t) = {t[i] : i \in 1 .. Len(t)}
  BY Elements
<1>3. DOMAIN s = 1 .. Len(s) /\ DOMAIN t = 1 .. Len(t) /\ DOMAIN u = 1 .. Len(u)
  BY <1>1
<1> HIDE DEF u
<1>4. ASSUME NEW i \in 1 .. Len(u), NEW j \in 1 .. Len(u), i < j
      PROVE  u[i] < u[j]
  <2>1. CASE j <= Len(s)
    <3>1. i \in 1 .. Len(s) /\ j \in 1 .. Len(s) /\ u[i] = s[i] /\ u[j] = s[j]
      BY <1>1, <1>4, <2>1
    <3> QED
      BY <1>3, <1>4, <3>1 DEF Increasing
  <2>2. CASE i > Len(s)
    <3>1. /\ i - Len(s) \in 1 .. Len(t) /\ j - Len(s) \in 1 .. Len(t)
          /\ i - Len(s) < j - Len(s)
      BY <1>1, <1>4, <2>2
    <3>2. u[i] = t[i - Len(s)] /\ u[j] = t[j - Len(s)]
      BY <1>1, <1>4, <2>2
    <3> QED
      BY <1>3, <3>1, <3>2 DEF Increasing
  <2>3. CASE i <= Len(s) /\ j > Len(s)
    <3>1. i \in 1 .. Len(s) /\ j - Len(s) \in 1 .. Len(t)
      BY <1>1, <2>3
    <3>2. u[i] = s[i] /\ u[j] = t[j - Len(s)]
      BY <1>1, <2>3
    <3> QED
      BY <1>2, <3>1, <3>2
  <2> QED
    BY <1>1, <2>1, <2>2, <2>3
<1>5. Increasing(u)
  BY <1>3, <1>4 DEF Increasing
<1> QED
  BY <1>1, <1>5 DEF u

\* An entry that is the first of its group is put behind the others.
LEMMA TurnAppends ==
  ASSUME NEW es \in SUBSET EntryType, NEW groups, Groups(groups, es),
         NEW entry \in EntryType, Increasing(entry.spans),
         \A e \in es : Precedes(e, entry),
         ~ \E g \in ToSet(groups) : SameGroup(g, entry)
  PROVE  Groups(groups \o <<entry>>, es \cup {entry})
<1> DEFINE h == groups \o <<entry>>
<1>1. groups \in Seq(EntryType) /\ Clean(groups)
  BY DEF Groups, Clean
<1>2. /\ <<entry>> \in Seq(EntryType) /\ ToSet(<<entry>>) = {entry}
      /\ Clean(<<entry>>) /\ Spans(<<entry>>) = ToSet(entry.spans)
  BY OneElement, CleanOne, SpansOfOne
<1>3. \A g \in ToSet(groups) : Precedes(g, entry)
  BY MadePrecedes DEF Groups
<1>4. Clean(h)
  <2>1. Cross(groups, <<entry>>)
    BY <1>2, <1>3 DEF Cross
  <2> QED
    BY <1>1, <1>2, <2>1, CleanConcat
<1>5. Distinct(h)
  <2>1. /\ Len(h) = Len(groups) + 1 /\ Len(groups) \in Nat
        /\ \A i \in 1 .. Len(groups) : h[i] = groups[i]
        /\ h[Len(groups) + 1] = entry
    <3>1. Append(groups, entry) = h
      BY <1>1, AppendIsConcat
    <3> HIDE DEF h
    <3>2. /\ Len(Append(groups, entry)) = Len(groups) + 1
          /\ \A i \in 1 .. Len(groups) : Append(groups, entry)[i] = groups[i]
          /\ Append(groups, entry)[Len(groups) + 1] = entry
      BY <1>1, AppendProperties
    <3> QED
      BY <1>1, <3>1, <3>2, LenProperties
  <2> HIDE DEF h
  <2>2. \A i \in 1 .. Len(groups) : groups[i] \in ToSet(groups)
    BY <1>1, Elements
  <2> SUFFICES ASSUME NEW i \in 1 .. Len(h), NEW j \in 1 .. Len(h), i # j
               PROVE  ~SameGroup(h[i], h[j])
    BY DEF Distinct
  <2>3. CASE i <= Len(groups) /\ j <= Len(groups)
    BY <2>1, <2>3 DEF Groups, Distinct
  <2>4. CASE i <= Len(groups) /\ j = Len(groups) + 1
    BY <2>1, <2>2, <2>4
  <2>5. CASE i = Len(groups) + 1 /\ j <= Len(groups)
    BY <2>1, <2>2, <2>5 DEF SameGroup
  <2> QED
    BY <2>1, <2>3, <2>4, <2>5
<1>6. Spans(h) = UNION {ToSet(e.spans) : e \in es \cup {entry}}
  <2>1. Spans(h) = Spans(groups) \cup ToSet(entry.spans)
    BY <1>1, <1>2, SpansConcat
  <2> QED
    BY <2>1 DEF Groups
<1>7. ASSUME NEW g \in ToSet(h) PROVE Made(g, es \cup {entry})
  <2>1. ToSet(h) = ToSet(groups) \cup {entry}
    <3> DEFINE one == <<entry>>
    <3>1. one \in Seq(EntryType) /\ ToSet(one) = {entry}
      BY <1>2
    <3> HIDE DEF one
    <3>2. ToSet(groups \o one) = ToSet(groups) \cup {entry}
      BY <1>1, <3>1, ConcatElements
    <3> QED
      BY <3>2 DEF one
  <2>2. CASE g \in ToSet(groups)
    BY <2>2, MadeMore DEF Groups
  <2>3. CASE g = entry
    <3>1. ToSet(g.spans) = UNION {ToSet(e.spans) : e \in {entry}}
      BY <2>3
    <3> QED
      BY <2>3, <3>1 DEF Made
  <2> QED
    BY <2>1, <2>2, <2>3
<1> QED
  BY <1>4, <1>5, <1>6, <1>7 DEF Groups

\* An entry is put behind the spans of its group.
LEMMA TurnJoins ==
  ASSUME NEW es \in SUBSET EntryType, NEW groups, Groups(groups, es),
         NEW entry \in EntryType, Increasing(entry.spans),
         \A e \in es : Precedes(e, entry),
         \E g \in ToSet(groups) : SameGroup(g, entry)
  PROVE  Groups([i \in DOMAIN groups |->
                   IF SameGroup(groups[i], entry)
                   THEN [groups[i] EXCEPT !.spans = @ \o entry.spans] ELSE groups[i]],
                es \cup {entry})
<1> DEFINE h == [i \in DOMAIN groups |->
                   IF SameGroup(groups[i], entry)
                   THEN [groups[i] EXCEPT !.spans = @ \o entry.spans] ELSE groups[i]]
<1>1. /\ groups \in Seq(EntryType) /\ Clean(groups) /\ Distinct(groups)
      /\ DOMAIN groups = 1 .. Len(groups) /\ Len(groups) \in Nat
      /\ ToSet(groups) = {groups[i] : i \in 1 .. Len(groups)}
      /\ \A i \in 1 .. Len(groups) : groups[i] \in ToSet(groups) /\ groups[i] \in EntryType
  <2>1. groups \in Seq(EntryType) /\ Clean(groups) /\ Distinct(groups)
    BY DEF Groups, Clean
  <2> QED
    BY <2>1, Elements
<1>2. PICK k \in 1 .. Len(groups) : SameGroup(groups[k], entry)
  BY <1>1
<1>3. \A i \in 1 .. Len(groups) : i # k => ~SameGroup(groups[i], entry)
  <2> SUFFICES ASSUME NEW i \in 1 .. Len(groups), i # k, SameGroup(groups[i], entry)
               PROVE  SameGroup(groups[i], groups[k])
    BY <1>1 DEF Distinct
  <2> QED
    BY <1>2 DEF SameGroup
<1>4. Precedes(groups[k], entry) /\ \A g \in ToSet(groups) : Precedes(g, entry)
  BY <1>1, MadePrecedes DEF Groups
<1> DEFINE joined == [groups[k] EXCEPT !.spans = @ \o entry.spans]
<1>5. /\ joined \in EntryType /\ joined.trace = groups[k].trace
      /\ joined.capture = groups[k].capture
      /\ Increasing(joined.spans)
      /\ ToSet(joined.spans) = ToSet(groups[k].spans) \cup ToSet(entry.spans)
  <2>1. groups[k].spans \in Seq(Nat) /\ entry.spans \in Seq(Nat)
    BY <1>1 DEF EntryType
  <2>2. Increasing(groups[k].spans)
    BY <1>1 DEF Clean
  <2>3. \A x \in ToSet(groups[k].spans), y \in ToSet(entry.spans) : x < y
    BY <1>2, <1>4 DEF Precedes, Before
  <2>4. /\ groups[k].spans \o entry.spans \in Seq(Nat)
        /\ Increasing(groups[k].spans \o entry.spans)
    BY <2>1, <2>2, <2>3, IncreasingConcat
  <2>5. ToSet(groups[k].spans \o entry.spans) = ToSet(groups[k].spans) \cup ToSet(entry.spans)
    BY <2>1, ConcatElements
  <2>6. /\ joined.spans = groups[k].spans \o entry.spans
        /\ joined.trace = groups[k].trace /\ joined.capture = groups[k].capture
    BY <1>1 DEF EntryType
  <2>7. joined \in EntryType
    BY <1>1, <2>4 DEF EntryType
  <2> QED
    BY <2>4, <2>5, <2>6, <2>7
<1>6. /\ DOMAIN h = 1 .. Len(groups)
      /\ h[k] = joined
      /\ \A i \in 1 .. Len(groups) : i # k => h[i] = groups[i]
  BY <1>1, <1>2, <1>3
<1> HIDE DEF h, joined
<1>7. \A i \in 1 .. Len(groups) :
        /\ h[i] \in EntryType
        /\ h[i].trace = groups[i].trace /\ h[i].capture = groups[i].capture
        /\ Increasing(h[i].spans)
  BY <1>1, <1>5, <1>6 DEF Clean
<1>8. h \in Seq(EntryType) /\ Len(h) = Len(groups)
  <2>1. h = [groups EXCEPT ![k] = joined]
    BY <1>1, <1>6 DEF h
  <2> QED
    BY <1>1, <1>5, <2>1, ExceptSeq
<1>9. ToSet(h) = {h[i] : i \in 1 .. Len(groups)}
  BY <1>8, Elements
<1>10. Distinct(h)
  <2> SUFFICES ASSUME NEW i \in 1 .. Len(groups), NEW j \in 1 .. Len(groups), i # j
               PROVE  ~SameGroup(h[i], h[j])
    BY <1>8 DEF Distinct
  <2>1. ~SameGroup(groups[i], groups[j])
    BY <1>1 DEF Distinct
  <2>2. /\ h[i].trace = groups[i].trace /\ h[i].capture = groups[i].capture
        /\ h[j].trace = groups[j].trace /\ h[j].capture = groups[j].capture
    BY <1>7
  <2> QED
    BY <2>1, <2>2 DEF SameGroup
<1>11. Clean(h)
  <2>1. ASSUME NEW i \in 1 .. Len(groups), NEW j \in 1 .. Len(groups), i < j
        PROVE  Precedes(h[i], h[j])
    <3>1. Apart(groups[i], groups[j])
      BY <1>1, <2>1 DEF Clean, Precedes
    <3>2. Apart(h[i], h[j])
      <4>1. CASE i = k
        <5>1. h[i] = joined /\ h[j] = groups[j] /\ Precedes(groups[j], entry)
          BY <1>1, <1>4, <1>6, <2>1, <4>1
        <5> QED
          BY <1>5, <3>1, <4>1, <5>1 DEF Apart, Precedes
      <4>2. CASE j = k
        <5>0. i # k
          BY <1>1, <2>1, <4>2
        <5>1. h[j] = joined /\ h[i] = groups[i] /\ Precedes(groups[i], entry)
          BY <1>1, <1>4, <1>6, <4>2, <5>0
        <5> QED
          BY <1>5, <3>1, <4>2, <5>1 DEF Apart, Precedes
      <4>3. CASE i # k /\ j # k
        BY <1>6, <3>1, <4>3
      <4> QED
        BY <4>1, <4>2, <4>3
    <3>3. ~SameGroup(h[i], h[j])
      BY <1>8, <1>10, <2>1 DEF Distinct
    <3> QED
      BY <3>2, <3>3 DEF Precedes
  <2> QED
    BY <1>7, <1>8, <1>9, <2>1 DEF Clean
<1>12. Spans(h) = UNION {ToSet(e.spans) : e \in es \cup {entry}}
  <2>1. Spans(groups) = UNION {ToSet(groups[i].spans) : i \in 1 .. Len(groups)}
    BY <1>1 DEF Spans
  <2>2. Spans(h) = UNION {ToSet(h[i].spans) : i \in 1 .. Len(groups)}
    BY <1>6 DEF Spans
  <2>3. Spans(h) = Spans(groups) \cup ToSet(entry.spans)
    <3>1. \A i \in 1 .. Len(groups) :
            /\ ToSet(groups[i].spans) \subseteq ToSet(h[i].spans)
            /\ ToSet(h[i].spans) \subseteq ToSet(groups[i].spans) \cup ToSet(entry.spans)
      BY <1>5, <1>6
    <3>2. ToSet(entry.spans) \subseteq ToSet(h[k].spans)
      BY <1>5, <1>6
    <3>3. Spans(groups) \subseteq Spans(h)
      BY <2>1, <2>2, <3>1
    <3>4. ToSet(entry.spans) \subseteq Spans(h)
      BY <2>2, <3>2
    <3>5. Spans(h) \subseteq Spans(groups) \cup ToSet(entry.spans)
      BY <2>1, <2>2, <3>1
    <3> QED
      BY <3>3, <3>4, <3>5
  <2> QED
    BY <2>3 DEF Groups
<1>13. ASSUME NEW i \in 1 .. Len(groups) PROVE Made(h[i], es \cup {entry})
  <2>1. CASE i # k
    BY <1>1, <1>6, <2>1, MadeMore DEF Groups
  <2>2. CASE i = k
    <3>1. PICK made \in SUBSET es :
            /\ made # {}
            /\ \A e \in made : e.trace = groups[k].trace /\ e.capture = groups[k].capture
            /\ ToSet(groups[k].spans) = UNION {ToSet(e.spans) : e \in made}
      BY <1>1 DEF Groups, Made
    <3>2. entry.trace = groups[k].trace /\ entry.capture = groups[k].capture
      BY <1>2 DEF SameGroup
    <3> DEFINE more == made \cup {entry}
    <3>3. /\ more \in SUBSET (es \cup {entry}) /\ more # {}
          /\ \A e \in more : e.trace = joined.trace /\ e.capture = joined.capture
      BY <1>5, <3>1, <3>2
    <3>4. ToSet(joined.spans) = UNION {ToSet(e.spans) : e \in more}
      BY <1>5, <3>1
    <3> QED
      BY <1>6, <2>2, <3>3, <3>4 DEF Made
  <2> QED
    BY <2>1, <2>2
<1> QED
  BY <1>9, <1>10, <1>11, <1>12, <1>13 DEF Groups, h

LEMMA Turn ==
  ASSUME NEW es \in SUBSET EntryType, NEW groups, Groups(groups, es),
         NEW entry \in EntryType, Increasing(entry.spans),
         \A e \in es : Precedes(e, entry)
  PROVE  Groups(Merged(groups, entry), es \cup {entry})
<1>1. CASE \E g \in ToSet(groups) : SameGroup(g, entry)
  BY <1>1, TurnJoins DEF Merged
<1>2. CASE ~ \E g \in ToSet(groups) : SameGroup(g, entry)
  <2>1. groups \in Seq(EntryType)
    BY DEF Groups, Clean
  <2>2. Append(groups, entry) = groups \o <<entry>>
    BY <2>1, AppendIsConcat
  <2> QED
    BY <1>2, <2>2, TurnAppends DEF Merged
<1> QED
  BY <1>1, <1>2

\* The turns of mergeByTraceId, as the function of their number that its definition
\* names; that there is one is by induction on the turns.
IsFold(f, es, n) ==
  f = [i \in 0 .. n |-> IF i = 0 THEN <<>> ELSE Merged(f[i - 1], es[i])]

LEMMA FoldExists ==
  ASSUME NEW es, NEW n \in Nat
  PROVE  \E f : IsFold(f, es, n)
<1> DEFINE T == {m \in Nat : \E f : IsFold(f, es, m)}
<1>1. 0 \in T
  <2> DEFINE f == [i \in 0 .. 0 |-> <<>>]
  <2>1. IsFold(f, es, 0)
    BY DEF IsFold
  <2> QED
    BY <2>1
<1>2. ASSUME NEW m \in T PROVE m + 1 \in T
  <2>1. PICK f : IsFold(f, es, m)
    BY <1>2
  <2>2. m \in Nat
    BY <1>2
  <2> DEFINE g == [i \in 0 .. (m + 1) |-> IF i = m + 1 THEN Merged(f[m], es[m + 1]) ELSE f[i]]
  <2>3. ASSUME NEW i \in 0 .. (m + 1)
        PROVE  g[i] = IF i = 0 THEN <<>> ELSE Merged(g[i - 1], es[i])
    <3>1. CASE i = m + 1
      <4>1. i - 1 = m /\ i # 0 /\ m \in 0 .. (m + 1) /\ m # m + 1
        BY <2>2, <3>1
      <4>2. g[m] = f[m]
        BY <4>1
      <4> QED
        BY <3>1, <4>1, <4>2
    <3>2. CASE i \in 0 .. m
      <4>1. g[i] = f[i] /\ i # m + 1
        BY <2>2, <3>2
      <4>2. f[i] = IF i = 0 THEN <<>> ELSE Merged(f[i - 1], es[i])
        BY <2>1, <3>2 DEF IsFold
      <4>3. i # 0 => g[i - 1] = f[i - 1]
        BY <2>2, <3>2
      <4> QED
        BY <4>1, <4>2, <4>3
    <3> QED
      BY <2>2, <3>1, <3>2
  <2>4. IsFold(g, es, m + 1)
    BY <2>3 DEF IsFold
  <2> QED
    BY <2>2, <2>4
<1> HIDE DEF T
<1>3. T = Nat
  BY <1>1, <1>2, Induction DEF T
<1> QED
  BY <1>3 DEF T

\* What is merged is in order if the entries were, with one entry for a group, and
\* has the same spans; an entry without a trace id stays as it is.
LEMMA MergeInOrder ==
  ASSUME NEW es, Clean(es)
  PROVE  /\ Groups(MergeByTraceId(es), ToSet(es))
         /\ Len(es) = 1 => MergeByTraceId(es) = es
<1>1. /\ es \in Seq(EntryType) /\ Len(es) \in Nat
      /\ ToSet(es) = {es[i] : i \in 1 .. Len(es)}
      /\ \A i \in 1 .. Len(es) : es[i] \in EntryType /\ Increasing(es[i].spans)
  <2>1. es \in Seq(EntryType)
    BY DEF Clean
  <2> QED
    BY <2>1, Elements DEF Clean
<1> DEFINE f == CHOOSE g : IsFold(g, es, Len(es))
<1>2. MergeByTraceId(es) = f[Len(es)]
  BY DEF MergeByTraceId, IsFold
<1>3. IsFold(f, es, Len(es))
  BY <1>1, FoldExists
<1> HIDE DEF f
<1>4. \A i \in 0 .. Len(es) : f[i] = IF i = 0 THEN <<>> ELSE Merged(f[i - 1], es[i])
  BY <1>3 DEF IsFold
<1> DEFINE front(n) == {es[i] : i \in 1 .. n}
           T == {n \in Nat : n <= Len(es) => Groups(f[n], front(n))}
<1>5. 0 \in T
  <2>1. front(0) = {} /\ f[0] = <<>>
    BY <1>1, <1>4
  <2>2. Groups(<<>>, {})
    BY CleanEmpty, NoSpans, EmptyElements DEF Groups, Distinct
  <2> QED
    BY <2>1, <2>2
<1>6. ASSUME NEW n \in T PROVE n + 1 \in T
  <2>0. n \in Nat
    BY <1>6
  <2> SUFFICES ASSUME n + 1 <= Len(es) PROVE Groups(f[n + 1], front(n + 1))
    BY <2>0
  <2>1. /\ n + 1 \in 1 .. Len(es) /\ n + 1 \in 0 .. Len(es) /\ n <= Len(es)
        /\ n + 1 # 0 /\ (n + 1) - 1 = n
    BY <1>1, <2>0
  <2>2. Groups(f[n], front(n))
    BY <1>6, <2>1
  <2>3. f[n + 1] = Merged(f[n], es[n + 1])
    BY <1>4, <2>1
  <2>4. front(n) \in SUBSET EntryType
    BY <1>1, <2>0, <2>1
  <2>5. ASSUME NEW e \in front(n) PROVE Precedes(e, es[n + 1])
    <3>1. PICK i \in 1 .. n : e = es[i]
      BY <2>5
    <3>2. i \in 1 .. Len(es) /\ i < n + 1
      BY <1>1, <2>0, <2>1
    <3> QED
      BY <2>1, <3>1, <3>2 DEF Clean
  <2>6. front(n + 1) = front(n) \cup {es[n + 1]}
    <3>1. 1 .. (n + 1) = (1 .. n) \cup {n + 1}
      BY <2>0
    <3> QED
      BY <3>1
  <2> HIDE DEF front
  <2> QED
    BY <1>1, <2>1, <2>2, <2>3, <2>4, <2>5, <2>6, Turn
<1>7. T \subseteq Nat
  OBVIOUS
<1> HIDE DEF T
<1>8. T = Nat
  BY <1>5, <1>6, <1>7, Induction
<1>10. Len(es) \in T
  BY <1>1, <1>8
<1>11. Groups(f[Len(es)], front(Len(es)))
  BY <1>1, <1>10 DEF T
<1>9. ASSUME Len(es) = 1 PROVE f[1] = es
  <2>1. f[0] = <<>> /\ f[1] = Merged(f[0], es[1])
    BY <1>1, <1>4, <1>9
  <2>2. Merged(<<>>, es[1]) = Append(<<>>, es[1])
    BY EmptyElements DEF Merged
  <2>3. Append(<<>>, es[1]) = es
    BY <1>1, <1>9
  <2> QED
    BY <2>1, <2>2, <2>3
<1> QED
  BY <1>1, <1>2, <1>9, <1>11

-----------------------------------------------------------------------------
(***************************************************************************)
(* Taking a batch.                                                         *)
(***************************************************************************)

Bounded(batch) ==
  \/ Total(batch) <= MaxBatchSpans
  \/ Len(batch) = 1 /\ batch[1].trace = None

\* The spans of an entry come from entries of es of its trace and capture flag.
From(x, es) ==
  \A s \in ToSet(x.spans) : \E e \in es :
    s \in ToSet(e.spans) /\ e.trace = x.trace /\ e.capture = x.capture

\* A batch and the buffer behind it are in order, with a group for each trace and flag.
Lined(batch, buf) ==
  /\ batch \in Seq(EntryType) /\ buf \in Seq(EntryType)
  /\ Clean(batch \o buf)
  /\ Distinct(batch) /\ Bounded(batch)

LEMMA MadeFrom ==
  ASSUME NEW es, NEW g, Made(g, es)
  PROVE  From(g, es)
BY DEF Made, From

LEMMA FromSelf ==
  ASSUME NEW es, NEW e \in es
  PROVE  From(e, es)
BY DEF From

LEMMA FromFrom ==
  ASSUME NEW es, NEW R, \A e \in es : From(e, R), NEW x, From(x, es)
  PROVE  From(x, R)
<1> SUFFICES ASSUME NEW s \in ToSet(x.spans)
             PROVE  \E r \in R : s \in ToSet(r.spans) /\ r.trace = x.trace /\ r.capture = x.capture
  BY DEF From
<1>1. PICK e \in es : s \in ToSet(e.spans) /\ e.trace = x.trace /\ e.capture = x.capture
  BY DEF From
<1> QED
  BY <1>1 DEF From

LEMMA IncreasingCut ==
  ASSUME NEW s \in Seq(Nat), Increasing(s), NEW k \in 0 .. Len(s)
  PROVE  LET front == SubSeq(s, 1, k)
             back  == SubSeq(s, k + 1, Len(s))
         IN  /\ front \in Seq(Nat) /\ back \in Seq(Nat)
             /\ Len(front) = k /\ Len(back) = Len(s) - k
             /\ Increasing(front) /\ Increasing(back)
             /\ ToSet(s) = ToSet(front) \cup ToSet(back)
             /\ \A x \in ToSet(front), y \in ToSet(back) : x < y
<1> DEFINE front == SubSeq(s, 1, k)
           back  == SubSeq(s, k + 1, Len(s))
<1>1. /\ front \in Seq(Nat) /\ back \in Seq(Nat) /\ front \o back = s
      /\ Len(front) = k /\ Len(back) = Len(s) - k
  BY Cut
<1> HIDE DEF front, back
<1>2. /\ Len(s) \in Nat /\ k \in Nat /\ DOMAIN s = 1 .. Len(s)
      /\ DOMAIN front = 1 .. k /\ DOMAIN back = 1 .. (Len(s) - k)
  BY <1>1
<1>3. \A i \in 1 .. Len(s) : s[i] = IF i <= k THEN front[i] ELSE back[i - k]
  <2>1. Len(front \o back) = Len(front) + Len(back) /\
        \A i \in 1 .. Len(front) + Len(back) :
          (front \o back)[i] = IF i <= Len(front) THEN front[i] ELSE back[i - Len(front)]
    BY <1>1, ConcatProperties
  <2> QED
    BY <1>1, <1>2, <2>1
<1>4. \A i \in 1 .. k : i \in 1 .. Len(s) /\ s[i] = front[i]
  BY <1>2, <1>3
<1>5. ASSUME NEW i \in 1 .. (Len(s) - k)
      PROVE  i + k \in 1 .. Len(s) /\ s[i + k] = back[i]
  <2>1. i + k \in 1 .. Len(s) /\ ~(i + k <= k) /\ (i + k) - k = i
    BY <1>2
  <2> QED
    BY <1>3, <2>1
<1>6. Increasing(front)
  BY <1>2, <1>4 DEF Increasing
<1>7. Increasing(back)
  <2> SUFFICES ASSUME NEW i \in 1 .. (Len(s) - k), NEW j \in 1 .. (Len(s) - k), i < j
               PROVE  back[i] < back[j]
    BY <1>2 DEF Increasing
  <2>1. i + k < j + k
    BY <1>2
  <2> QED
    BY <1>2, <1>5, <2>1 DEF Increasing
<1>8. /\ ToSet(front) = {front[i] : i \in 1 .. k}
      /\ ToSet(back) = {back[i] : i \in 1 .. (Len(s) - k)}
  BY <1>1, Elements
<1>9. \A x \in ToSet(front), y \in ToSet(back) : x < y
  <2> SUFFICES ASSUME NEW i \in 1 .. k, NEW j \in 1 .. (Len(s) - k)
               PROVE  front[i] < back[j]
    BY <1>8
  <2>1. i < j + k
    BY <1>2
  <2> QED
    BY <1>2, <1>4, <1>5, <2>1 DEF Increasing
<1>10. ToSet(s) = ToSet(front) \cup ToSet(back)
  <2>1. ToSet(front \o back) = ToSet(front) \cup ToSet(back)
    BY <1>1, ConcatElements
  <2> QED
    BY <1>1, <2>1
<1> QED
  BY <1>1, <1>6, <1>7, <1>9, <1>10 DEF front, back

LEMMA LargestFits ==
  ASSUME NEW q \in Seq(EntryType)
  PROVE  \E n \in 0 .. Len(q) : Fits(q, n) /\ \A k \in (n + 1) .. Len(q) : ~Fits(q, k)
<1>1. Fits(q, 0)
  <2>1. SubSeq(q, 1, 0) = <<>>
    BY SubSeqEmpty
  <2>2. Total(SubSeq(q, 1, 0)) = 0
    BY <2>1, NoSpans
  <2>3. Total(SubSeq(q, 1, 0)) <= MaxBatchSpans /\ ~(0 > 0)
    BY <2>2, CapAssumption
  <2> QED
    BY <2>3 DEF Fits
<1> DEFINE T == {m \in Nat : \E n \in 0 .. m : Fits(q, n) /\ \A k \in (n + 1) .. m : ~Fits(q, k)}
<1>2. 0 \in T
  BY <1>1
<1>3. ASSUME NEW m \in T PROVE m + 1 \in T
  <2>1. m \in Nat
    BY <1>3
  <2>2. CASE Fits(q, m + 1)
    BY <2>1, <2>2
  <2>3. CASE ~Fits(q, m + 1)
    <3>1. PICK n \in 0 .. m : Fits(q, n) /\ \A k \in (n + 1) .. m : ~Fits(q, k)
      BY <1>3
    <3>2. n \in 0 .. (m + 1) /\ \A k \in (n + 1) .. (m + 1) : k = m + 1 \/ k \in (n + 1) .. m
      BY <2>1
    <3> QED
      BY <2>1, <2>3, <3>1, <3>2
  <2> QED
    BY <2>2, <2>3
<1>4. T \subseteq Nat
  OBVIOUS
<1> HIDE DEF T
<1>5. T = Nat
  BY <1>2, <1>3, <1>4, Induction
<1>6. Len(q) \in T
  BY <1>5, LenProperties
<1> QED
  BY <1>6 DEF T

\* The first k entries go into one request.
LEMMA WholeBatch ==
  ASSUME NEW q, Clean(q), NEW k \in 1 .. Len(q),
         Total(SubSeq(q, 1, k)) <= MaxBatchSpans \/ (k = 1 /\ q[1].trace = None)
  PROVE  LET front == SubSeq(q, 1, k)
             rest  == SubSeq(q, k + 1, Len(q))
             batch == MergeByTraceId(front)
         IN  /\ Lined(batch, rest)
             /\ \A x \in ToSet(batch) \cup ToSet(rest) : From(x, ToSet(q))
             /\ Spans(q) = Spans(batch) \cup Spans(rest)
             /\ Total(front) \in Nat
             /\ Total(q) - Total(front) = Total(rest)
<1> DEFINE front == SubSeq(q, 1, k)
           rest  == SubSeq(q, k + 1, Len(q))
           batch == MergeByTraceId(front)
<1>0. q \in Seq(EntryType) /\ Len(q) \in Nat /\ k \in 0 .. Len(q)
  BY LenProperties DEF Clean
<1>1. /\ front \in Seq(EntryType) /\ rest \in Seq(EntryType)
      /\ Clean(front) /\ Clean(rest) /\ Cross(front, rest)
      /\ ToSet(q) = ToSet(front) \cup ToSet(rest)
      /\ Spans(q) = Spans(front) \cup Spans(rest)
      /\ Total(q) = Total(front) + Total(rest)
  BY <1>0, CleanCut
<1>2. Len(front) = k /\ front[1] = q[1]
  <2>1. \A i \in 1 .. k : q[i] \in EntryType
    BY <1>0
  <2>2. /\ Len(front) = IF 1 <= k THEN k - 1 + 1 ELSE 0
        /\ \A i \in 1 .. k - 1 + 1 : front[i] = q[1 + i - 1]
    BY <1>0, <2>1, SubSeqProperties
  <2> QED
    BY <1>0, <2>2
<1>3. Total(front) <= MaxBatchSpans \/ (Len(front) = 1 /\ front[1].trace = None)
  BY <1>2
<1> HIDE DEF front, rest
<1>4. Groups(batch, ToSet(front)) /\ (Len(front) = 1 => batch = front)
  BY <1>1, MergeInOrder
<1> HIDE DEF batch
<1>5. batch \in Seq(EntryType) /\ Clean(batch) /\ Distinct(batch)
  BY <1>4 DEF Groups, Clean
<1>6. Spans(batch) = Spans(front)
  BY <1>1, <1>4, SpansOf DEF Groups
<1>7. Bounded(batch)
  BY <1>3, <1>4, <1>6 DEF Bounded, Total
<1>8. Cross(batch, rest)
  BY <1>1, <1>4, MadePrecedes DEF Groups, Cross
<1>9. Clean(batch \o rest)
  BY <1>1, <1>5, <1>8, CleanConcat
<1>10. ASSUME NEW x \in ToSet(batch) \cup ToSet(rest) PROVE From(x, ToSet(q))
  <2>1. CASE x \in ToSet(batch)
    <3>1. From(x, ToSet(front))
      BY <1>4, <2>1, MadeFrom DEF Groups
    <3>2. \A e \in ToSet(front) : From(e, ToSet(q))
      BY <1>1, FromSelf
    <3> QED
      BY <3>1, <3>2, FromFrom
  <2>2. CASE x \in ToSet(rest)
    BY <1>1, <2>2, FromSelf
  <2> QED
    BY <2>1, <2>2
<1>11. Lined(batch, rest)
  BY <1>1, <1>5, <1>7, <1>9 DEF Lined
<1>12. Total(front) \in Nat /\ Total(q) - Total(front) = Total(rest)
  BY <1>1, TotalType
<1> QED
  BY <1>1, <1>6, <1>10, <1>11, <1>12 DEF front, rest, batch

\* A part of an entry keeps its place.
Part(p, e) ==
  p.trace = e.trace /\ p.capture = e.capture /\ ToSet(p.spans) \subseteq ToSet(e.spans)

LEMMA PartPrecedes ==
  ASSUME NEW p, NEW e, Part(p, e), NEW f, Precedes(e, f)
  PROVE  Precedes(p, f)
BY DEF Part, Precedes, Apart, SameGroup, Before

\* An entry above the cap is split.
LEMMA SplitBatch ==
  ASSUME NEW q, Clean(q), q # <<>>, Total(SubSeq(q, 1, 1)) > MaxBatchSpans
  PROVE  LET head  == q[1]
             batch == <<[head EXCEPT !.spans = SubSeq(@, 1, MaxBatchSpans)]>>
             rest  == <<Remainder(head)>> \o Tail(q)
         IN  /\ Lined(batch, rest)
             /\ \A x \in ToSet(batch) \cup ToSet(rest) : From(x, ToSet(q))
             /\ Spans(q) = Spans(batch) \cup Spans(rest)
             /\ Total(q) - MaxBatchSpans = Total(rest)
<1> DEFINE head == q[1]
           first == [head EXCEPT !.spans = SubSeq(@, 1, MaxBatchSpans)]
           other == Remainder(head)
           tail == Tail(q)
           s == head.spans
           s1 == SubSeq(s, 1, MaxBatchSpans)
           s2 == SubSeq(s, MaxBatchSpans + 1, Len(s))
<1>0. q \in Seq(EntryType) /\ Len(q) \in Nat /\ 1 \in 0 .. Len(q) /\ 1 \in 1 .. Len(q)
  <2>1. q \in Seq(EntryType)
    BY DEF Clean
  <2> QED
    BY <2>1, EmptySeq
<1>1. head \in EntryType /\ Increasing(s) /\ s \in Seq(Nat) /\ head \in ToSet(q)
  <2>1. head \in EntryType /\ head \in ToSet(q)
    BY <1>0, Elements
  <2> QED
    BY <2>1 DEF Clean, EntryType
<1>2. SubSeq(q, 1, 1) = <<head>> /\ SubSeq(q, 2, Len(q)) = tail
  <2>1. SubSeq(q, 2, Len(q)) = tail
    BY <1>0, TailIsSubSeq
  <2>2. SubSeq(q, 1, 1) = <<q[1]>> \o SubSeq(q, 1 + 1, 1)
    BY <1>0, SubSeqRecursiveFirst
  <2>3. SubSeq(q, 1 + 1, 1) = <<>>
    BY SubSeqEmpty
  <2>4. <<q[1]>> \o <<>> = <<q[1]>>
    BY <1>1
  <2> QED
    BY <2>1, <2>2, <2>3, <2>4
<1>3. /\ <<head>> \in Seq(EntryType) /\ tail \in Seq(EntryType)
      /\ Clean(tail) /\ Cross(<<head>>, tail)
      /\ ToSet(q) = ToSet(<<head>>) \cup ToSet(tail)
      /\ Spans(q) = Spans(<<head>>) \cup Spans(tail)
      /\ Total(q) = Total(<<head>>) + Total(tail)
  <2> DEFINE a == SubSeq(q, 1, 1)
             b == SubSeq(q, 1 + 1, Len(q))
  <2>1. /\ a \in Seq(EntryType) /\ b \in Seq(EntryType)
        /\ Clean(a) /\ Clean(b) /\ Cross(a, b)
        /\ ToSet(q) = ToSet(a) \cup ToSet(b)
        /\ Spans(q) = Spans(a) \cup Spans(b)
        /\ Total(q) = Total(a) + Total(b)
    BY <1>0, CleanCut
  <2>2. a = <<head>> /\ b = tail
    <3>1. 1 + 1 = 2
      OBVIOUS
    <3> QED
      BY <1>2, <3>1
  <2> HIDE DEF a, b
  <2> QED
    BY <2>1, <2>2
<1>4. ToSet(<<head>>) = {head} /\ Spans(<<head>>) = ToSet(s)
  BY <1>1, OneElement, SpansOfOne
<1>5. Total(<<head>>) = Len(s) /\ Len(s) \in Nat /\ Len(s) > MaxBatchSpans
  <2>1. Total(<<head>>) = Len(s)
    BY <1>1, <1>4, IncreasingCount DEF Total
  <2> QED
    BY <1>1, <1>2, <2>1, LenProperties
<1>6. /\ s1 \in Seq(Nat) /\ s2 \in Seq(Nat)
      /\ Len(s1) = MaxBatchSpans /\ Len(s2) = Len(s) - MaxBatchSpans
      /\ Increasing(s1) /\ Increasing(s2)
      /\ ToSet(s) = ToSet(s1) \cup ToSet(s2)
      /\ \A x \in ToSet(s1), y \in ToSet(s2) : x < y
  <2>1. MaxBatchSpans \in 0 .. Len(s)
    BY <1>5, CapAssumption
  <2> QED
    BY <1>1, <2>1, IncreasingCut
<1>7. /\ first \in EntryType /\ first.spans = s1 /\ Part(first, head)
      /\ other \in EntryType /\ other.spans = s2 /\ Part(other, head)
  <2>1. /\ first.spans = s1 /\ first.trace = head.trace /\ first.capture = head.capture
        /\ other.spans = s2 /\ other.trace = head.trace /\ other.capture = head.capture
    BY <1>1 DEF EntryType, Remainder
  <2>2. first \in EntryType /\ other \in EntryType
    BY <1>1, <1>6 DEF EntryType, Remainder
  <2> QED
    BY <1>6, <2>1, <2>2 DEF Part
<1> HIDE DEF head, tail, s1, s2, s, first, other
<1>8. Precedes(first, other)
  <2>1. \A x \in ToSet(s1) : x \in Nat
    BY <1>6, Elements
  <2>2. Before(first, other)
    BY <1>6, <1>7 DEF Before
  <2>3. Apart(first, other)
    BY <1>6, <1>7, <2>1 DEF Apart
  <2> QED
    BY <2>2, <2>3 DEF Precedes
<1> DEFINE b == <<first>>
           o == <<other>>
<1>9. /\ b \in Seq(EntryType) /\ ToSet(b) = {first} /\ Len(b) = 1
      /\ Clean(b) /\ Spans(b) = ToSet(s1)
      /\ o \in Seq(EntryType) /\ ToSet(o) = {other}
      /\ Clean(o) /\ Spans(o) = ToSet(s2)
  BY <1>6, <1>7, OneElement, CleanOne, SpansOfOne
<1> HIDE DEF b, o
<1>10. \A e \in ToSet(tail) : Precedes(first, e) /\ Precedes(other, e)
  BY <1>3, <1>4, <1>7, PartPrecedes DEF Cross
<1>11. Clean(o \o tail) /\ Cross(o, tail)
  BY <1>3, <1>9, <1>10, CleanConcat DEF Cross
<1>12. /\ o \o tail \in Seq(EntryType) /\ ToSet(o \o tail) = {other} \cup ToSet(tail)
       /\ Spans(o \o tail) = ToSet(s2) \cup Spans(tail)
       /\ Total(o \o tail) = Total(o) + Total(tail)
  <2>1. o \o tail \in Seq(EntryType) /\ ToSet(o \o tail) = ToSet(o) \cup ToSet(tail)
    BY <1>3, <1>9, ConcatElements
  <2>2. Spans(o \o tail) = Spans(o) \cup Spans(tail)
    BY <1>3, <1>9, SpansConcat
  <2>3. Total(o \o tail) = Total(o) + Total(tail)
    BY <1>3, <1>9, <1>11, TotalConcat
  <2> QED
    BY <1>9, <2>1, <2>2, <2>3
<1> DEFINE r == o \o tail
<1> HIDE DEF r
<1>13. Clean(b \o r)
  <2>1. Cross(b, r)
    BY <1>8, <1>9, <1>10, <1>12 DEF Cross, r
  <2> QED
    BY <1>9, <1>11, <1>12, <2>1, CleanConcat DEF r
<1>14. Total(b) = MaxBatchSpans /\ Total(o) = Len(s) - MaxBatchSpans
  BY <1>6, <1>9, IncreasingCount DEF Total
<1>15. Bounded(b) /\ Distinct(b)
  BY <1>9, <1>14, CapAssumption DEF Bounded, Distinct
<1>16. ASSUME NEW x \in ToSet(b) \cup ToSet(r) PROVE From(x, ToSet(q))
  <2>1. CASE x \in {first, other}
    BY <1>1, <1>7, <2>1 DEF Part, From, head
  <2>2. CASE x \in ToSet(tail)
    BY <1>3, <2>2, FromSelf
  <2> QED
    BY <1>9, <1>12, <2>1, <2>2 DEF r
<1>17. Lined(b, r)
  BY <1>9, <1>12, <1>13, <1>15 DEF Lined, r
<1>18. Spans(q) = Spans(b) \cup Spans(r)
  <2>1. Spans(r) = ToSet(s2) \cup Spans(tail) /\ Spans(b) = ToSet(s1)
    BY <1>9, <1>12 DEF r
  <2>2. Spans(q) = ToSet(s) \cup Spans(tail)
    BY <1>3, <1>4
  <2>3. ToSet(s) = ToSet(s1) \cup ToSet(s2)
    BY <1>6
  <2> QED
    BY <2>1, <2>2, <2>3
<1>19. Total(q) - MaxBatchSpans = Total(r)
  <2>1. Total(r) = Len(s) - MaxBatchSpans + Total(tail)
    BY <1>12, <1>14 DEF r
  <2>2. Total(q) = Len(s) + Total(tail) /\ Total(tail) \in Nat
    BY <1>3, <1>5, TotalType
  <2> QED
    BY <1>5, <2>1, <2>2, CapAssumption
<1> QED
  BY <1>16, <1>17, <1>18, <1>19 DEF b, r, o, first, other, head, tail

\* takeBatch: the batch and what is left are in order, no span is lost, and the count
\* goes down by as many as were taken.
LEMMA BatchTaken ==
  ASSUME NEW q, Clean(q), q # <<>>
  PROVE  LET t == TakeBatch(q)
         IN  /\ Lined(t.batch, t.rest)
             /\ \A x \in ToSet(t.batch) \cup ToSet(t.rest) : From(x, ToSet(q))
             /\ Spans(q) = Spans(t.batch) \cup Spans(t.rest)
             /\ Total(q) - t.taken = Total(t.rest)
<1>1. q \in Seq(EntryType) /\ Len(q) \in Nat /\ Len(q) >= 1
  <2>1. q \in Seq(EntryType)
    BY DEF Clean
  <2> QED
    BY <2>1, EmptySeq
<1> DEFINE n == CHOOSE m \in 0 .. Len(q) :
                  Fits(q, m) /\ \A k \in (m + 1) .. Len(q) : ~Fits(q, k)
           whole == IF n = 0 /\ q[1].trace = None THEN 1 ELSE n
           front == SubSeq(q, 1, whole)
           cut == [batch |-> <<[q[1] EXCEPT !.spans = SubSeq(@, 1, MaxBatchSpans)]>>,
                   taken |-> MaxBatchSpans,
                   rest  |-> <<Remainder(q[1])>> \o Tail(q)]
<1>2. n \in 0 .. Len(q) /\ Fits(q, n) /\ \A k \in (n + 1) .. Len(q) : ~Fits(q, k)
  BY <1>1, LargestFits
<1>3. TakeBatch(q) =
        IF whole > 0
        THEN [batch |-> MergeByTraceId(front), taken |-> Total(front),
              rest |-> SubSeq(q, whole + 1, Len(q))]
        ELSE cut
  BY DEF TakeBatch
<1>4. /\ n > 0 => whole = n
      /\ n = 0 /\ q[1].trace = None => whole = 1
      /\ n = 0 /\ q[1].trace # None => whole = 0
  BY <1>2
<1> HIDE DEF n, whole, cut
<1>5. CASE n > 0 \/ q[1].trace = None
  <2>1. whole \in 1 .. Len(q) /\ whole > 0
    BY <1>1, <1>2, <1>4, <1>5
  <2>2. Total(front) <= MaxBatchSpans \/ (whole = 1 /\ q[1].trace = None)
    BY <1>2, <1>4, <1>5 DEF Fits
  <2>3. /\ Lined(MergeByTraceId(front), SubSeq(q, whole + 1, Len(q)))
        /\ \A x \in ToSet(MergeByTraceId(front)) \cup ToSet(SubSeq(q, whole + 1, Len(q))) :
             From(x, ToSet(q))
        /\ Spans(q) = Spans(MergeByTraceId(front)) \cup Spans(SubSeq(q, whole + 1, Len(q)))
        /\ Total(q) - Total(front) = Total(SubSeq(q, whole + 1, Len(q)))
    BY <2>1, <2>2, WholeBatch
  <2>4. TakeBatch(q) = [batch |-> MergeByTraceId(front), taken |-> Total(front),
                        rest |-> SubSeq(q, whole + 1, Len(q))]
    BY <1>3, <2>1
  <2> QED
    BY <2>3, <2>4
<1>6. CASE n = 0 /\ q[1].trace # None
  <2>1. TakeBatch(q) = cut
    <3>1. ~(whole > 0)
      BY <1>4, <1>6
    <3> QED
      BY <1>3, <3>1
  <2>2. ~Fits(q, 1)
    BY <1>1, <1>2, <1>6
  <2>3. Total(SubSeq(q, 1, 1)) > MaxBatchSpans
    <3>1. SubSeq(q, 1, 1 - 1) = <<>>
      BY SubSeqEmpty
    <3>2. Total(SubSeq(q, 1, 1 - 1)) < MaxBatchSpans
      <4>1. Total(SubSeq(q, 1, 1 - 1)) = 0
        BY <3>1, NoSpans
      <4>2. 0 < MaxBatchSpans
        BY CapAssumption
      <4> QED
        BY <4>1, <4>2
    <3>3. ~(Total(SubSeq(q, 1, 1)) <= MaxBatchSpans)
      BY <2>2, <3>2 DEF Fits
    <3>4. Total(SubSeq(q, 1, 1)) \in Nat
      <4>1. 1 \in 0 .. Len(q)
        BY <1>1
      <4> QED
        BY <1>1, <4>1, Cut, TotalType
    <3> QED
      BY <3>3, <3>4, CapAssumption
  <2>4. /\ Lined(cut.batch, cut.rest)
        /\ \A x \in ToSet(cut.batch) \cup ToSet(cut.rest) : From(x, ToSet(q))
        /\ Spans(q) = Spans(cut.batch) \cup Spans(cut.rest)
        /\ Total(q) - cut.taken = Total(cut.rest)
    BY <1>6, <2>3, SplitBatch DEF cut
  <2> QED
    BY <2>1, <2>4
<1> QED
  BY <1>2, <1>5, <1>6

\* An overflowing buffer sheds some of its oldest entries.
LEMMA ShedSome ==
  ASSUME NEW q \in Seq(EntryType)
  PROVE  Shed(q) \in 0 .. Len(q)
<1> DEFINE Enough(k) == \/ Total(SubSeq(q, k + 1, Len(q))) <= MaxQueuedSpans
                        \/ Len(q) - k <= 1
<1>1. Len(q) \in Nat
  BY LenProperties
<1>2. \E d \in 0 .. Len(q) : Enough(d) /\ \A k \in 0 .. (d - 1) : ~Enough(k)
  <2> SUFFICES ASSUME \A d \in 0 .. Len(q) : Enough(d) => \E k \in 0 .. (d - 1) : Enough(k)
               PROVE  FALSE
    OBVIOUS
  <2> DEFINE U == {m \in Nat : m <= Len(q) => \A d \in 0 .. m : ~Enough(d)}
  <2> HIDE DEF Enough
  <2>1. 0 \in U
    BY <1>1
  <2>2. ASSUME NEW m \in U PROVE m + 1 \in U
    <3>1. m \in Nat
      BY <2>2
    <3> SUFFICES ASSUME m + 1 <= Len(q), NEW d \in 0 .. (m + 1), Enough(d) PROVE FALSE
      BY <3>1
    <3>2. d \in 0 .. Len(q) /\ m <= Len(q)
      BY <1>1, <3>1
    <3>3. PICK k \in 0 .. (d - 1) : Enough(k)
      BY <3>2
    <3>4. k \in 0 .. m
      BY <3>1
    <3> QED
      BY <2>2, <3>2, <3>3, <3>4
  <2>3. U \subseteq Nat
    OBVIOUS
  <2> HIDE DEF U
  <2>4. U = Nat
    BY <2>1, <2>2, <2>3, Induction
  <2>5. ~Enough(Len(q))
    <3>1. Len(q) \in U
      BY <1>1, <2>4
    <3> QED
      BY <1>1, <3>1 DEF U
  <2>6. Enough(Len(q))
    BY <1>1 DEF Enough
  <2> QED
    BY <2>5, <2>6
<1> QED
  BY <1>2 DEF Shed

-----------------------------------------------------------------------------
(***************************************************************************)
(* What is in line stays so.                                               *)
(***************************************************************************)

LEMMA LinedParts ==
  ASSUME NEW batch, NEW buf, Lined(batch, buf)
  PROVE  /\ batch \in Seq(EntryType) /\ buf \in Seq(EntryType)
         /\ Clean(batch) /\ Clean(buf) /\ Cross(batch, buf)
         /\ Lined(<<>>, buf)
<1>1. /\ batch \in Seq(EntryType) /\ buf \in Seq(EntryType)
      /\ Clean(batch) /\ Clean(buf) /\ Cross(batch, buf)
  BY CleanConcat DEF Lined
<1>2. <<>> \o buf = buf
  BY <1>1, ConcatEmptySeq
<1>3. Distinct(<<>>) /\ Bounded(<<>>)
  BY NoSpans, CapAssumption DEF Distinct, Bounded
<1>4. Lined(<<>>, buf)
  BY <1>1, <1>2, <1>3, NoSpans, EmptyElements DEF Lined
<1> QED
  BY <1>1, <1>4

\* A buffer may lose its oldest entries.
LEMMA LinedSheds ==
  ASSUME NEW batch, NEW buf, Lined(batch, buf), NEW d \in 0 .. Len(buf)
  PROVE  LET gone == SubSeq(buf, 1, d)
             kept == SubSeq(buf, d + 1, Len(buf))
         IN  /\ Lined(batch, kept)
             /\ Spans(buf) = Spans(gone) \cup Spans(kept)
             /\ Total(buf) - Total(gone) = Total(kept)
<1> DEFINE gone == SubSeq(buf, 1, d)
           kept == SubSeq(buf, d + 1, Len(buf))
<1>1. /\ batch \in Seq(EntryType) /\ Clean(batch) /\ Clean(buf) /\ Cross(batch, buf)
  BY LinedParts
<1>2. /\ gone \in Seq(EntryType) /\ kept \in Seq(EntryType)
      /\ Clean(kept)
      /\ ToSet(buf) = ToSet(gone) \cup ToSet(kept)
      /\ Spans(buf) = Spans(gone) \cup Spans(kept)
      /\ Total(buf) = Total(gone) + Total(kept)
  BY <1>1, CleanCut
<1> HIDE DEF gone, kept
<1>3. Clean(batch \o kept)
  <2>1. Cross(batch, kept)
    BY <1>1, <1>2 DEF Cross
  <2> QED
    BY <1>1, <1>2, <2>1, CleanConcat
<1>4. Lined(batch, kept)
  BY <1>2, <1>3 DEF Lined
<1>5. Total(buf) - Total(gone) = Total(kept)
  BY <1>2, TotalType
<1> QED
  BY <1>2, <1>4, <1>5 DEF gone, kept

\* A report is newer than all that waits.
LEMMA LinedPush ==
  ASSUME NEW batch, NEW buf, Lined(batch, buf),
         NEW entry \in EntryType, Increasing(entry.spans),
         \A x \in Spans(batch) \cup Spans(buf) :
           \A y \in ToSet(entry.spans) : x < y
  PROVE  LET pushed == Append(buf, entry)
         IN  /\ Lined(batch, pushed)
             /\ Spans(pushed) = Spans(buf) \cup ToSet(entry.spans)
             /\ Total(pushed) = Total(buf) + Size(entry)
<1> DEFINE one == <<entry>>
<1>1. /\ batch \in Seq(EntryType) /\ buf \in Seq(EntryType)
      /\ Clean(batch) /\ Clean(buf) /\ Cross(batch, buf)
  BY LinedParts
<1>2. Append(buf, entry) = buf \o one
  BY <1>1, AppendIsConcat
<1>3. /\ one \in Seq(EntryType) /\ ToSet(one) = {entry} /\ Clean(one)
      /\ Spans(one) = ToSet(entry.spans) /\ entry.spans \in Seq(Nat)
  BY OneElement, CleanOne, SpansOfOne
<1> HIDE DEF one
<1>4. \A x \in Spans(batch) \cup Spans(buf) : x \in Nat
  BY <1>1, SpansOf
<1>5. ASSUME NEW e, ToSet(e.spans) \subseteq Spans(batch) \cup Spans(buf)
      PROVE  Before(e, entry) /\ Precedes(e, entry)
  <2>1. Before(e, entry)
    BY <1>5 DEF Before
  <2>2. \A x \in ToSet(e.spans) : x \in Nat
    BY <1>4, <1>5
  <2>3. Apart(e, entry)
    BY <2>1, <2>2 DEF Apart, Before
  <2> QED
    BY <2>1, <2>3 DEF Precedes
<1>6. Cross(buf, one) /\ Cross(batch, one)
  <2>1. \A e \in ToSet(buf) : ToSet(e.spans) \subseteq Spans(buf)
    BY <1>1, SpansOf
  <2>2. \A e \in ToSet(batch) : ToSet(e.spans) \subseteq Spans(batch)
    BY <1>1, SpansOf
  <2> QED
    BY <1>3, <1>5, <2>1, <2>2 DEF Cross
<1>7. /\ buf \o one \in Seq(EntryType) /\ ToSet(buf \o one) = ToSet(buf) \cup {entry}
      /\ Spans(buf \o one) = Spans(buf) \cup ToSet(entry.spans)
      /\ Total(buf \o one) = Total(buf) + Total(one)
      /\ Clean(buf \o one)
  <2>1. buf \o one \in Seq(EntryType) /\ ToSet(buf \o one) = ToSet(buf) \cup {entry}
    BY <1>1, <1>3, ConcatElements
  <2>2. Spans(buf \o one) = Spans(buf) \cup ToSet(entry.spans)
    BY <1>1, <1>3, SpansConcat
  <2>3. Total(buf \o one) = Total(buf) + Total(one)
    BY <1>1, <1>3, <1>6, TotalConcat
  <2>4. Clean(buf \o one)
    BY <1>1, <1>3, <1>6, CleanConcat
  <2> QED
    BY <2>1, <2>2, <2>3, <2>4
<1>8. Total(one) = Size(entry)
  BY <1>3, IncreasingCount DEF Total, Size
<1> DEFINE p == buf \o one
<1>9. /\ p \in Seq(EntryType) /\ Clean(p) /\ ToSet(p) = ToSet(buf) \cup {entry}
      /\ Spans(p) = Spans(buf) \cup ToSet(entry.spans)
      /\ Total(p) = Total(buf) + Size(entry)
      /\ p = Append(buf, entry)
  BY <1>2, <1>7, <1>8
<1> HIDE DEF p
<1>10. Clean(batch \o p)
  <2>1. Cross(batch, p)
    BY <1>1, <1>3, <1>6, <1>9 DEF Cross
  <2> QED
    BY <1>1, <1>9, <2>1, CleanConcat
<1>11. Lined(batch, p)
  BY <1>9, <1>10 DEF Lined
<1> QED
  BY <1>9, <1>11

-----------------------------------------------------------------------------
(***************************************************************************)
(* What was sent.  R are the reports made, Z the spans that are stored or   *)
(* given up, S those stored and L those given up.                           *)
(***************************************************************************)

SpansIn(R) == UNION {ToSet(e.spans) : e \in R}

\* No span was reported twice.
Kinds(R) == R \in SUBSET EntryType /\ \A e, f \in R : e # f => Apart(e, f)

\* R may have grown to R2 by a report that is newer than the others.
Grown(R, R2) ==
  \/ R2 = R
  \/ \E entry \in EntryType :
       R2 = R \cup {entry} /\ \A x \in SpansIn(R), y \in ToSet(entry.spans) : x < y

\* A group once sent: a span of its trace and flag reported before one of its own is
\* its own too, or is settled.
Sound(g, R, Z) ==
  /\ g \in EntryType /\ Increasing(g.spans)
  /\ From(g, R)
  /\ \A e \in R : SameGroup(e, g) =>
       \A t \in ToSet(e.spans), s \in ToSet(g.spans) :
         t < s => t \in ToSet(g.spans) \cup Z

RequestType == [batch : Seq(EntryType), done : Nat, try : Nat]

\* A request's groups are sound, and those done are stored.
Sent(rs, R, S, L) ==
  /\ rs \in Seq(RequestType)
  /\ \A i \in 1 .. Len(rs) :
       /\ \A g \in ToSet(rs[i].batch) : Sound(g, R, S \cup L)
       /\ \A k \in 1 .. rs[i].done :
            k \in 1 .. Len(rs[i].batch) /\ ToSet(rs[i].batch[k].spans) \subseteq S

\* A group stored after another of its trace and flag is newer, or given up.
Later(g, h, L) ==
  SameGroup(g, h) =>
    \A s \in ToSet(g.spans), t \in ToSet(h.spans) : s < t \/ t \in L

InTurn(st, R, L) ==
  /\ st \in Seq(EntryType)
  /\ \A g \in ToSet(st) : Sound(g, R, Spans(st) \cup L)
  /\ \A i, j \in 1 .. Len(st) : i < j => Later(st[i], st[j], L)

LEMMA KindsGrown ==
  ASSUME NEW R, Kinds(R), NEW R2, Grown(R, R2)
  PROVE  Kinds(R2)
<1>1. CASE R2 = R
  BY <1>1
<1>2. CASE R2 # R
  <2>1. PICK entry \in EntryType :
          R2 = R \cup {entry} /\ \A x \in SpansIn(R), y \in ToSet(entry.spans) : x < y
    BY <1>2 DEF Grown
  <2>2. ASSUME NEW e \in R PROVE Apart(e, entry) /\ Apart(entry, e)
    <3>1. \A x \in ToSet(e.spans) : x \in SpansIn(R) /\ x \in Nat
      <4>1. e.spans \in Seq(Nat)
        BY DEF Kinds, EntryType
      <4> QED
        BY <4>1, Elements DEF SpansIn
    <3>2. \A x \in ToSet(e.spans) : x \notin ToSet(entry.spans)
      BY <2>1, <3>1
    <3> QED
      BY <3>2 DEF Apart
  <2> QED
    BY <2>1, <2>2 DEF Kinds
<1> QED
  BY <1>1, <1>2

LEMMA SoundKept ==
  ASSUME NEW g, NEW R, NEW R2, NEW Z, NEW Z2, Sound(g, R, Z), Kinds(R), Grown(R, R2),
         Z \subseteq Z2
  PROVE  Sound(g, R2, Z2)
<1>1. \A s \in ToSet(g.spans) : s \in SpansIn(R) /\ s \in Nat
  <2>1. \A s \in ToSet(g.spans) : s \in SpansIn(R)
    BY DEF Sound, From, SpansIn
  <2>2. g.spans \in Seq(Nat)
    BY DEF Sound, EntryType
  <2> QED
    BY <2>1, <2>2, Elements
<1>2. R \subseteq R2
  BY DEF Grown
<1>3. From(g, R2)
  BY <1>2 DEF Sound, From
<1>4. ASSUME NEW e \in R2, SameGroup(e, g), NEW t \in ToSet(e.spans), NEW s \in ToSet(g.spans), t < s
      PROVE  t \in ToSet(g.spans) \cup Z2
  <2>1. CASE e \in R
    BY <1>4, <2>1 DEF Sound
  <2>2. CASE e \notin R
    <3>1. e \in EntryType /\ s < t
      BY <1>1, <2>2 DEF Grown
    <3>2. e.spans \in Seq(Nat)
      BY <3>1 DEF EntryType
    <3>3. t \in Nat
      BY <3>2, Elements
    <3> QED
      BY <1>1, <1>4, <3>1, <3>3
  <2> QED
    BY <2>1, <2>2
<1> QED
  BY <1>3, <1>4 DEF Sound

\* A batch is sound when it is taken: what was reported is in it, behind it, or settled.
LEMMA SoundTaken ==
  ASSUME NEW batch, NEW buf, Lined(batch, buf), NEW R, Kinds(R), NEW Z,
         \A x \in ToSet(batch) \cup ToSet(buf) : From(x, R),
         SpansIn(R) \subseteq Spans(batch) \cup Spans(buf) \cup Z,
         NEW g \in ToSet(batch)
  PROVE  Sound(g, R, Z)
<1>1. /\ batch \in Seq(EntryType) /\ buf \in Seq(EntryType)
      /\ Clean(batch) /\ Cross(batch, buf)
  BY LinedParts
<1>2. ToSet(batch) = {batch[i] : i \in 1 .. Len(batch)} /\ ToSet(batch) \subseteq EntryType
  BY <1>1, Elements
<1>3. g \in EntryType /\ Increasing(g.spans) /\ From(g, R)
  BY <1>1, <1>2 DEF Clean
<1>4. ASSUME NEW e \in R, SameGroup(e, g), NEW t \in ToSet(e.spans), NEW s \in ToSet(g.spans),
             t < s, t \notin Z
      PROVE  t \in ToSet(g.spans)
  <2>1. t \in Spans(batch) \cup Spans(buf)
    BY <1>4 DEF SpansIn
  <2>2. PICK x \in ToSet(batch) \cup ToSet(buf) : t \in ToSet(x.spans)
    <3>1. /\ Spans(batch) = UNION {ToSet(f.spans) : f \in ToSet(batch)}
          /\ Spans(buf) = UNION {ToSet(f.spans) : f \in ToSet(buf)}
      BY <1>1, SpansOf
    <3> QED
      BY <2>1, <3>1
  <2>3. PICK f \in R : t \in ToSet(f.spans) /\ f.trace = x.trace /\ f.capture = x.capture
    BY <2>2 DEF From
  <2>4. f = e
    BY <1>4, <2>3 DEF Kinds, Apart
  <2>5. SameGroup(g, x) /\ SameGroup(x, g)
    BY <1>4, <2>3, <2>4 DEF SameGroup
  <2>6. CASE x \in ToSet(buf)
    <3>1. s < t
      BY <1>1, <2>2, <2>5, <2>6 DEF Cross, Precedes, Before
    <3>2. s \in Nat /\ t \in Nat
      <4>1. e.spans \in Seq(Nat) /\ g.spans \in Seq(Nat)
        BY <1>3 DEF Kinds, EntryType
      <4> QED
        BY <4>1, Elements
    <3> QED
      BY <1>4, <3>1, <3>2
  <2>7. CASE x \in ToSet(batch)
    <3>1. PICK i \in 1 .. Len(batch), j \in 1 .. Len(batch) : g = batch[i] /\ x = batch[j]
      BY <1>2, <2>7
    <3>2. i = j
      BY <2>5, <3>1 DEF Lined, Distinct
    <3> QED
      BY <2>2, <3>1, <3>2
  <2> QED
    BY <2>6, <2>7
<1> QED
  BY <1>3, <1>4 DEF Sound

LEMMA SentKept ==
  ASSUME NEW rs, NEW R, NEW S, NEW L, Sent(rs, R, S, L), Kinds(R),
         NEW R2, Grown(R, R2), NEW S2, S \subseteq S2, NEW L2, L \subseteq L2
  PROVE  Sent(rs, R2, S2, L2)
<1>1. S \cup L \subseteq S2 \cup L2
  OBVIOUS
<1>2. ASSUME NEW i \in 1 .. Len(rs), NEW g \in ToSet(rs[i].batch)
      PROVE  Sound(g, R2, S2 \cup L2)
  <2>1. Sound(g, R, S \cup L)
    BY DEF Sent
  <2> QED
    BY <1>1, <2>1, SoundKept
<1> QED
  BY <1>2 DEF Sent

LEMMA NewRequest ==
  ASSUME NEW batch \in Seq(EntryType), NEW try \in Nat
  PROVE  LET r == Request(batch, try)
         IN  r \in RequestType /\ r.batch = batch /\ r.done = 0
BY DEF Request, RequestType

LEMMA SentMore ==
  ASSUME NEW rs, NEW R, NEW S, NEW L, Sent(rs, R, S, L),
         NEW new \in RequestType, new.done = 0,
         \A g \in ToSet(new.batch) : Sound(g, R, S \cup L)
  PROVE  LET all == Append(rs, new)
         IN  /\ Sent(all, R, S, L)
             /\ Len(rs) + 1 \in 1 .. Len(all) /\ all[Len(rs) + 1] = new
             /\ \A i \in 1 .. Len(rs) : i \in 1 .. Len(all) /\ all[i] = rs[i]
<1> DEFINE all == Append(rs, new)
<1>1. rs \in Seq(RequestType)
  BY DEF Sent
<1>2. /\ all \in Seq(RequestType) /\ Len(all) = Len(rs) + 1 /\ Len(rs) \in Nat
      /\ \A i \in 1 .. Len(rs) : all[i] = rs[i]
      /\ all[Len(rs) + 1] = new
  BY <1>1, AppendProperties, LenProperties
<1> HIDE DEF all
<1>3. ASSUME NEW i \in 1 .. Len(all)
      PROVE  /\ \A g \in ToSet(all[i].batch) : Sound(g, R, S \cup L)
             /\ \A k \in 1 .. all[i].done :
                  k \in 1 .. Len(all[i].batch) /\ ToSet(all[i].batch[k].spans) \subseteq S
  <2>1. CASE i \in 1 .. Len(rs)
    <3>1. all[i] = rs[i]
      BY <1>2, <2>1
    <3> QED
      BY <2>1, <3>1 DEF Sent
  <2>2. CASE i = Len(rs) + 1
    <3>1. all[i] = new /\ 1 .. new.done = {}
      BY <1>2, <2>2
    <3> QED
      BY <3>1
  <2>3. i \in 1 .. Len(rs) \/ i = Len(rs) + 1
    BY <1>2
  <2> QED
    BY <2>1, <2>2, <2>3
<1>4. Sent(all, R, S, L)
  BY <1>2, <1>3 DEF Sent
<1> QED
  BY <1>2, <1>4 DEF all

LEMMA InTurnKept ==
  ASSUME NEW st, NEW R, NEW L, InTurn(st, R, L), Kinds(R),
         NEW R2, Grown(R, R2), NEW L2, L \subseteq L2
  PROVE  InTurn(st, R2, L2)
<1>1. Spans(st) \cup L \subseteq Spans(st) \cup L2
  OBVIOUS
<1>2. \A g \in ToSet(st) : Sound(g, R2, Spans(st) \cup L2)
  BY <1>1, SoundKept DEF InTurn
<1>3. \A i, j \in 1 .. Len(st) : i < j => Later(st[i], st[j], L2)
  BY DEF InTurn, Later
<1> QED
  BY <1>2, <1>3 DEF InTurn

\* A group is stored, of which the server had no span if it has a trace id.
LEMMA InTurnMore ==
  ASSUME NEW st, NEW R, NEW L, InTurn(st, R, L), Kinds(R),
         NEW h, Sound(h, R, Spans(st) \cup L),
         h.trace # None => ToSet(h.spans) \cap Spans(st) = {}
  PROVE  /\ InTurn(Append(st, h), R, L)
         /\ Spans(Append(st, h)) = Spans(st) \cup ToSet(h.spans)
<1> DEFINE one == <<h>>
           all == st \o one
<1>1. st \in Seq(EntryType) /\ h \in EntryType
  BY DEF InTurn, Sound
<1>2. one \in Seq(EntryType) /\ ToSet(one) = {h} /\ Spans(one) = ToSet(h.spans)
  BY <1>1, OneElement, SpansOfOne
<1>3. Append(st, h) = all
  BY <1>1, AppendIsConcat
<1>4. /\ Len(Append(st, h)) = Len(st) + 1 /\ Len(st) \in Nat
      /\ \A i \in 1 .. Len(st) : Append(st, h)[i] = st[i]
      /\ Append(st, h)[Len(st) + 1] = h
  BY <1>1, AppendProperties, LenProperties
<1>5. /\ all \in Seq(EntryType) /\ ToSet(all) = ToSet(st) \cup {h}
      /\ Spans(all) = Spans(st) \cup ToSet(h.spans)
  <2> HIDE DEF one
  <2>1. st \o one \in Seq(EntryType) /\ ToSet(st \o one) = ToSet(st) \cup {h}
    BY <1>1, <1>2, ConcatElements
  <2>2. Spans(st \o one) = Spans(st) \cup ToSet(h.spans)
    BY <1>1, <1>2, SpansConcat
  <2> QED
    BY <2>1, <2>2
<1>6. /\ Len(all) = Len(st) + 1 /\ all[Len(st) + 1] = h
      /\ \A i \in 1 .. Len(st) : all[i] = st[i]
  BY <1>3, <1>4
<1> HIDE DEF all, one
<1>7. ASSUME NEW g \in ToSet(all) PROVE Sound(g, R, Spans(all) \cup L)
  <2>1. Sound(g, R, Spans(st) \cup L)
    BY <1>5, <1>7 DEF InTurn
  <2>2. Spans(st) \cup L \subseteq Spans(all) \cup L /\ Grown(R, R)
    BY <1>5 DEF Grown
  <2> QED
    BY <2>1, <2>2, SoundKept
<1>8. ASSUME NEW g \in ToSet(st) PROVE Later(g, h, L)
  <2> SUFFICES ASSUME SameGroup(g, h), NEW s \in ToSet(g.spans), NEW t \in ToSet(h.spans), t \notin L
               PROVE  s < t
    BY DEF Later
  <2>1. Sound(g, R, Spans(st) \cup L)
    BY DEF InTurn
  <2>2. ToSet(g.spans) \subseteq Spans(st)
    BY <1>1, SpansOf
  <2>3. t \notin Spans(st)
    BY DEF SameGroup
  <2>4. PICK e \in R : t \in ToSet(e.spans) /\ e.trace = h.trace /\ e.capture = h.capture
    BY DEF Sound, From
  <2>5. SameGroup(e, g)
    BY <2>4 DEF SameGroup
  <2>6. ~(t < s)
    BY <2>1, <2>2, <2>3, <2>4, <2>5 DEF Sound
  <2>7. s # t
    BY <2>2, <2>3
  <2>8. s \in Nat /\ t \in Nat
    <3>1. g.spans \in Seq(Nat) /\ h.spans \in Seq(Nat)
      BY <1>1, <2>1 DEF Sound, EntryType
    <3> QED
      BY <3>1, Elements
  <2> QED
    BY <2>6, <2>7, <2>8
<1>9. ASSUME NEW i \in 1 .. Len(all), NEW j \in 1 .. Len(all), i < j
      PROVE  Later(all[i], all[j], L)
  <2>1. i \in 1 .. Len(st) /\ all[i] = st[i]
    BY <1>4, <1>6, <1>9
  <2>2. CASE j \in 1 .. Len(st)
    <3>1. all[j] = st[j]
      BY <1>6, <2>2
    <3> QED
      BY <1>9, <2>1, <2>2, <3>1 DEF InTurn
  <2>3. CASE j = Len(st) + 1
    <3>1. all[j] = h /\ st[i] \in ToSet(st)
      BY <1>1, <1>6, <2>1, <2>3, Elements
    <3> QED
      BY <1>8, <2>1, <3>1
  <2> QED
    BY <1>4, <1>6, <2>2, <2>3
<1>10. InTurn(all, R, L)
  BY <1>5, <1>7, <1>9 DEF InTurn
<1> QED
  BY <1>3, <1>5, <1>10

-----------------------------------------------------------------------------
(***************************************************************************)
(* The inductive invariant.                                                *)
(***************************************************************************)

LoopType == [state : {"idle", "ready", "sending", "ended"}, batch : Seq(EntryType), at : Nat]
States == IF python THEN {"idle", "ready", "sending"} ELSE {"idle", "sending", "ended"}

Types ==
  /\ python \in BOOLEAN
  /\ program \in Programs
  /\ next \in 1 .. (Len(program) + 1)
  /\ phase \in {"open", "shut", "exit"}
  /\ python \/ phase = "open"
  /\ closed \in BOOLEAN
  /\ late \in BOOLEAN
  /\ callers \in [Callers -> {"new", "waiting", "flushed", "cancelled", "done", "skipped"}]
  /\ awaited \in [Callers -> SUBSET Nat]

\* One loop runs at most, none without an event loop, and one that is not sending
\* has no batch.
Serial ==
  /\ loops \in [Loops -> LoopType]
  /\ \A l \in Loops : /\ loops[l].state \in States
                      /\ ~Sending(l) => loops[l].batch = <<>>
  /\ \A l, m \in Loops : loops[l].state # "idle" /\ loops[m].state # "idle" => l = m
  /\ phase = "shut" => ~Draining

\* The batch in flight and the buffer are in order.
InLine ==
  /\ \A l \in Loops : Lined(loops[l].batch, buffer)
  /\ queuedSpans = Total(buffer)

Reports == {program[i] : i \in 1 .. (next - 1)}
Flight == UNION {Spans(loops[l].batch) : l \in Loops}
Held == Spans(buffer) \cup Flight
Settled == Spans(stored) \cup lost

\* The request a loop waits for is of its batch.
Matched(ls, rs) ==
  \A m \in Loops : ls[m].state = "sending" =>
    ls[m].at \in 1 .. Len(rs) /\ rs[ls[m].at].batch = ls[m].batch

\* What was sent is sound, and what of it is stored was stored in turn.
Delivered ==
  /\ Sent(requests, Reports, Spans(stored), lost)
  /\ InTurn(stored, Reports, lost)
  /\ Matched(loops, requests)
  /\ \A x \in ToSet(buffer) : From(x, Reports)

\* The spans there are were reported, and none has vanished.
Accounted ==
  /\ Held \cup Spans(stored) \subseteq Reported
  /\ Reported \subseteq Held \cup Settled

\* What a caller waits for was reported before; what it waited for is settled.
Awaited ==
  /\ \A c \in Callers : awaited[c] \subseteq Reported
  /\ FlushSettles

\* An ended loop leaves a buffer that is empty, or was filled since.
LateKnown ==
  /\ ~python /\ buffer # <<>> /\ (\E l \in Loops : loops[l].state = "ended") => late
  /\ Served

IInv == Types /\ Serial /\ InLine /\ Delivered /\ Accounted /\ Awaited /\ LateKnown

-----------------------------------------------------------------------------
(***************************************************************************)
(* The reports.                                                            *)
(***************************************************************************)

LEMMA ProgramFacts ==
  ASSUME Types
  PROVE  /\ program \in Seq(EntryType) /\ DOMAIN program = 1 .. Len(program)
         /\ Len(program) \in Nat /\ next \in Nat
         /\ \A i \in 1 .. Len(program) : program[i] \in EntryType /\ Increasing(program[i].spans)
         /\ \A i, j \in 1 .. Len(program) : i < j => Before(program[i], program[j])
         /\ \A i \in 1 .. (next - 1) : i \in 1 .. Len(program) /\ i < next
<1>1. /\ program \in Seq(EntryType)
      /\ \A i \in DOMAIN program : Increasing(program[i].spans)
      /\ \A i, j \in DOMAIN program : i < j => Before(program[i], program[j])
  BY ProgramAssumption DEF Types
<1>2. DOMAIN program = 1 .. Len(program) /\ Len(program) \in Nat
  BY <1>1
<1>3. \A i \in 1 .. Len(program) : program[i] \in EntryType
  BY <1>1, ElementOfSeq
<1>4. next \in Nat /\ next <= Len(program) + 1
  BY <1>2 DEF Types
<1>5. \A i \in 1 .. (next - 1) : i \in 1 .. Len(program) /\ i < next
  BY <1>2, <1>4
<1> QED
  BY <1>1, <1>2, <1>3, <1>4, <1>5

LEMMA ReportsFacts ==
  ASSUME Types
  PROVE  /\ Kinds(Reports)
         /\ SpansIn(Reports) = Reported
         /\ Reported \subseteq Nat
<1>1. \A e \in Reports : e \in EntryType /\ e.spans \in Seq(Nat)
  <2>1. \A e \in Reports : e \in EntryType
    BY ProgramFacts DEF Reports
  <2> QED
    BY <2>1 DEF EntryType
<1>2. \A e \in Reports : ToSet(e.spans) \subseteq Nat
  BY <1>1, Elements
<1>3. ASSUME NEW e \in Reports, NEW f \in Reports, e # f PROVE Apart(e, f)
  <2>1. PICK i \in 1 .. (next - 1) : e = program[i]
    BY DEF Reports
  <2>2. PICK j \in 1 .. (next - 1) : f = program[j]
    BY DEF Reports
  <2>3. i < j \/ j < i
    BY <1>3, <2>1, <2>2, ProgramFacts
  <2>4. Before(e, f) \/ Before(f, e)
    BY <2>1, <2>2, <2>3, ProgramFacts
  <2>5. \A x \in ToSet(e.spans), y \in ToSet(f.spans) : x # y
    BY <1>2, <2>4 DEF Before
  <2> QED
    BY <2>5 DEF Apart
<1>4. SpansIn(Reports) = Reported
  BY DEF SpansIn, Reports, Reported
<1> QED
  BY <1>1, <1>2, <1>3, <1>4 DEF Kinds, SpansIn

\* The next report: its spans are after those of the earlier ones.
LEMMA NextReport ==
  ASSUME Types, next <= Len(program), next' = next + 1, UNCHANGED program
  PROVE  /\ program[next] \in EntryType /\ Increasing(program[next].spans)
         /\ \A x \in Reported : \A y \in ToSet(program[next].spans) : x < y
         /\ Reports' = Reports \cup {program[next]}
         /\ Reported' = Reported \cup ToSet(program[next].spans)
         /\ Grown(Reports, Reports')
         /\ next' \in 1 .. (Len(program) + 1)
<1>1. next \in 1 .. Len(program)
  BY ProgramFacts DEF Types
<1>2. /\ program[next] \in EntryType /\ Increasing(program[next].spans)
      /\ \A x \in Reported : \A y \in ToSet(program[next].spans) : x < y
  BY <1>1, ProgramFacts DEF Reported, Before
<1> DEFINE now == 1 .. (next' - 1)
           before == 1 .. (next - 1)
<1>3. now = before \cup {next}
  BY <1>1
<1>4. /\ Reported' = UNION {ToSet(program[i].spans) : i \in now}
      /\ Reported = UNION {ToSet(program[i].spans) : i \in before}
      /\ Reports' = {program[i] : i \in now}
      /\ Reports = {program[i] : i \in before}
  BY DEF Reported, Reports
<1> HIDE DEF now, before
<1>5. Reports' = Reports \cup {program[next]}
  BY <1>3, <1>4
<1>6. Reported' = Reported \cup ToSet(program[next].spans)
  BY <1>3, <1>4
<1>7. Grown(Reports, Reports')
  BY <1>2, <1>5, ReportsFacts DEF Grown
<1>8. next' \in 1 .. (Len(program) + 1)
  BY <1>1, ProgramFacts
<1> QED
  BY <1>2, <1>5, <1>6, <1>7, <1>8

-----------------------------------------------------------------------------
(***************************************************************************)
(* A loop looks at the buffer.                                             *)
(***************************************************************************)

\* What is so when loop l has looked at the entries: it sends, or there are none.
Looked(l, entries) ==
  /\ loops' \in [Loops -> LoopType]
  /\ \A m \in Loops \ {l} : loops'[m] = loops[m]
  /\ \A m \in Loops : Lined(loops'[m].batch, buffer')
  /\ queuedSpans' = Total(buffer')
  /\ Spans(entries) = Spans(loops'[l].batch) \cup Spans(buffer')
  /\ \A x \in ToSet(loops'[l].batch) \cup ToSet(buffer') : From(x, ToSet(entries))
  /\ \/ /\ loops'[l].state = "sending" /\ loops'[l].at = Len(requests) + 1
        /\ requests' = Append(requests, Request(loops'[l].batch, 0))
     \/ /\ loops'[l].state = IF python THEN "idle" ELSE "ended"
        /\ loops'[l].batch = <<>> /\ entries = <<>> /\ buffer' = <<>>
        /\ requests' = requests

LEMMA LoopLooks ==
  ASSUME NEW l \in Loops, loops \in [Loops -> LoopType],
         \A m \in Loops \ {l} : loops[m].batch = <<>>, Len(requests) \in Nat,
         NEW entries, Lined(<<>>, entries), NEW count, count = Total(entries),
         Iterate(l, entries, count)
  PROVE  Looked(l, entries)
<1>1. entries \in Seq(EntryType) /\ Clean(entries)
  BY LinedParts
<1>2. CASE entries # <<>>
  <2> DEFINE t == TakeBatch(entries)
  <2>1. /\ Lined(t.batch, t.rest)
        /\ \A x \in ToSet(t.batch) \cup ToSet(t.rest) : From(x, ToSet(entries))
        /\ Spans(entries) = Spans(t.batch) \cup Spans(t.rest)
        /\ Total(entries) - t.taken = Total(t.rest)
    BY <1>1, <1>2, BatchTaken
  <2> HIDE DEF t
  <2> DEFINE new == [state |-> "sending", batch |-> t.batch, at |-> Len(requests) + 1]
  <2>2. /\ loops' = [loops EXCEPT ![l] = new]
        /\ buffer' = t.rest /\ queuedSpans' = count - t.taken
        /\ requests' = Append(requests, Request(t.batch, 0))
    BY <1>2 DEF Iterate, t
  <2>3. /\ new \in LoopType /\ new.state = "sending" /\ new.batch = t.batch
        /\ new.at = Len(requests) + 1
    BY <2>1 DEF LoopType, Lined
  <2> HIDE DEF new
  <2>4. /\ loops' \in [Loops -> LoopType] /\ loops'[l] = new
        /\ \A m \in Loops \ {l} : loops'[m] = loops[m]
    BY <2>2, <2>3
  <2>5. Lined(<<>>, t.rest)
    BY <2>1, LinedParts
  <2>6. \A m \in Loops : Lined(loops'[m].batch, buffer')
    BY <2>1, <2>2, <2>3, <2>4, <2>5
  <2> QED
    BY <2>1, <2>2, <2>3, <2>4, <2>6 DEF Looked
<1>3. CASE entries = <<>>
  <2> DEFINE new == IF python THEN Idle ELSE Loop("ended")
  <2>1. /\ loops' = [loops EXCEPT ![l] = new] /\ buffer' = entries /\ queuedSpans' = count
        /\ requests' = requests
    BY <1>3 DEF Iterate
  <2>2. new \in LoopType /\ new.batch = <<>> /\ new.state = IF python THEN "idle" ELSE "ended"
    BY NoSpans DEF LoopType, Idle, Loop
  <2> HIDE DEF new
  <2>3. /\ loops' \in [Loops -> LoopType] /\ loops'[l] = new
        /\ \A m \in Loops \ {l} : loops'[m] = loops[m]
    BY <2>1, <2>2
  <2>4. \A m \in Loops : loops'[m].batch = <<>>
    BY <2>2, <2>3
  <2>5. ToSet(loops'[l].batch) \cup ToSet(buffer') = {}
    BY <1>3, <2>1, <2>4, EmptyElements
  <2> QED
    BY <1>3, <2>1, <2>2, <2>3, <2>4, <2>5, NoSpans DEF Looked
<1> QED
  BY <1>2, <1>3

\* One loop has looked, and the others are idle.
LEMMA LookedSerial ==
  ASSUME NEW l \in Loops, NEW entries, Looked(l, entries), python \in BOOLEAN,
         \A m \in Loops \ {l} : loops[m].state = "idle" /\ loops[m].batch = <<>>,
         UNCHANGED <<python, phase>>, phase # "shut"
  PROVE  /\ Serial'
         /\ Flight' = Spans(loops'[l].batch)
         /\ Held' = Spans(entries)
         /\ buffer' = <<>> \/ (Draining' /\ \A m \in Loops : loops'[m].state # "ended")
<1>1. /\ loops' \in [Loops -> LoopType]
      /\ \A m \in Loops \ {l} : loops'[m].state = "idle" /\ loops'[m].batch = <<>>
  BY DEF Looked
<1>2. /\ loops'[l].state \in IF python THEN {"idle", "ready", "sending"}
                             ELSE {"idle", "sending", "ended"}
      /\ loops'[l].state # "sending" => loops'[l].batch = <<>>
  BY DEF Looked
<1>3. \A m \in Loops : /\ loops'[m].state \in IF python THEN {"idle", "ready", "sending"}
                                              ELSE {"idle", "sending", "ended"}
                       /\ loops'[m].state # "sending" => loops'[m].batch = <<>>
  BY <1>1, <1>2
<1>4. \A k, m \in Loops : loops'[k].state # "idle" /\ loops'[m].state # "idle" => k = m
  BY <1>1
<1>5. Serial'
  BY <1>1, <1>3, <1>4 DEF Serial, States, Sending
<1>6. Flight' = Spans(loops'[l].batch)
  BY <1>1, NoSpans DEF Flight
<1>7. Held' = Spans(entries)
  BY <1>6 DEF Held, Looked
<1>8. buffer' = <<>> \/ (Draining' /\ \A m \in Loops : loops'[m].state # "ended")
  <2>1. CASE loops'[l].state = "sending"
    BY <1>1, <2>1 DEF Draining
  <2>2. CASE loops'[l].state # "sending"
    BY <2>2 DEF Looked
  <2> QED
    BY <2>1, <2>2
<1> QED
  BY <1>5, <1>6, <1>7, <1>8

\* What the look sent is sound, if what was reported is there or settled.
LEMMA LookedDelivers ==
  ASSUME NEW l \in Loops, NEW entries, Looked(l, entries),
         NEW R, Kinds(R), NEW S, NEW L, Sent(requests, R, S, L),
         \A x \in ToSet(entries) : From(x, R),
         SpansIn(R) \subseteq Spans(entries) \cup S \cup L,
         \A m \in Loops \ {l} : loops[m].state = "idle"
  PROVE  /\ Sent(requests', R, S, L)
         /\ Matched(loops', requests')
         /\ \A x \in ToSet(buffer') : From(x, R)
<1> DEFINE batch == loops'[l].batch
<1>1. \A x \in ToSet(batch) \cup ToSet(buffer') : From(x, R)
  BY FromFrom DEF Looked
<1>2. Lined(batch, buffer') /\ batch \in Seq(EntryType)
  BY DEF Looked, Lined
<1>3. \A m \in Loops \ {l} : loops'[m].state = "idle"
  BY DEF Looked
<1>4. CASE loops'[l].state = "sending"
  <2>1. loops'[l].at = Len(requests) + 1 /\ requests' = Append(requests, Request(batch, 0))
    BY <1>4 DEF Looked
  <2>2. SpansIn(R) \subseteq Spans(batch) \cup Spans(buffer') \cup (S \cup L)
    BY DEF Looked
  <2> HIDE DEF batch
  <2>3. \A g \in ToSet(batch) : Sound(g, R, S \cup L)
    BY <1>1, <1>2, <2>2, SoundTaken
  <2> DEFINE new == Request(batch, 0)
             all == Append(requests, new)
  <2>4. new \in RequestType /\ new.batch = batch /\ new.done = 0
    BY <1>2, NewRequest
  <2>5. requests' = all
    BY <2>1
  <2> HIDE DEF new
  <2>7. Sent(all, R, S, L) /\ Len(requests) + 1 \in 1 .. Len(all) /\ all[Len(requests) + 1] = new
    <3>1. \A g \in ToSet(new.batch) : Sound(g, R, S \cup L)
      BY <2>3, <2>4
    <3>2. new \in RequestType /\ new.done = 0
      BY <2>4
    <3>3. Sent(Append(requests, new), R, S, L)
      BY <3>1, <3>2, SentMore
    <3>4. /\ Len(requests) + 1 \in 1 .. Len(Append(requests, new))
          /\ Append(requests, new)[Len(requests) + 1] = new
      BY <3>1, <3>2, SentMore
    <3> QED
      BY <3>3, <3>4
  <2> HIDE DEF all
  <2>8. loops'[l].at \in 1 .. Len(requests') /\ requests'[loops'[l].at].batch = loops'[l].batch
    BY <2>1, <2>4, <2>5, <2>7 DEF batch
  <2>6. Matched(loops', requests')
    BY <1>3, <2>8 DEF Matched
  <2> QED
    BY <1>1, <2>5, <2>6, <2>7
<1>5. CASE loops'[l].state # "sending"
  <2>1. requests' = requests
    BY <1>5 DEF Looked
  <2>2. Matched(loops', requests')
    BY <1>3, <1>5 DEF Matched
  <2> QED
    BY <1>1, <2>1, <2>2
<1> QED
  BY <1>4, <1>5

-----------------------------------------------------------------------------
(***************************************************************************)
(* wake: a loop is started, or one runs and nothing happens.               *)
(***************************************************************************)

Woken(entries) ==
  /\ Serial' /\ InLine'
  /\ Held' = Spans(entries) \cup Flight
  /\ MayStart => /\ Draining'
                 /\ \/ \A m \in Loops : loops'[m].state # "ended"
                    \/ buffer' = <<>>
  /\ ~MayStart => UNCHANGED loops /\ buffer' = entries

\* What was sent is sound before and after.
Handed(R, S, L) ==
  /\ Sent(requests', R, S, L)
  /\ Matched(loops', requests')
  /\ \A x \in ToSet(buffer') : From(x, R)

LEMMA LoopWakes ==
  ASSUME Types, Serial, NEW entries, NEW count, count = Total(entries),
         \A l \in Loops : Lined(loops[l].batch, entries),
         Wake(entries, count), UNCHANGED <<python, phase>>,
         NEW R, Kinds(R), NEW S, NEW L, Sent(requests, R, S, L), Matched(loops, requests),
         \A x \in ToSet(entries) : From(x, R),
         SpansIn(R) \subseteq Spans(entries) \cup Flight \cup S \cup L
  PROVE  Woken(entries) /\ Handed(R, S, L)
<1>1. CASE ~MayStart
  <2>1. /\ buffer' = entries /\ queuedSpans' = count /\ loops' = loops
        /\ requests' = requests
    BY <1>1 DEF Wake
  <2>2. Serial' /\ InLine'
    BY <2>1 DEF Serial, States, Sending, Draining, InLine
  <2>3. Held' = Spans(entries) \cup Flight
    BY <2>1 DEF Held, Flight
  <2>4. Handed(R, S, L)
    BY <2>1 DEF Handed
  <2> QED
    BY <1>1, <2>1, <2>2, <2>3, <2>4 DEF Woken
<1>2. CASE MayStart
  <2> DEFINE l == CHOOSE x \in Loops : loops[x].state = "idle"
  <2>1. \A m \in Loops : loops[m].state = "idle" /\ loops[m].batch = <<>>
    BY <1>2 DEF MayStart, Draining, Serial, Sending
  <2>2. l \in Loops
    BY <2>1, LoopAssumption
  <2>3. phase # "shut"
    BY <1>2 DEF MayStart
  <2>4. Flight = {}
    BY <2>1, NoSpans DEF Flight
  <2>5. Lined(<<>>, entries) /\ Len(requests) \in Nat
    <3>1. requests \in Seq(RequestType)
      BY DEF Sent
    <3> QED
      BY <2>1, <2>2, <3>1, LenProperties
  <2>6. CASE python
    <3> DEFINE new == Loop("ready")
    <3>1. /\ loops' = [loops EXCEPT ![l] = new]
          /\ buffer' = entries /\ queuedSpans' = count /\ requests' = requests
      BY <1>2, <2>6 DEF Wake
    <3>2. new \in LoopType /\ new.state = "ready" /\ new.batch = <<>>
      BY NoSpans DEF LoopType, Loop
    <3> HIDE DEF new, l
    <3>3. /\ loops' \in [Loops -> LoopType] /\ loops'[l] = new
          /\ \A m \in Loops \ {l} : loops'[m] = loops[m]
      BY <2>2, <3>1, <3>2 DEF Serial
    <3>4. \A m \in Loops : /\ loops'[m].batch = <<>> /\ loops'[m].state \in {"idle", "ready"}
                           /\ loops'[m].state # "idle" => m = l
      BY <2>1, <3>2, <3>3
    <3>5. Serial'
      BY <2>3, <2>6, <3>3, <3>4 DEF Serial, States, Sending
    <3>6. Held' = Spans(entries)
      BY <3>1, <3>4, NoSpans DEF Held, Flight
    <3>7. InLine'
      BY <2>5, <3>1, <3>4 DEF InLine
    <3>8. Draining'
      BY <2>2, <3>2, <3>3 DEF Draining
    <3>9. Matched(loops', requests')
      BY <3>4 DEF Matched
    <3>10. Handed(R, S, L)
      BY <3>1, <3>9 DEF Handed
    <3> QED
      BY <1>2, <2>4, <3>4, <3>5, <3>6, <3>7, <3>8, <3>10 DEF Woken
  <2>7. CASE ~python
    <3>1. Iterate(l, entries, count)
      BY <1>2, <2>7 DEF Wake
    <3> HIDE DEF l
    <3>2. Looked(l, entries)
      BY <2>1, <2>2, <2>5, <3>1, LoopLooks DEF Serial
    <3>3. Serial' /\ Held' = Spans(entries)
      BY <2>1, <2>2, <2>3, <3>2, LookedSerial DEF Types
    <3>4. Draining'
      BY <2>2, <2>7, <3>2 DEF Looked, Draining
    <3>5. (\A m \in Loops : loops'[m].state # "ended") \/ buffer' = <<>>
      BY <2>1, <3>2 DEF Looked
    <3>6. InLine'
      BY <3>2 DEF Looked, InLine
    <3>7. Handed(R, S, L)
      <4>1. SpansIn(R) \subseteq Spans(entries) \cup S \cup L
        BY <2>4
      <4> QED
        BY <2>1, <2>2, <3>2, <4>1, LookedDelivers DEF Handed
    <3> QED
      BY <1>2, <2>4, <3>3, <3>4, <3>5, <3>6, <3>7 DEF Woken
  <2> QED
    BY <2>6, <2>7
<1> QED
  BY <1>1, <1>2

-----------------------------------------------------------------------------
(***************************************************************************)
(* The steps.                                                              *)
(***************************************************************************)

LEMMA OthersIdle ==
  ASSUME Serial, NEW l \in Loops, loops[l].state # "idle"
  PROVE  /\ \A m \in Loops \ {l} : loops[m].state = "idle" /\ loops[m].batch = <<>>
         /\ Flight = Spans(loops[l].batch)
         /\ phase # "shut"
<1>1. \A m \in Loops \ {l} : loops[m].state = "idle" /\ loops[m].batch = <<>>
  BY DEF Serial, Sending
<1>2. Flight = Spans(loops[l].batch)
  BY <1>1, NoSpans DEF Flight
<1> QED
  BY <1>1, <1>2 DEF Serial, Draining

\* Nothing that a caller waits for, or waited for, is lost sight of.
LEMMA AwaitedKept ==
  ASSUME Awaited, Reported \subseteq Reported', Settled \subseteq Settled',
         UNCHANGED <<callers, awaited>>
  PROVE  Awaited'
BY DEF Awaited, FlushSettles, Settled

\* What was sent stays sound when a report is made, or spans are given up.
LEMMA DeliveredGrown ==
  ASSUME Types, Delivered, NEW R, Grown(Reports, R), NEW L, lost \subseteq L
  PROVE  /\ Kinds(R)
         /\ Sent(requests, R, Spans(stored), L)
         /\ InTurn(stored, R, L)
         /\ \A x \in ToSet(buffer) : From(x, R)
<1>1. /\ Sent(requests, Reports, Spans(stored), lost)
      /\ InTurn(stored, Reports, lost)
      /\ \A x \in ToSet(buffer) : From(x, Reports)
  BY DEF Delivered
<1>2. Kinds(Reports)
  BY ReportsFacts
<1>3. Kinds(R)
  BY <1>2, KindsGrown
<1>4. Sent(requests, R, Spans(stored), L)
  <2>1. Spans(stored) \subseteq Spans(stored)
    OBVIOUS
  <2> QED
    BY <1>1, <1>2, <2>1, SentKept
<1>5. InTurn(stored, R, L)
  BY <1>1, <1>2, InTurnKept
<1>6. \A x \in ToSet(buffer) : From(x, R)
  <2>1. Reports \subseteq R
    BY DEF Grown
  <2> QED
    BY <1>1, <2>1 DEF From
<1> QED
  BY <1>3, <1>4, <1>5, <1>6

LEMMA InitIInv == Init => IInv
<1> SUFFICES ASSUME Init PROVE IInv
  OBVIOUS
<1>1. program \in Seq(EntryType) /\ Len(program) \in Nat
  BY ProgramAssumption, LenProperties DEF Init
<1>2. Types
  <2>1. next \in 1 .. (Len(program) + 1)
    BY <1>1 DEF Init
  <2>2. /\ callers \in [Callers -> {"new", "waiting", "flushed", "cancelled", "done", "skipped"}]
        /\ awaited \in [Callers -> SUBSET Nat]
    BY DEF Init
  <2> QED
    BY <2>1, <2>2 DEF Init, Types
<1>3. /\ loops \in [Loops -> LoopType]
      /\ \A l \in Loops : loops[l].state = "idle" /\ loops[l].batch = <<>>
  <2>1. Idle \in LoopType /\ Idle.state = "idle" /\ Idle.batch = <<>>
    BY NoSpans DEF Idle, Loop, LoopType
  <2> QED
    BY <2>1 DEF Init
<1>4. Serial
  BY <1>3 DEF Init, Serial, States, Sending
<1>5. Lined(<<>>, <<>>)
  <2>1. <<>> \o <<>> = <<>>
    BY NoSpans, ConcatEmptySeq
  <2>2. Distinct(<<>>) /\ Bounded(<<>>)
    BY NoSpans, CapAssumption DEF Distinct, Bounded
  <2> QED
    BY <2>1, <2>2, NoSpans, CleanEmpty DEF Lined
<1>6. InLine
  BY <1>3, <1>5, NoSpans DEF Init, InLine
<1>7. Delivered
  <2>1. buffer = <<>> /\ stored = <<>> /\ requests = <<>>
    BY DEF Init
  <2>2. <<>> \in Seq(RequestType) /\ Len(<<>>) = 0 /\ 1 .. 0 = {}
    OBVIOUS
  <2>3. Sent(<<>>, Reports, Spans(stored), lost)
    BY <2>2 DEF Sent
  <2>4. InTurn(<<>>, Reports, lost)
    BY <2>2, NoSpans, EmptyElements DEF InTurn
  <2>5. Matched(loops, requests)
    BY <1>3 DEF Matched
  <2> QED
    BY <2>1, <2>3, <2>4, <2>5, EmptyElements DEF Delivered
<1>8. Reported = {} /\ Held = {} /\ Spans(stored) = {}
  <2>1. Flight = {}
    BY <1>3, NoSpans DEF Flight
  <2> QED
    BY <2>1, NoSpans DEF Init, Reported, Held
<1>9. Accounted
  BY <1>8 DEF Accounted
<1>10. Awaited
  BY <1>8 DEF Init, Awaited, FlushSettles
<1>11. LateKnown
  BY DEF Init, LateKnown, Served
<1> QED
  BY <1>2, <1>4, <1>6, <1>7, <1>9, <1>10, <1>11 DEF IInv

LEMMA EnqueueKeeps ==
  ASSUME IInv, Enqueue
  PROVE  IInv'
<1> DEFINE entry == program[next]
<1>1. /\ Types /\ Serial /\ InLine /\ Delivered /\ Accounted /\ Awaited /\ LateKnown
      /\ next <= Len(program) /\ next' = next + 1
      /\ UNCHANGED <<python, program, phase, closed, callers, awaited, stored>>
  BY DEF IInv, Enqueue
<1>2. /\ entry \in EntryType /\ Increasing(entry.spans)
      /\ \A x \in Reported : \A y \in ToSet(entry.spans) : x < y
      /\ Reports' = Reports \cup {entry}
      /\ Reported' = Reported \cup ToSet(entry.spans)
      /\ Grown(Reports, Reports')
      /\ next' \in 1 .. (Len(program) + 1)
  BY <1>1, NextReport
<1>3. lost \subseteq lost'
  BY DEF Enqueue, EnqueueClosed, EnqueueOpen
<1>4. /\ Kinds(Reports')
      /\ Sent(requests, Reports', Spans(stored), lost')
      /\ InTurn(stored, Reports', lost')
      /\ \A x \in ToSet(buffer) : From(x, Reports')
  BY <1>1, <1>2, <1>3, DeliveredGrown
<1>5. Types' /\ Awaited' /\ Accounted' /\ Serial' /\ InLine' /\ Delivered' /\ LateKnown'
  <2>1. CASE EnqueueClosed
    <3>1. /\ lost' = lost \cup ToSet(entry.spans)
          /\ UNCHANGED <<buffer, queuedSpans, loops, late, requests>>
      BY <2>1 DEF EnqueueClosed
    <3>2. Types'
      BY <1>1, <1>2, <3>1 DEF Types
    <3>3. Serial' /\ InLine' /\ LateKnown'
      BY <1>1, <3>1 DEF Serial, States, Sending, Draining, InLine, LateKnown, Served
    <3>4. Held' = Held
      BY <3>1 DEF Held, Flight
    <3>5. Accounted' /\ Awaited'
      <4>1. Settled' = Settled \cup ToSet(entry.spans) /\ Spans(stored)' = Spans(stored)
        BY <1>1, <3>1 DEF Settled
      <4>2. Accounted'
        BY <1>1, <1>2, <3>4, <4>1 DEF Accounted
      <4> QED
        BY <1>1, <1>2, <4>1, <4>2, AwaitedKept
    <3>6. Delivered'
      BY <1>1, <1>4, <3>1 DEF Delivered
    <3> QED
      BY <3>2, <3>3, <3>5, <3>6
  <2>2. CASE EnqueueOpen
    <3> DEFINE pushed == Append(buffer, entry)
               shed == Shed(pushed)
               gone == SubSeq(pushed, 1, shed)
               kept == SubSeq(pushed, shed + 1, Len(pushed))
               count == queuedSpans + Size(entry) - Total(gone)
    <3>1. /\ lost' = lost \cup Spans(gone)
          /\ Wake(kept, count)
          /\ late' = (buffer' # <<>> /\ \E l \in Loops : loops[l].state = "ended")
      BY <2>2 DEF EnqueueOpen
    <3>2. ASSUME NEW l \in Loops
          PROVE  /\ Lined(loops[l].batch, pushed)
                 /\ Spans(pushed) = Spans(buffer) \cup ToSet(entry.spans)
                 /\ Total(pushed) = Total(buffer) + Size(entry)
      <4>1. Lined(loops[l].batch, buffer)
        BY <1>1 DEF InLine
      <4>2. Spans(loops[l].batch) \cup Spans(buffer) \subseteq Reported
        BY <1>1 DEF Accounted, Held, Flight
      <4>3. \A x \in Spans(loops[l].batch) \cup Spans(buffer) :
              \A y \in ToSet(entry.spans) : x < y
        BY <1>2, <4>2
      <4> QED
        BY <1>2, <4>1, <4>3, LinedPush
    <3>3. PICK z \in Loops : TRUE
      BY LoopAssumption
    <3>4. ToSet(pushed) = ToSet(buffer) \cup {entry}
      <4> DEFINE one == <<entry>>
      <4>1. buffer \in Seq(EntryType) /\ one \in Seq(EntryType) /\ ToSet(one) = {entry}
        BY <1>1, <1>2, <3>3, OneElement DEF InLine, Lined
      <4>2. pushed = buffer \o one
        BY <1>2, <4>1, AppendIsConcat
      <4> HIDE DEF one, pushed, entry
      <4> QED
        BY <4>1, <4>2, ConcatElements
    <3>5. \A x \in ToSet(pushed) : From(x, Reports')
      <4>1. From(entry, Reports')
        BY <1>2, FromSelf
      <4> QED
        BY <1>4, <3>4, <4>1
    <3> HIDE DEF pushed
    <3>6. pushed \in Seq(EntryType) /\ shed \in 0 .. Len(pushed)
      <4>1. pushed \in Seq(EntryType)
        BY <3>2, <3>3 DEF Lined
      <4> QED
        BY <4>1, ShedSome
    <3> HIDE DEF shed
    <3>7. ASSUME NEW l \in Loops
          PROVE  /\ Lined(loops[l].batch, kept)
                 /\ Spans(pushed) = Spans(gone) \cup Spans(kept)
                 /\ Total(pushed) - Total(gone) = Total(kept)
      BY <3>2, <3>6, LinedSheds
    <3>8. count = Total(kept)
      <4>1. /\ queuedSpans = Total(buffer)
            /\ Total(pushed) = Total(buffer) + Size(entry)
            /\ Total(pushed) - Total(gone) = Total(kept)
        BY <1>1, <3>2, <3>3, <3>7 DEF InLine
      <4>2. Total(pushed) = queuedSpans + Size(entry)
        BY <4>1
      <4>3. gone \in Seq(EntryType) /\ buffer \in Seq(EntryType) /\ entry.spans \in Seq(Nat)
        BY <1>1, <1>2, <3>3, <3>6, Cut DEF InLine, Lined, EntryType
      <4>4. Total(gone) \in Nat /\ queuedSpans \in Nat /\ Size(entry) \in Nat
        BY <4>1, <4>3, TotalType, LenProperties DEF Size
      <4> HIDE DEF gone, kept, entry
      <4>5. count = Total(pushed) - Total(gone)
        BY <4>2, <4>4
      <4> QED
        BY <4>1, <4>5
    <3>9. /\ Spans(pushed) = Spans(buffer) \cup ToSet(entry.spans)
          /\ Spans(pushed) = Spans(gone) \cup Spans(kept)
      BY <3>2, <3>3, <3>7
    <3>10. \A x \in ToSet(kept) : From(x, Reports')
      <4>1. Clean(pushed)
        BY <3>2, <3>3, LinedParts
      <4>2. ToSet(kept) \subseteq ToSet(pushed)
        BY <3>6, <4>1, CleanCut
      <4> QED
        BY <3>5, <4>2
    <3> HIDE DEF gone, kept, count
    <3>11. SpansIn(Reports') \subseteq Spans(kept) \cup Flight \cup Spans(stored) \cup lost'
      <4>1. SpansIn(Reports') = Reported \cup ToSet(entry.spans)
        <5>1. SpansIn(Reports) = Reported
          BY <1>1, ReportsFacts
        <5> QED
          BY <1>2, <5>1 DEF SpansIn
      <4>2. Reported \subseteq Spans(buffer) \cup Flight \cup Spans(stored) \cup lost
        BY <1>1 DEF Accounted, Held, Settled
      <4> QED
        BY <3>1, <3>9, <4>1, <4>2
    <3>12. Woken(kept) /\ Handed(Reports', Spans(stored), lost')
      <4>1. Matched(loops, requests)
        BY <1>1 DEF Delivered
      <4> QED
        BY <1>1, <1>4, <3>1, <3>7, <3>8, <3>10, <3>11, <4>1, LoopWakes
    <3>13. Types'
      BY <1>1, <1>2, <3>1 DEF Types
    <3>14. Accounted' /\ Awaited'
      <4>1. Held' = Spans(kept) \cup Flight /\ Settled' = Settled \cup Spans(gone)
        BY <1>1, <3>1, <3>12 DEF Woken, Settled
      <4>2. Held' \cup Spans(stored) \subseteq Reported'
        BY <1>1, <1>2, <3>9, <4>1 DEF Accounted, Held
      <4>3. Reported' \subseteq Held' \cup Settled'
        BY <1>1, <1>2, <3>9, <4>1 DEF Accounted, Held
      <4>4. Accounted'
        BY <1>1, <4>2, <4>3 DEF Accounted
      <4> QED
        BY <1>1, <1>2, <4>1, <4>4, AwaitedKept
    <3>15. LateKnown'
      <4>1. CASE MayStart
        BY <1>1, <3>12, <4>1 DEF Woken, LateKnown, Served
      <4>2. CASE ~MayStart
        <5>1. loops' = loops /\ (Draining \/ phase = "shut") /\ (python \/ phase = "open")
          BY <1>1, <3>12, <4>2 DEF Woken, MayStart, Types
        <5> QED
          BY <1>1, <3>1, <5>1 DEF LateKnown, Served, Draining
      <4> QED
        BY <4>1, <4>2
    <3>16. Delivered'
      BY <1>1, <1>4, <3>12 DEF Delivered, Handed
    <3> QED
      BY <3>12, <3>13, <3>14, <3>15, <3>16 DEF Woken
  <2> QED
    BY <2>1, <2>2 DEF Enqueue
<1> QED
  BY <1>5 DEF IInv

LEMMA RequestKeeps ==
  ASSUME IInv, NEW l \in Loops, NEW ok \in BOOLEAN, RequestEnds(l, ok)
  PROVE  IInv'
<1> DEFINE batch == loops[l].batch
           at == loops[l].at
<1>1. /\ Types /\ Serial /\ InLine /\ Delivered /\ Accounted /\ Awaited /\ LateKnown
      /\ Sending(l) /\ (ok => requests[at].done = Len(batch))
      /\ lost' = IF ok THEN lost ELSE lost \cup Spans(batch)
      /\ Iterate(l, buffer, queuedSpans)
      /\ late' = FALSE
      /\ UNCHANGED <<python, program, next, phase, closed, callers, awaited, stored>>
  BY DEF IInv, RequestEnds
<1>2. /\ \A m \in Loops \ {l} : loops[m].state = "idle" /\ loops[m].batch = <<>>
      /\ Flight = Spans(batch) /\ phase # "shut"
  BY <1>1, OthersIdle DEF Sending
<1>3. Lined(<<>>, buffer) /\ Len(requests) \in Nat /\ batch \in Seq(EntryType)
  <2>1. Lined(batch, buffer)
    BY <1>1 DEF InLine
  <2>2. requests \in Seq(RequestType)
    BY <1>1 DEF Delivered, Sent
  <2> QED
    BY <2>1, <2>2, LinedParts, LenProperties
\* The server has stored what the client was told it has.
<1>4. ok => Spans(batch) \subseteq Spans(stored)
  <2> SUFFICES ASSUME ok PROVE Spans(batch) \subseteq Spans(stored)
    OBVIOUS
  <2>1. at \in 1 .. Len(requests) /\ requests[at].batch = batch
    BY <1>1 DEF Delivered, Matched, Sending
  <2>2. \A k \in 1 .. requests[at].done :
          k \in 1 .. Len(batch) /\ ToSet(batch[k].spans) \subseteq Spans(stored)
    BY <1>1, <2>1 DEF Delivered, Sent
  <2>3. \A k \in 1 .. Len(batch) : ToSet(batch[k].spans) \subseteq Spans(stored)
    BY <1>1, <2>2
  <2>4. \A g \in ToSet(batch) : ToSet(g.spans) \subseteq Spans(stored)
    BY <1>3, <2>3, Elements
  <2>5. Spans(batch) = UNION {ToSet(g.spans) : g \in ToSet(batch)}
    BY <1>3, SpansOf
  <2> QED
    BY <2>4, <2>5
<1> HIDE DEF at
<1>5. Looked(l, buffer)
  BY <1>1, <1>2, <1>3, LoopLooks DEF Serial, InLine
<1>6. /\ Serial' /\ Held' = Spans(buffer)
      /\ buffer' = <<>> \/ (Draining' /\ \A m \in Loops : loops'[m].state # "ended")
  BY <1>1, <1>2, <1>5, LookedSerial DEF Types
<1>7. Types'
  BY <1>1 DEF Types
<1>8. InLine'
  BY <1>5 DEF InLine, Looked
<1>9. Reported' = Reported /\ Reports' = Reports
  BY <1>1 DEF Reported, Reports
<1>10. Settled \subseteq Settled' /\ Spans(batch) \subseteq Settled'
  BY <1>1, <1>4 DEF Settled
<1>11. Held = Spans(buffer) \cup Spans(batch)
  BY <1>2 DEF Held
<1>12. Accounted'
  <2>1. Held' \cup Spans(stored') \subseteq Reported'
    BY <1>1, <1>6, <1>9, <1>11 DEF Accounted
  <2>2. Reported' \subseteq Held' \cup Settled'
    BY <1>1, <1>6, <1>9, <1>10, <1>11 DEF Accounted
  <2> QED
    BY <2>1, <2>2 DEF Accounted
<1>13. Awaited'
  BY <1>1, <1>9, <1>10, AwaitedKept
<1>14. LateKnown'
  BY <1>1, <1>6 DEF LateKnown, Served
<1>15. Delivered'
  <2>1. lost \subseteq lost' /\ Grown(Reports, Reports)
    BY <1>1 DEF Grown
  <2>2. /\ Kinds(Reports)
        /\ Sent(requests, Reports, Spans(stored), lost')
        /\ InTurn(stored, Reports, lost')
        /\ \A x \in ToSet(buffer) : From(x, Reports)
    BY <1>1, <2>1, DeliveredGrown
  <2>3. SpansIn(Reports) \subseteq Spans(buffer) \cup Spans(stored) \cup lost'
    <3>1. SpansIn(Reports) = Reported /\ Spans(batch) \subseteq Spans(stored) \cup lost'
      BY <1>1, <1>4, ReportsFacts
    <3> QED
      BY <1>1, <1>11, <2>1, <3>1 DEF Accounted, Settled
  <2>4. /\ Sent(requests', Reports, Spans(stored), lost')
        /\ Matched(loops', requests')
        /\ \A x \in ToSet(buffer') : From(x, Reports)
    BY <1>2, <1>5, <2>2, <2>3, LookedDelivers
  <2> QED
    BY <1>1, <1>9, <2>2, <2>4 DEF Delivered
<1> QED
  BY <1>6, <1>7, <1>8, <1>12, <1>13, <1>14, <1>15 DEF IInv

\* A loop waits for another request, and a request has one more group stored.
LEMMA OtherRequest ==
  ASSUME NEW x \in LoopType, NEW n \in Nat
  PROVE  LET r == [x EXCEPT !.at = n]
         IN  r \in LoopType /\ r.state = x.state /\ r.batch = x.batch /\ r.at = n
BY DEF LoopType

LEMMA OneMoreDone ==
  ASSUME NEW x \in RequestType
  PROVE  LET r == [x EXCEPT !.done = x.done + 1]
         IN  r \in RequestType /\ r.batch = x.batch /\ r.done = x.done + 1
BY DEF RequestType

\* A request is sent again: its groups are those of the batch in flight.
LEMMA ResendKeeps ==
  ASSUME IInv, NEW l \in Loops, Resend(l)
  PROVE  IInv'
<1> DEFINE batch == loops[l].batch
           at == loops[l].at
           new == Request(batch, requests[at].try + 1)
           all == Append(requests, new)
<1>1. /\ Types /\ Serial /\ InLine /\ Delivered /\ Accounted /\ Awaited /\ LateKnown
      /\ Sending(l) /\ requests' = all
      /\ loops' = [loops EXCEPT ![l].at = Len(requests) + 1]
      /\ UNCHANGED <<python, program, next, phase, buffer, queuedSpans, closed,
                     callers, awaited, late, stored, lost>>
  BY DEF IInv, Resend
<1>2. /\ requests \in Seq(RequestType) /\ Len(requests) \in Nat
      /\ at \in 1 .. Len(requests) /\ requests[at].batch = batch
      /\ \A g \in ToSet(batch) : Sound(g, Reports, Spans(stored) \cup lost)
  <2>1. at \in 1 .. Len(requests) /\ requests[at].batch = batch
    BY <1>1 DEF Delivered, Matched, Sending
  <2>2. requests \in Seq(RequestType)
    BY <1>1 DEF Delivered, Sent
  <2> QED
    BY <1>1, <2>1, <2>2, LenProperties DEF Delivered, Sent
<1>3. new \in RequestType /\ new.batch = batch /\ new.done = 0
  <2>1. requests[at] \in RequestType
    BY <1>2, ElementOfSeq
  <2>2. requests[at].try + 1 \in Nat /\ batch \in Seq(EntryType)
    BY <1>2, <2>1 DEF RequestType
  <2> QED
    BY <2>2, NewRequest
<1> HIDE DEF new, at
<1>4. /\ Sent(all, Reports, Spans(stored), lost)
      /\ Len(requests) + 1 \in 1 .. Len(all) /\ all[Len(requests) + 1] = new
      /\ \A i \in 1 .. Len(requests) : i \in 1 .. Len(all) /\ all[i] = requests[i]
  <2>1. \A g \in ToSet(new.batch) : Sound(g, Reports, Spans(stored) \cup lost)
    BY <1>2, <1>3
  <2>2. new \in RequestType /\ new.done = 0
    BY <1>3
  <2>3. Sent(requests, Reports, Spans(stored), lost)
    BY <1>1 DEF Delivered
  <2>4. Sent(Append(requests, new), Reports, Spans(stored), lost)
    BY <2>1, <2>2, <2>3, SentMore
  <2>5. /\ Len(requests) + 1 \in 1 .. Len(Append(requests, new))
        /\ Append(requests, new)[Len(requests) + 1] = new
    BY <2>1, <2>2, <2>3, SentMore
  <2>6. \A i \in 1 .. Len(requests) : i \in 1 .. Len(Append(requests, new))
                                      /\ Append(requests, new)[i] = requests[i]
    BY <2>1, <2>2, <2>3, SentMore
  <2> QED
    BY <2>4, <2>5, <2>6
<1> HIDE DEF all, batch
<1>5. /\ loops' \in [Loops -> LoopType]
      /\ \A m \in Loops : loops'[m].state = loops[m].state /\ loops'[m].batch = loops[m].batch
      /\ loops'[l].at = Len(requests) + 1
      /\ \A m \in Loops \ {l} : loops'[m].at = loops[m].at
  <2> DEFINE r == [loops[l] EXCEPT !.at = Len(requests) + 1]
  <2>1. loops \in [Loops -> LoopType]
    BY <1>1 DEF Serial
  <2>2. /\ r \in LoopType /\ r.state = loops[l].state /\ r.batch = loops[l].batch
        /\ r.at = Len(requests) + 1
    BY <1>2, <2>1, OtherRequest
  <2>3. loops' = [loops EXCEPT ![l] = r]
    BY <1>1
  <2> HIDE DEF r
  <2>4. /\ loops' \in [Loops -> LoopType] /\ loops'[l] = r
        /\ \A m \in Loops \ {l} : loops'[m] = loops[m]
    BY <2>1, <2>2, <2>3
  <2> QED
    BY <2>2, <2>4
<1>6. Serial'
  BY <1>1, <1>5 DEF Serial, States, Sending, Draining
<1>7. Types' /\ InLine' /\ LateKnown'
  BY <1>1, <1>5 DEF Types, InLine, LateKnown, Served, Draining
<1>8. Held' = Held
  BY <1>1, <1>5 DEF Held, Flight
<1>9. Reported' = Reported /\ Settled' = Settled /\ Reports' = Reports
  BY <1>1 DEF Reported, Settled, Reports
<1>10. Accounted' /\ Awaited'
  BY <1>1, <1>8, <1>9, AwaitedKept DEF Accounted
<1>11. Matched(loops', requests')
  <2> SUFFICES ASSUME NEW m \in Loops, loops'[m].state = "sending"
               PROVE  /\ loops'[m].at \in 1 .. Len(requests')
                      /\ requests'[loops'[m].at].batch = loops'[m].batch
    BY DEF Matched
  <2>1. CASE m = l
    BY <1>1, <1>3, <1>4, <1>5, <2>1 DEF batch
  <2>2. CASE m # l
    BY <1>1, <1>4, <1>5, <2>2 DEF Delivered, Matched
  <2> QED
    BY <2>1, <2>2
<1>12. Delivered'
  BY <1>1, <1>4, <1>9, <1>11 DEF Delivered
<1> QED
  BY <1>6, <1>7, <1>10, <1>12 DEF IInv

\* The server stores a group of a request, which may have been given up.
LEMMA ServerStoresKeeps ==
  ASSUME IInv, NEW i \in DOMAIN requests, ServerStores(i)
  PROVE  IInv'
<1> DEFINE done == requests[i].done
           h == requests[i].batch[done + 1]
<1>1. /\ Types /\ Serial /\ InLine /\ Delivered /\ Accounted /\ Awaited /\ LateKnown
      /\ done < Len(requests[i].batch)
      /\ h.trace # None => ToSet(h.spans) \cap Spans(stored) = {}
      /\ stored' = Append(stored, h)
      /\ requests' = [requests EXCEPT ![i].done = @ + 1]
      /\ UNCHANGED <<python, program, next, phase, buffer, queuedSpans, loops, closed,
                     callers, awaited, late, lost>>
  BY DEF IInv, ServerStores, MayStore
<1>2. /\ requests \in Seq(RequestType) /\ i \in 1 .. Len(requests)
      /\ requests[i] \in RequestType
  <2>1. requests \in Seq(RequestType)
    BY <1>1 DEF Delivered, Sent
  <2> QED
    BY <2>1, ElementOfSeq
<1>3. /\ requests' \in Seq(RequestType) /\ Len(requests') = Len(requests)
      /\ \A k \in 1 .. Len(requests) : requests'[k].batch = requests[k].batch
      /\ \A k \in 1 .. Len(requests) : k # i => requests'[k].done = requests[k].done
      /\ requests'[i].done = done + 1
  <2> DEFINE r == [requests[i] EXCEPT !.done = requests[i].done + 1]
  <2>1. r \in RequestType /\ r.batch = requests[i].batch /\ r.done = done + 1
    BY <1>2, OneMoreDone
  <2>2. requests' = [requests EXCEPT ![i] = r]
    BY <1>1
  <2> HIDE DEF r
  <2>3. /\ requests' \in Seq(RequestType) /\ Len(requests') = Len(requests)
        /\ requests'[i] = r
        /\ \A k \in 1 .. Len(requests) : k # i => requests'[k] = requests[k]
    BY <1>2, <2>1, <2>2
  <2> QED
    BY <2>1, <2>3
<1>4. /\ done \in Nat /\ done + 1 \in 1 .. Len(requests[i].batch)
      /\ h \in ToSet(requests[i].batch)
  <2>1. done \in Nat /\ requests[i].batch \in Seq(EntryType) /\ Len(requests[i].batch) \in Nat
    BY <1>2, LenProperties DEF RequestType
  <2>2. done + 1 \in 1 .. Len(requests[i].batch)
    BY <1>1, <2>1
  <2> QED
    BY <2>1, <2>2, Elements
<1> HIDE DEF h, done
<1>5. Sound(h, Reports, Spans(stored) \cup lost)
  BY <1>1, <1>2, <1>4 DEF Delivered, Sent
<1>6. Kinds(Reports) /\ SpansIn(Reports) = Reported
  BY <1>1, ReportsFacts
<1>7. /\ InTurn(stored', Reports, lost)
      /\ Spans(stored') = Spans(stored) \cup ToSet(h.spans)
  <2>1. InTurn(stored, Reports, lost)
    BY <1>1 DEF Delivered
  <2>2. h.trace # None => ToSet(h.spans) \cap Spans(stored) = {}
    BY <1>1
  <2>3. InTurn(Append(stored, h), Reports, lost)
    BY <1>5, <1>6, <2>1, <2>2, InTurnMore
  <2>4. Spans(Append(stored, h)) = Spans(stored) \cup ToSet(h.spans)
    BY <1>5, <1>6, <2>1, <2>2, InTurnMore
  <2> QED
    BY <1>1, <2>3, <2>4
<1>8. Sent(requests', Reports, Spans(stored'), lost)
  <2>1. Sent(requests, Reports, Spans(stored'), lost)
    <3>1. Grown(Reports, Reports) /\ Spans(stored) \subseteq Spans(stored') /\ lost \subseteq lost
      BY <1>7 DEF Grown
    <3>2. Sent(requests, Reports, Spans(stored), lost)
      BY <1>1 DEF Delivered
    <3> QED
      BY <1>6, <3>1, <3>2, SentKept
  <2> SUFFICES ASSUME NEW k \in 1 .. Len(requests)
               PROVE  /\ \A g \in ToSet(requests'[k].batch) :
                           Sound(g, Reports, Spans(stored') \cup lost)
                      /\ \A j \in 1 .. requests'[k].done :
                           /\ j \in 1 .. Len(requests'[k].batch)
                           /\ ToSet(requests'[k].batch[j].spans) \subseteq Spans(stored')
    BY <1>3 DEF Sent
  <2>2. /\ \A g \in ToSet(requests[k].batch) : Sound(g, Reports, Spans(stored') \cup lost)
        /\ \A j \in 1 .. requests[k].done :
             /\ j \in 1 .. Len(requests[k].batch)
             /\ ToSet(requests[k].batch[j].spans) \subseteq Spans(stored')
    BY <2>1 DEF Sent
  <2>3. CASE k # i
    BY <1>3, <2>2, <2>3
  <2>4. CASE k = i
    <3>1. \A j \in 1 .. (done + 1) : j \in 1 .. requests[k].done \/ j = done + 1
      BY <1>4, <2>4 DEF done
    <3>2. ToSet(requests[k].batch[done + 1].spans) \subseteq Spans(stored')
      BY <1>7, <2>4 DEF h
    <3> QED
      BY <1>3, <1>4, <2>2, <2>4, <3>1, <3>2
  <2> QED
    BY <2>3, <2>4
<1>9. Reported' = Reported /\ Reports' = Reports /\ Held' = Held
  BY <1>1 DEF Reported, Reports, Held, Flight
<1>10. Delivered'
  <2>1. Matched(loops', requests')
    BY <1>1, <1>3 DEF Delivered, Matched
  <2>2. \A x \in ToSet(buffer') : From(x, Reports)
    BY <1>1 DEF Delivered
  <2> QED
    BY <1>1, <1>7, <1>8, <1>9, <2>1, <2>2 DEF Delivered
<1>11. Settled \subseteq Settled'
  BY <1>1, <1>7 DEF Settled
<1>12. Accounted'
  <2>1. ToSet(h.spans) \subseteq Reported
    BY <1>5, <1>6 DEF Sound, From, SpansIn
  <2> QED
    BY <1>1, <1>7, <1>9, <1>11, <2>1 DEF Accounted
<1>13. Awaited'
  BY <1>1, <1>9, <1>11, AwaitedKept
<1>14. Types' /\ Serial' /\ InLine' /\ LateKnown'
  BY <1>1 DEF Types, Serial, States, Sending, Draining, InLine, LateKnown, Served
<1> QED
  BY <1>10, <1>12, <1>13, <1>14 DEF IInv

LEMMA ClearedKeeps ==
  ASSUME IInv, NEW l \in Loops, Cleared(l)
  PROVE  IInv'
<1>1. /\ Types /\ Serial /\ InLine /\ Delivered /\ Accounted /\ Awaited /\ LateKnown
      /\ loops[l].state = "ended" /\ loops' = [loops EXCEPT ![l] = Idle]
      /\ UNCHANGED <<python, program, next, phase, buffer, queuedSpans, closed,
                     callers, awaited, late, requests, stored, lost>>
  BY DEF IInv, Cleared
<1>2. /\ \A m \in Loops \ {l} : loops[m].state = "idle" /\ loops[m].batch = <<>>
      /\ loops[l].batch = <<>> /\ ~python
  BY <1>1, OthersIdle DEF Serial, Sending, States
<1>3. /\ loops' \in [Loops -> LoopType]
      /\ \A m \in Loops : loops'[m].state = "idle" /\ loops'[m].batch = <<>>
  <2>1. Idle \in LoopType /\ Idle.state = "idle" /\ Idle.batch = <<>>
    BY NoSpans DEF Idle, Loop, LoopType
  <2>2. loops \in [Loops -> LoopType]
    BY <1>1 DEF Serial
  <2>3. /\ loops' \in [Loops -> LoopType] /\ loops'[l] = Idle
        /\ \A m \in Loops \ {l} : loops'[m] = loops[m]
    BY <1>1, <2>1, <2>2
  <2> QED
    BY <1>2, <2>1, <2>3
<1>4. Serial'
  BY <1>3 DEF Serial, States, Sending, Draining
<1>5. InLine'
  BY <1>1, <1>2, <1>3 DEF InLine
<1>6. Held' = Held
  BY <1>1, <1>2, <1>3, NoSpans DEF Held, Flight
<1>7. Types' /\ Reported' = Reported /\ Settled' = Settled
  BY <1>1 DEF Types, Reported, Settled
<1>8. Accounted' /\ Awaited'
  BY <1>1, <1>6, <1>7, AwaitedKept DEF Accounted
<1>9. LateKnown'
  BY <1>1, <1>2 DEF LateKnown, Served
<1>10. Delivered'
  <2>1. Matched(loops', requests') /\ Reports' = Reports
    BY <1>1, <1>3 DEF Matched, Reports
  <2> QED
    BY <1>1, <2>1 DEF Delivered
<1> QED
  BY <1>4, <1>5, <1>7, <1>8, <1>9, <1>10 DEF IInv

LEMMA TaskKeeps ==
  ASSUME IInv, NEW l \in Loops, TaskStarts(l)
  PROVE  IInv'
<1>1. /\ Types /\ Serial /\ InLine /\ Delivered /\ Accounted /\ Awaited /\ LateKnown
      /\ loops[l].state = "ready" /\ Iterate(l, buffer, queuedSpans)
      /\ UNCHANGED <<python, program, next, phase, closed, callers, awaited, late,
                     stored, lost>>
  BY DEF IInv, TaskStarts
<1>2. /\ \A m \in Loops \ {l} : loops[m].state = "idle" /\ loops[m].batch = <<>>
      /\ Flight = Spans(loops[l].batch) /\ phase # "shut"
  BY <1>1, OthersIdle
<1>3. loops[l].batch = <<>> /\ python
  BY <1>1 DEF Serial, Sending, States
<1>4. Looked(l, buffer)
  <2>1. Lined(<<>>, buffer) /\ requests \in Seq(RequestType)
    BY <1>1, <1>3 DEF InLine, Delivered, Sent
  <2>2. Len(requests) \in Nat
    BY <2>1, LenProperties
  <2> QED
    BY <1>1, <1>2, <2>1, <2>2, LoopLooks DEF Serial, InLine
<1>5. /\ Serial' /\ Held' = Spans(buffer)
      /\ buffer' = <<>> \/ (Draining' /\ \A m \in Loops : loops'[m].state # "ended")
  BY <1>1, <1>2, <1>4, LookedSerial DEF Types
<1>6. InLine'
  BY <1>4 DEF InLine, Looked
<1>7. Types' /\ Reported' = Reported /\ Settled' = Settled
  BY <1>1 DEF Types, Reported, Settled
<1>8. Held' = Held
  BY <1>2, <1>3, <1>5, NoSpans DEF Held
<1>9. Accounted' /\ Awaited'
  BY <1>1, <1>7, <1>8, AwaitedKept DEF Accounted
<1>10. LateKnown'
  BY <1>1, <1>3, <1>5 DEF LateKnown, Served
<1>11. Delivered'
  <2>1. lost \subseteq lost /\ Grown(Reports, Reports)
    BY DEF Grown
  <2>2. /\ Kinds(Reports)
        /\ Sent(requests, Reports, Spans(stored), lost)
        /\ InTurn(stored, Reports, lost)
        /\ \A x \in ToSet(buffer) : From(x, Reports)
    BY <1>1, <2>1, DeliveredGrown
  <2>3. SpansIn(Reports) \subseteq Spans(buffer) \cup Spans(stored) \cup lost
    BY <1>1, <1>5, <1>8, ReportsFacts DEF Accounted, Settled
  <2>4. /\ Sent(requests', Reports, Spans(stored), lost)
        /\ Matched(loops', requests')
        /\ \A x \in ToSet(buffer') : From(x, Reports)
    BY <1>2, <1>4, <2>2, <2>3, LookedDelivers
  <2>5. Reports' = Reports
    BY <1>1 DEF Reports
  <2> QED
    BY <1>1, <2>2, <2>4, <2>5 DEF Delivered
<1> QED
  BY <1>5, <1>6, <1>7, <1>9, <1>10, <1>11 DEF IInv

\* A caller looks at the queue: it goes on, or waits for a loop.
LEMMA CallerLooks ==
  ASSUME IInv, NEW c \in Callers, FlushStep(c),
         UNCHANGED <<python, program, next, phase, stored, lost>>
  PROVE  /\ Serial' /\ InLine' /\ Delivered' /\ Accounted' /\ LateKnown'
         /\ closed' \in BOOLEAN /\ late' \in BOOLEAN
         /\ \E x \in {"waiting", "flushed", "done"} :
              /\ callers' = [callers EXCEPT ![c] = x]
              /\ x # "waiting" => Reported \subseteq Settled
<1>1. Types /\ Serial /\ InLine /\ Delivered /\ Accounted /\ LateKnown
  BY DEF IInv
<1>2. Reported' = Reported /\ Settled' = Settled /\ Reports' = Reports
  BY DEF Reported, Settled, Reports
<1>3. CASE Drained
  <2>1. /\ callers' = [callers EXCEPT ![c] = Returned(c)]
        /\ closed' = (closed \/ Closing(c))
        /\ UNCHANGED <<buffer, queuedSpans, loops, late, requests>>
    BY <1>3 DEF FlushStep
  <2>2. Serial' /\ InLine' /\ LateKnown'
    BY <1>1, <2>1 DEF Serial, States, Sending, Draining, InLine, LateKnown, Served
  <2>3. Held' = Held
    BY <2>1 DEF Held, Flight
  <2>4. Accounted'
    BY <1>1, <1>2, <2>3 DEF Accounted
  <2>5. Held = {}
    <3>1. \A l \in Loops : loops[l].batch = <<>>
      BY <1>1, <1>3 DEF Drained, Draining, Serial, Sending
    <3> QED
      BY <1>3, <3>1, NoSpans DEF Drained, Held, Flight
  <2>6. Returned(c) \in {"waiting", "flushed", "done"} /\ Reported \subseteq Settled
    BY <1>1, <2>5 DEF Returned, Accounted
  <2>7. closed' \in BOOLEAN /\ late' \in BOOLEAN
    BY <1>1, <2>1 DEF Types
  <2>8. Delivered'
    BY <1>1, <1>2, <2>1 DEF Delivered
  <2> QED
    BY <2>1, <2>2, <2>4, <2>6, <2>7, <2>8
<1>4. CASE ~Drained
  <2>1. /\ callers' = [callers EXCEPT ![c] = "waiting"]
        /\ Wake(buffer, queuedSpans)
        /\ late' = (late /\ ~MayStart)
        /\ closed' = closed
    BY <1>4 DEF FlushStep
  <2>2. Woken(buffer) /\ Handed(Reports, Spans(stored), lost)
    <3>1. /\ Sent(requests, Reports, Spans(stored), lost) /\ Matched(loops, requests)
          /\ \A x \in ToSet(buffer) : From(x, Reports)
      BY <1>1 DEF Delivered
    <3>2. Kinds(Reports) /\ SpansIn(Reports) \subseteq Spans(buffer) \cup Flight \cup Spans(stored) \cup lost
      BY <1>1, ReportsFacts DEF Accounted, Held, Settled
    <3> QED
      BY <1>1, <2>1, <3>1, <3>2, LoopWakes DEF InLine
  <2>3. Serial' /\ InLine'
    BY <2>2 DEF Woken
  <2>4. Held' = Held
    BY <2>2 DEF Woken, Held
  <2>5. Accounted'
    BY <1>1, <1>2, <2>4 DEF Accounted
  <2>6. LateKnown'
    <3>1. CASE MayStart
      BY <2>2, <3>1 DEF Woken, LateKnown, Served
    <3>2. CASE ~MayStart
      <4>1. loops' = loops /\ buffer' = buffer /\ late' = late
        BY <1>1, <2>1, <2>2, <3>2 DEF Woken, Types
      <4> QED
        BY <1>1, <4>1 DEF LateKnown, Served, Draining
    <3> QED
      BY <3>1, <3>2
  <2>7. closed' \in BOOLEAN /\ late' \in BOOLEAN
    BY <1>1, <2>1 DEF Types
  <2>8. Delivered'
    BY <1>1, <1>2, <2>2 DEF Delivered, Handed
  <2> QED
    BY <2>1, <2>3, <2>5, <2>6, <2>7, <2>8
<1> QED
  BY <1>3, <1>4

LEMMA CallKeeps ==
  ASSUME IInv, NEW c \in Callers, Call(c)
  PROVE  IInv'
<1>1. /\ Types /\ Serial /\ InLine /\ Delivered /\ Accounted /\ Awaited /\ LateKnown
      /\ callers[c] = "new"
      /\ awaited' = [awaited EXCEPT ![c] = Reported]
      /\ UNCHANGED <<python, program, next, phase, stored, lost>>
  BY DEF IInv, Call
<1>2. Reported' = Reported /\ Settled' = Settled /\ Reported \subseteq Nat
  BY <1>1, ReportsFacts DEF Reported, Settled
<1>3. /\ Serial' /\ InLine' /\ Delivered' /\ Accounted' /\ LateKnown'
      /\ closed' \in BOOLEAN /\ late' \in BOOLEAN
      /\ \E x \in {"waiting", "flushed", "done", "skipped"} :
           /\ callers' = [callers EXCEPT ![c] = x]
           /\ x \in {"flushed", "done"} => Reported \subseteq Settled
  <2>1. CASE c \in Closers /\ closed
    <3>1. /\ callers' = [callers EXCEPT ![c] = "skipped"]
          /\ UNCHANGED <<buffer, queuedSpans, loops, late, closed, requests>>
      BY <2>1 DEF Call
    <3>2. Serial' /\ InLine' /\ LateKnown'
      BY <1>1, <3>1 DEF Serial, States, Sending, Draining, InLine, LateKnown, Served
    <3>3. Held' = Held
      BY <3>1 DEF Held, Flight
    <3>4. Accounted'
      BY <1>1, <1>2, <3>3 DEF Accounted
    <3>5. closed' \in BOOLEAN /\ late' \in BOOLEAN
      BY <1>1, <3>1 DEF Types
    <3>6. Delivered'
      BY <1>1, <3>1 DEF Delivered, Reports
    <3> QED
      BY <3>1, <3>2, <3>4, <3>5, <3>6
  <2>2. CASE ~(c \in Closers /\ closed)
    <3>1. FlushStep(c)
      BY <2>2 DEF Call
    <3> QED
      BY <1>1, <3>1, CallerLooks
  <2> QED
    BY <2>1, <2>2
<1>4. PICK x \in {"waiting", "flushed", "done", "skipped"} :
        /\ callers' = [callers EXCEPT ![c] = x]
        /\ x \in {"flushed", "done"} => Reported \subseteq Settled
  BY <1>3
<1>5. /\ callers' \in [Callers -> {"new", "waiting", "flushed", "cancelled", "done", "skipped"}]
      /\ callers'[c] = x /\ \A d \in Callers \ {c} : callers'[d] = callers[d]
  BY <1>1, <1>4 DEF Types
<1>6. /\ awaited' \in [Callers -> SUBSET Nat]
      /\ awaited'[c] = Reported /\ \A d \in Callers \ {c} : awaited'[d] = awaited[d]
  BY <1>1, <1>2 DEF Types
<1>7. Types'
  BY <1>1, <1>3, <1>5, <1>6 DEF Types
<1>8. \A d \in Callers : awaited'[d] \subseteq Reported'
  BY <1>1, <1>2, <1>6 DEF Awaited
<1>9. \A d \in Callers : callers'[d] \in {"flushed", "done"} => awaited'[d] \subseteq Settled'
  BY <1>1, <1>2, <1>4, <1>5, <1>6 DEF Awaited, FlushSettles, Settled
<1>10. Awaited'
  BY <1>8, <1>9 DEF Awaited, FlushSettles, Settled
<1> QED
  BY <1>3, <1>7, <1>10 DEF IInv

LEMMA FlushLooksKeeps ==
  ASSUME IInv, NEW c \in Callers, FlushLooks(c)
  PROVE  IInv'
<1>1. /\ Types /\ Awaited /\ FlushStep(c)
      /\ UNCHANGED <<python, program, next, phase, awaited, stored, lost>>
  BY DEF IInv, FlushLooks
<1>2. Reported' = Reported /\ Settled' = Settled
  BY <1>1 DEF Reported, Settled
<1>3. /\ Serial' /\ InLine' /\ Delivered' /\ Accounted' /\ LateKnown'
      /\ closed' \in BOOLEAN /\ late' \in BOOLEAN
      /\ \E x \in {"waiting", "flushed", "done"} :
           /\ callers' = [callers EXCEPT ![c] = x]
           /\ x # "waiting" => Reported \subseteq Settled
  BY <1>1, CallerLooks
<1>4. PICK x \in {"waiting", "flushed", "done"} :
        /\ callers' = [callers EXCEPT ![c] = x]
        /\ x # "waiting" => Reported \subseteq Settled
  BY <1>3
<1>5. /\ callers' \in [Callers -> {"new", "waiting", "flushed", "cancelled", "done", "skipped"}]
      /\ callers'[c] = x /\ \A d \in Callers \ {c} : callers'[d] = callers[d]
  BY <1>1, <1>4 DEF Types
<1>6. Types'
  BY <1>1, <1>3, <1>5 DEF Types
<1>7. \A d \in Callers : callers'[d] \in {"flushed", "done"} => awaited'[d] \subseteq Settled'
  BY <1>1, <1>2, <1>4, <1>5 DEF Awaited, FlushSettles, Settled
<1>8. Awaited'
  BY <1>1, <1>2, <1>7 DEF Awaited, FlushSettles, Settled
<1> QED
  BY <1>3, <1>6, <1>8 DEF IInv

LEMMA CloseKeeps ==
  ASSUME IInv, NEW c \in Callers, Close(c)
  PROVE  IInv'
<1>1. /\ Types /\ Serial /\ InLine /\ Delivered /\ Accounted /\ Awaited /\ LateKnown
      /\ callers[c] = "flushed"
      /\ callers' = [callers EXCEPT ![c] = "done"]
      /\ closed' = TRUE
      /\ UNCHANGED <<python, program, next, phase, buffer, queuedSpans, loops,
                     awaited, late, requests, stored, lost>>
  BY DEF IInv, Close
<1>2. /\ callers' \in [Callers -> {"new", "waiting", "flushed", "cancelled", "done", "skipped"}]
      /\ \A d \in Callers \ {c} : callers'[d] = callers[d]
  BY <1>1 DEF Types
<1>3. Types'
  BY <1>1, <1>2 DEF Types
<1>4. Serial' /\ InLine' /\ LateKnown'
  BY <1>1 DEF Serial, States, Sending, Draining, InLine, LateKnown, Served
<1>5. Held' = Held /\ Reported' = Reported /\ Settled' = Settled
  BY <1>1 DEF Held, Flight, Reported, Settled
<1>6. Accounted'
  BY <1>1, <1>5 DEF Accounted
<1>7. \A d \in Callers : callers'[d] \in {"flushed", "done"} => awaited'[d] \subseteq Settled'
  BY <1>1, <1>2, <1>5 DEF Awaited, FlushSettles, Settled
<1>8. Awaited'
  BY <1>1, <1>5, <1>7 DEF Awaited, FlushSettles, Settled
<1>9. Delivered'
  BY <1>1 DEF Delivered, Reports
<1> QED
  BY <1>3, <1>4, <1>6, <1>8, <1>9 DEF IInv

\* The batch that LoopShuts puts back is all that is in flight.
BatchBack ==
  LET batches == {loops[l].batch : l \in {x \in Loops : Sending(x)}}
  IN  IF batches = {} THEN <<>> ELSE CHOOSE b \in batches : TRUE

LEMMA OneInFlight ==
  ASSUME IInv
  PROVE  \E l \in Loops : BatchBack = loops[l].batch /\ Flight = Spans(BatchBack)
<1> DEFINE batches == {loops[l].batch : l \in {x \in Loops : Sending(x)}}
<1>1. Serial
  BY DEF IInv
<1>2. CASE \E l \in Loops : Sending(l)
  <2>1. PICK l \in Loops : Sending(l)
    BY <1>2
  <2>2. Flight = Spans(loops[l].batch) /\ \A m \in Loops \ {l} : ~Sending(m)
    BY <1>1, <2>1, OthersIdle DEF Sending
  <2>3. batches = {loops[l].batch}
    BY <2>1, <2>2
  <2> QED
    BY <2>2, <2>3 DEF BatchBack
<1>3. CASE ~ \E l \in Loops : Sending(l)
  <2>1. batches = {} /\ \A l \in Loops : loops[l].batch = <<>>
    BY <1>1, <1>3 DEF Serial
  <2>2. Flight = {}
    BY <2>1, NoSpans DEF Flight
  <2> QED
    BY <2>1, <2>2, NoSpans, LoopAssumption DEF BatchBack
<1> QED
  BY <1>2, <1>3

LEMMA ShutsKeeps ==
  ASSUME IInv, LoopShuts
  PROVE  IInv'
<1> DEFINE back == BatchBack
<1>1. /\ Types /\ Serial /\ InLine /\ Delivered /\ Accounted /\ Awaited /\ LateKnown
      /\ python /\ phase' = "shut"
      /\ buffer' = back \o buffer
      /\ queuedSpans' = queuedSpans + Total(back)
      /\ loops' = [l \in Loops |-> Idle]
      /\ callers' = [c \in Callers |->
                       IF callers[c] = "waiting" THEN "cancelled" ELSE callers[c]]
      /\ UNCHANGED <<python, program, next, closed, awaited, late, requests, stored, lost>>
  BY DEF IInv, LoopShuts, BatchBack
<1>2. \E l \in Loops : back = loops[l].batch /\ Flight = Spans(back)
  BY OneInFlight
<1> HIDE DEF back
<1>3. PICK l \in Loops : back = loops[l].batch /\ Flight = Spans(back)
  BY <1>2
<1>4. Lined(back, buffer) /\ queuedSpans = Total(buffer)
  BY <1>1, <1>3 DEF InLine
<1>5. /\ back \in Seq(EntryType) /\ buffer \in Seq(EntryType)
      /\ Clean(back) /\ Clean(buffer) /\ Cross(back, buffer)
  BY <1>4, LinedParts
<1>6. /\ back \o buffer \in Seq(EntryType)
      /\ ToSet(back \o buffer) = ToSet(back) \cup ToSet(buffer)
      /\ Spans(back \o buffer) = Spans(back) \cup Spans(buffer)
  BY <1>5, ConcatElements, SpansConcat
<1>7. Lined(<<>>, back \o buffer)
  <2>1. <<>> \o (back \o buffer) = back \o buffer
    BY <1>6, ConcatEmptySeq
  <2>2. Distinct(<<>>) /\ Bounded(<<>>)
    BY NoSpans, CapAssumption DEF Distinct, Bounded
  <2> QED
    BY <1>4, <1>6, <2>1, <2>2, NoSpans DEF Lined
\* What is put back was reported: it comes from the reports, as the request does.
<1>8. \A x \in ToSet(back) : From(x, Reports)
  <2>1. CASE Sending(l)
    <3>1. loops[l].at \in 1 .. Len(requests) /\ requests[loops[l].at].batch = back
      BY <1>1, <1>3, <2>1 DEF Delivered, Matched, Sending
    <3>2. \A g \in ToSet(back) : Sound(g, Reports, Spans(stored) \cup lost)
      BY <1>1, <3>1 DEF Delivered, Sent
    <3> QED
      BY <3>2 DEF Sound
  <2>2. CASE ~Sending(l)
    BY <1>1, <1>3, <2>2, EmptyElements DEF Serial
  <2> QED
    BY <2>1, <2>2
<1>9. /\ loops' \in [Loops -> LoopType]
      /\ \A m \in Loops : loops'[m].state = "idle" /\ loops'[m].batch = <<>>
  <2>1. Idle \in LoopType /\ Idle.state = "idle" /\ Idle.batch = <<>>
    BY NoSpans DEF Idle, Loop, LoopType
  <2> QED
    BY <1>1, <2>1
<1>10. Serial'
  BY <1>9 DEF Serial, States, Sending, Draining
<1>11. queuedSpans' = Total(buffer')
  <2>1. Total(back \o buffer) = Total(back) + Total(buffer)
    BY <1>5, TotalConcat
  <2>2. Total(back) \in Nat /\ Total(buffer) \in Nat
    BY <1>5, TotalType
  <2> QED
    BY <1>1, <1>4, <2>1, <2>2
<1>12. InLine'
  BY <1>1, <1>7, <1>9, <1>11 DEF InLine
<1>13. Held' = Held
  <2>1. Flight' = {}
    BY <1>9, NoSpans DEF Flight
  <2> QED
    BY <1>1, <1>3, <1>6, <2>1 DEF Held
<1>14. Reported' = Reported /\ Settled' = Settled /\ Reports' = Reports
  BY <1>1 DEF Reported, Settled, Reports
<1>15. Accounted'
  BY <1>1, <1>13, <1>14 DEF Accounted
<1>16. Delivered'
  <2>1. Matched(loops', requests')
    BY <1>9 DEF Matched
  <2>2. \A x \in ToSet(buffer') : From(x, Reports)
    BY <1>1, <1>6, <1>8 DEF Delivered
  <2> QED
    BY <1>1, <1>14, <2>1, <2>2 DEF Delivered
<1>17. /\ callers' \in [Callers -> {"new", "waiting", "flushed", "cancelled", "done", "skipped"}]
       /\ \A c \in Callers : callers'[c] \in {"flushed", "done"} => callers[c] \in {"flushed", "done"}
  <2>1. callers \in [Callers -> {"new", "waiting", "flushed", "cancelled", "done", "skipped"}]
    BY <1>1 DEF Types
  <2> QED
    BY <1>1, <2>1
<1>18. Types'
  BY <1>1, <1>17 DEF Types
<1>19. Awaited'
  <2>1. \A c \in Callers : callers'[c] \in {"flushed", "done"} => awaited'[c] \subseteq Settled'
    BY <1>1, <1>14, <1>17 DEF Awaited, FlushSettles, Settled
  <2> QED
    BY <1>1, <1>14, <2>1 DEF Awaited, FlushSettles, Settled
<1>20. LateKnown'
  BY <1>1, <1>9 DEF LateKnown, Served
<1> QED
  BY <1>10, <1>12, <1>15, <1>16, <1>18, <1>19, <1>20 DEF IInv

LEMMA OpensKeeps ==
  ASSUME IInv, LoopOpens
  PROVE  IInv'
<1>1. /\ Types /\ Serial /\ InLine /\ Delivered /\ Accounted /\ Awaited /\ LateKnown
      /\ phase = "shut" /\ phase' = "open" /\ late' = (buffer # <<>>)
      /\ UNCHANGED <<python, program, next, buffer, queuedSpans, loops, closed,
                     callers, awaited, requests, stored, lost>>
  BY DEF IInv, LoopOpens
<1>2. Types' /\ Awaited' /\ LateKnown' /\ InLine'
  BY <1>1 DEF Types, Awaited, FlushSettles, Reported, LateKnown, Served, Draining, InLine
<1>3. Serial'
  BY <1>1 DEF Serial, States, Sending, Draining
<1>4. Accounted' /\ Delivered'
  BY <1>1 DEF Accounted, Held, Flight, Settled, Reported, Reports, Delivered
<1> QED
  BY <1>2, <1>3, <1>4 DEF IInv

LEMMA ExitKeeps ==
  ASSUME IInv, ExitDrain
  PROVE  IInv'
<1> DEFINE shed == IF buffer = <<>> THEN 0 ELSE Shed(buffer)
           gone == SubSeq(buffer, 1, shed)
           kept == SubSeq(buffer, shed + 1, Len(buffer))
           some == CHOOSE x \in Loops : TRUE
<1>1. /\ Types /\ Serial /\ InLine /\ Delivered /\ Accounted /\ Awaited /\ LateKnown
      /\ phase = "shut" /\ phase' = "exit"
      /\ lost' = lost \cup Spans(gone)
      /\ buffer' = kept
      /\ queuedSpans' = Total(kept)
      /\ loops' = IF kept = <<>> THEN loops
                  ELSE [loops EXCEPT ![some] = Loop("ready")]
      /\ late' = FALSE
      /\ UNCHANGED <<python, program, next, closed, callers, awaited, requests, stored>>
  BY DEF IInv, ExitDrain
<1>2. some \in Loops
  BY LoopAssumption
<1>3. Lined(loops[some].batch, buffer)
  BY <1>1, <1>2 DEF InLine
<1>4. shed \in 0 .. Len(buffer)
  <2>1. buffer \in Seq(EntryType) /\ Len(buffer) \in Nat
    BY <1>3, LenProperties DEF Lined
  <2> QED
    BY <2>1, ShedSome
<1> HIDE DEF shed
<1>5. /\ \A l \in Loops : Lined(loops[l].batch, kept)
      /\ Spans(buffer) = Spans(gone) \cup Spans(kept)
      /\ ToSet(kept) \subseteq ToSet(buffer)
  <2>1. ASSUME NEW l \in Loops
        PROVE  /\ Lined(loops[l].batch, kept)
               /\ Spans(buffer) = Spans(gone) \cup Spans(kept)
    <3>1. Lined(loops[l].batch, buffer)
      BY <1>1 DEF InLine
    <3> QED
      BY <1>4, <3>1, LinedSheds
  <2>2. ToSet(kept) \subseteq ToSet(buffer)
    BY <1>3, <1>4, LinedParts, CleanCut
  <2> QED
    BY <1>2, <2>1, <2>2
<1> HIDE DEF gone, kept, some
<1>6. python /\ \A l \in Loops : loops[l].state = "idle" /\ loops[l].batch = <<>>
  BY <1>1 DEF Types, Serial, Draining, Sending
<1>7. /\ loops' \in [Loops -> LoopType]
      /\ \A l \in Loops : /\ loops'[l].state \in {"idle", "ready"} /\ loops'[l].batch = <<>>
                          /\ loops'[l].state # "idle" => l = some
      /\ kept # <<>> => loops'[some].state = "ready"
  <2> DEFINE new == Loop("ready")
  <2>1. new \in LoopType /\ new.state = "ready" /\ new.batch = <<>>
    BY NoSpans DEF LoopType, Loop
  <2>2. (loops' = loops /\ kept = <<>>) \/ loops' = [loops EXCEPT ![some] = new]
    BY <1>1
  <2> HIDE DEF new
  <2>3. CASE loops' = loops /\ kept = <<>>
    BY <1>1, <1>6, <2>3 DEF Serial
  <2>4. CASE loops' = [loops EXCEPT ![some] = new]
    <3>1. /\ loops' \in [Loops -> LoopType] /\ loops'[some] = new
          /\ \A m \in Loops \ {some} : loops'[m] = loops[m]
      BY <1>1, <1>2, <2>1, <2>4 DEF Serial
    <3> QED
      BY <1>6, <2>1, <3>1
  <2> QED
    BY <2>2, <2>3, <2>4
<1>8. Serial'
  BY <1>1, <1>6, <1>7 DEF Serial, States, Sending
<1>9. InLine'
  <2>1. \A l \in Loops : Lined(loops'[l].batch, buffer')
    BY <1>1, <1>5, <1>6, <1>7
  <2> QED
    BY <1>1, <2>1 DEF InLine
<1>10. Held = Spans(buffer) /\ Held' = Spans(kept)
  <2>1. Flight = {} /\ Flight' = {}
    BY <1>6, <1>7, NoSpans DEF Flight
  <2> QED
    BY <1>1, <2>1 DEF Held
<1>11. Reported' = Reported /\ Settled' = Settled \cup Spans(gone)
  BY <1>1 DEF Reported, Settled
<1>12. Accounted'
  <2>1. Spans(stored') = Spans(stored)
    BY <1>1
  <2> QED
    BY <1>1, <1>5, <1>10, <1>11, <2>1 DEF Accounted
<1>13. Types' /\ Awaited'
  <2>1. Types'
    BY <1>1, <1>6 DEF Types
  <2> QED
    BY <1>1, <1>11, <2>1, AwaitedKept
<1>14. LateKnown'
  <2>1. kept # <<>> => Draining'
    BY <1>2, <1>7 DEF Draining
  <2> QED
    BY <1>1, <1>6, <2>1 DEF LateKnown, Served
<1>15. Delivered'
  <2>1. lost \subseteq lost' /\ Grown(Reports, Reports)
    BY <1>1 DEF Grown
  <2>2. /\ Sent(requests, Reports, Spans(stored), lost')
        /\ InTurn(stored, Reports, lost')
        /\ \A x \in ToSet(buffer) : From(x, Reports)
    BY <1>1, <2>1, DeliveredGrown
  <2>3. Matched(loops', requests') /\ Reports' = Reports
    BY <1>1, <1>7 DEF Matched, Reports
  <2> QED
    BY <1>1, <1>5, <2>2, <2>3 DEF Delivered
<1> QED
  BY <1>8, <1>9, <1>12, <1>13, <1>14, <1>15 DEF IInv

LEMMA StutterKeeps ==
  ASSUME IInv, UNCHANGED vars
  PROVE  IInv'
<1>1. /\ Types /\ Serial /\ InLine /\ Delivered /\ Accounted /\ Awaited /\ LateKnown
      /\ UNCHANGED <<python, program, next, phase, buffer, queuedSpans, loops, closed,
                     callers, awaited, late, requests, stored, lost>>
  BY DEF IInv, vars
<1>2. Types' /\ Awaited' /\ LateKnown' /\ InLine'
  BY <1>1 DEF Types, Awaited, FlushSettles, Reported, LateKnown, Served, Draining, InLine
<1>3. Serial'
  BY <1>1 DEF Serial, States, Sending, Draining
<1>4. Accounted' /\ Delivered'
  BY <1>1 DEF Accounted, Held, Flight, Settled, Reported, Reports, Delivered
<1> QED
  BY <1>2, <1>3, <1>4 DEF IInv

LEMMA InvariantStep == IInv /\ [Next]_vars => IInv'
<1> SUFFICES ASSUME IInv, [Next]_vars PROVE IInv'
  OBVIOUS
<1>1. CASE Enqueue
  BY <1>1, EnqueueKeeps
<1>2. CASE LoopStep
  BY <1>2, RequestKeeps, ClearedKeeps, TaskKeeps DEF LoopStep
<1>3. CASE CallerStep
  BY <1>3, FlushLooksKeeps, CloseKeeps DEF CallerStep
<1>4. CASE \E c \in Callers : Call(c)
  BY <1>4, CallKeeps
<1>5. CASE LoopShuts
  BY <1>5, ShutsKeeps
<1>6. CASE LoopOpens
  BY <1>6, OpensKeeps
<1>7. CASE ExitDrain
  BY <1>7, ExitKeeps
<1>8. CASE \E l \in Loops : Resend(l)
  BY <1>8, ResendKeeps
<1>9. CASE \E i \in DOMAIN requests : ServerStores(i)
  BY <1>9, ServerStoresKeeps
<1>10. CASE UNCHANGED vars
  BY <1>10, StutterKeeps
<1> QED
  BY <1>1, <1>2, <1>3, <1>4, <1>5, <1>6, <1>7, <1>8, <1>9, <1>10 DEF Next

LEMMA Invariant == Spec => []IInv
BY InitIInv, InvariantStep, PTL DEF Spec

-----------------------------------------------------------------------------
(***************************************************************************)
(* The theorems.                                                           *)
(***************************************************************************)

\* What the variables hold, of whatever reports, callers and caps: in particular
\* the queue's own count is at all times the number of spans in the buffer,
\* through batches cut within a report, spans shed and batches put back.
THEOREM TypeCorrect == Spec => []TypeOK
<1>1. IInv => TypeOK
  <2> SUFFICES ASSUME IInv PROVE TypeOK
    OBVIOUS
  <2>1. Types /\ Serial /\ InLine /\ Delivered
    BY DEF IInv
  <2>2. \A l \in Loops : /\ loops[l].batch \in Seq(EntryType)
                         /\ loops[l].state \in IF python THEN {"idle", "ready", "sending"}
                                               ELSE {"idle", "sending", "ended"}
    BY <2>1 DEF Serial, States, InLine, Lined
  <2>3. buffer \in Seq(EntryType)
    BY <2>1, LoopAssumption DEF InLine, Lined
  <2>4. requests \in Seq(RequestType) /\ stored \in Seq(EntryType)
    BY <2>1 DEF Delivered, Sent, InTurn
  <2> QED
    BY <2>1, <2>2, <2>3, <2>4 DEF Types, InLine, RequestType, TypeOK
<1> QED
  BY <1>1, Invariant, PTL

\* The queue waits for one request at a time, and none that could be split is larger
\* than the server takes: drain loops never overlap, and takeBatch honours the cap.
THEOREM OneAtATime == Spec => []OneRequest
<1>1. IInv => OneRequest
  <2> SUFFICES ASSUME IInv, NEW l \in Loops, Sending(l)
               PROVE  /\ \A m \in Loops \ {l} : ~Sending(m)
                      /\ \/ Total(loops[l].batch) <= MaxBatchSpans
                         \/ Len(loops[l].batch) = 1 /\ loops[l].batch[1].trace = None
    BY DEF OneRequest
  <2>1. \A m \in Loops \ {l} : ~Sending(m)
    BY DEF IInv, Serial, Sending
  <2>2. Bounded(loops[l].batch)
    BY DEF IInv, InLine, Lined
  <2> QED
    BY <2>1, <2>2 DEF Bounded
<1> QED
  BY <1>1, Invariant, PTL

\* The server stores the spans of a trace and flag in the order in which they were
\* reported, though it works on requests the client has sent again, lost or given up:
\* a span it stores after a later one was given up before.
THEOREM SentInOrder == Spec => []InOrder
<1>1. IInv => InOrder
  <2> SUFFICES ASSUME IInv PROVE InOrder
    OBVIOUS
  <2>1. stored \in Seq(EntryType) /\ InTurn(stored, Reports, lost)
    BY DEF IInv, Delivered, InTurn
  <2>2. DOMAIN stored = 1 .. Len(stored) /\ \A i \in 1 .. Len(stored) : stored[i] \in ToSet(stored)
    BY <2>1, Elements
  <2>3. \A i \in 1 .. Len(stored) : Increasing(stored[i].spans)
    BY <2>1, <2>2 DEF InTurn, Sound
  <2>4. \A i, j \in 1 .. Len(stored) : i < j => Later(stored[i], stored[j], lost)
    BY <2>1 DEF InTurn
  <2> QED
    BY <2>2, <2>3, <2>4 DEF InOrder, Later
<1> QED
  BY <1>1, Invariant, PTL

\* Every span reported is in the buffer, in flight, stored, or was given up with a
\* warning: no step of the queue forgets one.
THEOREM NothingVanishes == Spec => []NoneVanishes
<1>1. IInv => NoneVanishes
  BY DEF IInv, Accounted, Held, Settled, Flight, NoneVanishes
<1> QED
  BY <1>1, Invariant, PTL

\* A flush, or a close, returns only when all that was reported before it was called
\* is settled, whatever is reported, flushed or closed meanwhile.
THEOREM FlushSettled == Spec => []FlushSettles
<1>1. IInv => FlushSettles
  BY DEF IInv, Awaited
<1> QED
  BY <1>1, Invariant, PTL

\* A buffer that is not empty has a loop to serve it, in either SDK, unless there is no
\* event loop, its entries were there when an event loop began, or they were accepted
\* between the end of a TypeScript loop and the microtask that clears `draining`.
THEOREM BufferServed == Spec => []Served
<1>1. IInv => Served
  BY DEF IInv, LateKnown
<1> QED
  BY <1>1, Invariant, PTL
=============================================================================
