---------------------------- MODULE Traces_proofs ----------------------------
(***************************************************************************)
(* For every set of requests and however they interleave: the rollups of a *)
(* trace are those of its spans.  What a transaction has made of a row is  *)
(* compared with the spans it sees, its own and the committed ones; nobody *)
(* else changes either while it has the row's lock.  A gateway call that   *)
(* joins a trace without a context is the one writer that reads before it  *)
(* locks: the count survives that, because it is incremented in the        *)
(* database and its span's ref is nobody else's.                           *)
(***************************************************************************)
EXTENDS Traces, Sums_proofs

Pcs == {"idle", "open", "merge", "write", "update", "commit", "stopped"}
Writing == {"write", "update", "commit"}

RowType == [count : Nat, tokens : Int, status : {"none", "unset", "ok", "error"},
            name : {"none", "stamp", "derived", "chosen"}, start : Nat]
SpanRows == [trace : Ids, ref : Nat, parent : Nat, tokens : Nat, error : BOOLEAN,
             from : Requests, start : Nat]
ReqType == [pc : Pcs, entry : Nat, span : Nat, work : RowType, mine : SUBSET SpanRows,
            seen : RowType, sends : Nat]

Types ==
  /\ traces \in [Ids -> RowType]
  /\ stored \subseteq SpanRows /\ IsFiniteSet(stored)
  /\ lock \in [Ids -> Requests \cup {Free}]
  /\ req \in [Requests -> ReqType]
  /\ \A r \in Requests : /\ req[r].entry \in 1 .. Len(Entries[r])
                         /\ req[r].sends <= MaxSends[r]
                         /\ IsFiniteSet(req[r].mine)

Holds(r) == lock[Trace(r)] = r

\* A request locks the row of its entry only, and only while it writes; one that
\* writes without the lock is a call that brought nothing, at its first span.
InPlace(r) ==
  /\ \A t \in Ids : lock[t] = r => t = Trace(r) /\ req[r].pc \in Writing
  /\ At(r, "commit") => Holds(r)
  /\ At(r, "open") \/ At(r, "merge") => req[r].span = 1
  /\ At(r, "merge") => traces[Trace(r)] # NoRow
  /\ At(r, "write") \/ At(r, "update") =>
       /\ req[r].span \in 1 .. Len(Entry(r).spans)
       /\ Holds(r) \/ (~Merges(r) /\ req[r].span = 1 /\ traces[Trace(r)] # NoRow)
  /\ At(r, "update") => Kind[r] # "export" /\ req[r].seen.status # "none"

\* The spans of its open transaction are of its entry, one for a ref; what it
\* inserted without the lock stays alone with its ref.
Mine(r) ==
  /\ \A m \in req[r].mine : /\ m.trace = Trace(r) /\ m.from = r
                            /\ m.start = Entry(r).start /\ Uses(r, m.ref)
  /\ \A m, n \in req[r].mine : m.ref = n.ref => m = n
  /\ req[r].pc \notin Writing => req[r].mine = {}
  /\ At(r, "commit") => req[r].mine # {}
  /\ At(r, "write") /\ ~Holds(r) => req[r].mine = {}
  /\ At(r, "update") => SpanRow(r) \in req[r].mine
  /\ At(r, "update") /\ ~Holds(r) =>
       /\ req[r].mine = {SpanRow(r)}
       /\ \A s \in SpansIn(stored, Trace(r)) : s.ref # TheSpan(r).ref

\* The spans that the row of its transaction has been rolled up for: all it sees
\* but the one just inserted.
Rolled(r) == IF At(r, "update") THEN Visible(r) \ {SpanRow(r)} ELSE Visible(r)

StatusOf(S) ==
  IF S = {} THEN "unset" ELSE IF \E s \in S : s.error THEN "error" ELSE "ok"

Counted(r) == Holds(r) => req[r].work.count = Cardinality(Rolled(r))

Summed(r) ==
  Holds(r) /\ LockedFirst(Trace(r)) =>
    /\ req[r].work.tokens = Sum(Rolled(r))
    /\ req[r].work.status = StatusOf(Rolled(r))
    /\ At(r, "update") => req[r].seen = req[r].work

Started(r) ==
  Holds(r) =>
    /\ Kind[r] # "call" => req[r].work.start <= Entry(r).start
    /\ \A s \in Visible(r) : Kind[s.from] # "call" => req[r].work.start <= s.start

Named(r) ==
  Holds(r) => /\ Rank(req[r].work.name) >= Rank(traces[Trace(r)].name)
              /\ req[r].work.status # "none"

Good(r) == InPlace(r) /\ Mine(r) /\ Counted(r) /\ Summed(r) /\ Started(r) /\ Named(r)

RefsDiffer == \A s, n \in stored : s.trace = n.trace /\ s.ref = n.ref => s = n
RowsReal == \A t \in Ids : traces[t] # NoRow => traces[t].status # "none"
TracesSummed ==
  \A t \in Written : LockedFirst(t) =>
    /\ traces[t].tokens = Sum(SpansIn(stored, t))
    /\ traces[t].status = StatusOf(SpansIn(stored, t))
    /\ SpansIn(stored, t) # {}

IInv ==
  /\ Types
  /\ RefsDiffer /\ RowsReal
  /\ CountIsExact /\ TracesSummed /\ StartsFirst
  /\ \A r \in Requests : Good(r)

-----------------------------------------------------------------------------
(***************************************************************************)
(* Sets of spans.                                                          *)
(***************************************************************************)

LEMMA OverNothing == ASSUME NEW S PROVE Over(S, {}) = S
BY DEF Over

\* Spans written one after the other are written over together.
LEMMA OverTwice ==
  ASSUME NEW S, NEW A, NEW n
  PROVE  Over(Over(S, A), {n}) = Over(S, Over(A, {n}))
BY DEF Over

\* A span of a new ref replaces none.
LEMMA OverNew ==
  ASSUME NEW S, NEW A, NEW n, \A s \in Over(S, A) : s.ref # n.ref
  PROVE  Over(S, A \cup {n}) = Over(S, A) \cup {n} /\ n \notin Over(S, A)
BY DEF Over

LEMMA OverFinite ==
  ASSUME NEW S, IsFiniteSet(S), NEW A, IsFiniteSet(A)
  PROVE  IsFiniteSet(Over(S, A))
<1>1. IsFiniteSet({s \in S : \A n \in A : s.ref # n.ref})
  BY FS_Subset
<1> QED
  BY <1>1, FS_Union DEF Over

LEMMA SumOfSpans ==
  ASSUME NEW S, IsFiniteSet(S), \A s \in S : s.tokens \in Nat
  PROVE  Sum(S) \in Int /\ Sum({}) = 0
<1> DEFINE f == [s \in S |-> s.tokens]
<1>1. Sum(S) = SumFunctionOnSet(f, S)
  BY DEF Sum, SumFunction
<1>2. \A s \in S : f[s] \in Int
  OBVIOUS
<1>3. SumFunctionOnSet(f, S) \in Int
  <2> HIDE DEF f
  <2> QED
    BY <1>2, SumType
<1> DEFINE e == [s \in {} |-> s.tokens]
<1>4. Sum({}) = SumFunctionOnSet(e, {})
  BY DEF Sum, SumFunction
<1>5. SumFunctionOnSet(e, {}) = 0
  BY SumEmpty
<1> QED
  BY <1>1, <1>3, <1>4, <1>5

LEMMA SumAdds ==
  ASSUME NEW S, IsFiniteSet(S), NEW n, n \notin S,
         \A s \in S \cup {n} : s.tokens \in Nat
  PROVE  Sum(S \cup {n}) = Sum(S) + n.tokens
<1> DEFINE U == S \cup {n}
           f == [s \in U |-> s.tokens]
           e == [s \in S |-> s.tokens]
<1>1. Sum(U) = SumFunctionOnSet(f, U) /\ Sum(S) = SumFunctionOnSet(e, S)
  BY DEF Sum, SumFunction
<1>2. /\ \A s \in U : f[s] \in Int
      /\ \A s \in S : e[s] \in Int /\ f[s] \in Int /\ e[s] = f[s]
      /\ f[n] = n.tokens /\ n.tokens \in Int
  OBVIOUS
<1>3. IsFiniteSet(U) /\ n \in U /\ U \ {n} = S
  BY FS_AddElement
<1>4. SumFunctionOnSet(f, U) = f[n] + SumFunctionOnSet(f, S)
  <2> HIDE DEF f, U
  <2> QED
    BY <1>2, <1>3, SumTakesAny
<1>5. SumFunctionOnSet(e, S) = SumFunctionOnSet(f, S)
  <2> HIDE DEF f, e
  <2> QED
    BY <1>2, SumSame
<1>6. SumFunctionOnSet(f, S) \in Int
  <2> HIDE DEF f
  <2> QED
    BY <1>2, SumType
<1> HIDE DEF f, e
<1> QED
  BY <1>1, <1>2, <1>4, <1>5, <1>6

LEMMA CountAdds ==
  ASSUME NEW S, IsFiniteSet(S), NEW n, n \notin S
  PROVE  Cardinality(S \cup {n}) = Cardinality(S) + 1 /\ Cardinality(S) \in Nat
BY FS_AddElement, FS_CardinalityType

\* The status as appendSpan writes it is the status of all its spans.
LEMMA StatusAdds ==
  ASSUME NEW S, NEW n, n.error \in BOOLEAN
  PROVE  StatusOf(S \cup {n}) =
           IF n.error THEN "error" ELSE IF StatusOf(S) = "unset" THEN "ok" ELSE StatusOf(S)
BY DEF StatusOf

LEMMA MinOfTwo ==
  ASSUME NEW a \in Nat, NEW b \in Nat
  PROVE  Min({a, b}) \in Nat /\ Min({a, b}) <= a /\ Min({a, b}) <= b
<1>1. \E x \in {a, b} : \A y \in {a, b} : x <= y
  OBVIOUS
<1> QED
  BY <1>1 DEF Min

LEMMA RankTyped ==
  ASSUME NEW name \in {"none", "stamp", "derived", "chosen"}
  PROVE  Rank(name) \in 0 .. 3 /\ (Rank(name) = 0 <=> name = "none")
BY DEF Rank

-----------------------------------------------------------------------------
(***************************************************************************)
(* Requests and their entries.                                             *)
(***************************************************************************)

LEMMA EntryTyped ==
  ASSUME Types, NEW r \in Requests
  PROVE  /\ Entry(r) \in EntryType /\ Trace(r) \in Ids /\ Entry(r).start \in Nat
         /\ Entry(r).spans \in Seq(SpanType) /\ Len(Entry(r).spans) \in Nat \ {0}
         /\ req[r] \in ReqType
         /\ Kind[r] \in {"report", "export", "call"}
<1>1. Entries[r] \in Seq(EntryType) /\ req[r].entry \in 1 .. Len(Entries[r])
  BY TraceAssumption DEF Types
<1>2. Entry(r) \in EntryType
  BY <1>1 DEF Entry
<1>3. Entry(r).spans \in Seq(SpanType) /\ Entry(r).spans # <<>>
  BY <1>2 DEF EntryType
<1>4. Len(Entry(r).spans) \in Nat \ {0}
  BY <1>3
<1>5. req[r] \in ReqType
  BY DEF Types
<1>6. Kind[r] \in {"report", "export", "call"}
  BY TraceAssumption
<1> QED
  BY <1>2, <1>3, <1>4, <1>5, <1>6 DEF EntryType, Trace

LEMMA SpanTyped ==
  ASSUME Types, NEW r \in Requests, req[r].span \in 1 .. Len(Entry(r).spans)
  PROVE  /\ TheSpan(r) \in SpanType /\ SpanRow(r) \in SpanRows
         /\ SpanRow(r).trace = Trace(r) /\ SpanRow(r).from = r
         /\ SpanRow(r).start = Entry(r).start /\ SpanRow(r).ref = TheSpan(r).ref
         /\ SpanRow(r).tokens = TheSpan(r).tokens /\ SpanRow(r).error = TheSpan(r).error
         /\ Uses(r, TheSpan(r).ref)
<1>1. Entry(r).spans \in Seq(SpanType)
  BY EntryTyped
<1>2. TheSpan(r) \in SpanType
  BY <1>1 DEF TheSpan
<1>3. SpanRow(r) \in SpanRows
  BY <1>2, EntryTyped DEF SpanRow, SpanRows, SpanType
<1>4. Entries[r] \in Seq(EntryType) /\ req[r].entry \in DOMAIN Entries[r]
  BY TraceAssumption DEF Types
<1>5. req[r].span \in DOMAIN Entry(r).spans
  BY <1>1
<1>6. Uses(r, TheSpan(r).ref)
  BY <1>4, <1>5 DEF Uses, TheSpan, Entry
<1> QED
  BY <1>2, <1>3, <1>6 DEF SpanRow

\* What a transaction sees of its trace.
LEMMA SeenTyped ==
  ASSUME Types, NEW r \in Requests
  PROVE  /\ SpansIn(stored, Trace(r)) \subseteq SpanRows /\ IsFiniteSet(SpansIn(stored, Trace(r)))
         /\ Visible(r) \subseteq SpanRows /\ IsFiniteSet(Visible(r))
         /\ Rolled(r) \subseteq Visible(r) /\ IsFiniteSet(Rolled(r))
<1>1. SpansIn(stored, Trace(r)) \subseteq SpanRows /\ IsFiniteSet(SpansIn(stored, Trace(r)))
  BY FS_Subset DEF SpansIn, Types
<1>2. req[r].mine \subseteq SpanRows /\ IsFiniteSet(req[r].mine)
  BY EntryTyped DEF Types, ReqType
<1>3. Visible(r) \subseteq SpanRows
  BY <1>1, <1>2 DEF Visible, Over
<1>4. IsFiniteSet(Visible(r))
  BY <1>1, <1>2, OverFinite DEF Visible
<1> QED
  BY <1>1, <1>3, <1>4, FS_Subset DEF Rolled

\* A call has one entry; one that brought nothing is bare, whatever it is doing.
LEMMA BareCall ==
  ASSUME Types, NEW r \in Requests, ~Merges(r)
  PROVE  Kind[r] = "call" /\ r \in BareCalls /\ Entry(r) = Entries[r][1] /\ ~LockedFirst(Trace(r))
<1>1. Kind[r] = "call" /\ Entry(r).name = "none"
  BY DEF Merges
<1>2. Len(Entries[r]) = 1 /\ req[r].entry \in 1 .. 1
  BY <1>1, CallAssumption DEF Types
<1>3. req[r].entry = 1
  BY <1>2
<1>4. Entry(r) = Entries[r][1]
  BY <1>3 DEF Entry
<1>5. r \in BareCalls
  BY <1>1, <1>4 DEF BareCalls
<1>6. 1 \in DOMAIN Entries[r] /\ Entries[r][1].trace = Trace(r)
  BY <1>2, <1>4, TraceAssumption DEF Trace
<1> QED
  BY <1>1, <1>4, <1>5, <1>6 DEF LockedFirst

-----------------------------------------------------------------------------
(***************************************************************************)
(* A step of one request leaves the others where they are: it changes the  *)
(* rows that it holds, and brings spans of its own.                        *)
(***************************************************************************)

OnlyBy(r) ==
  /\ \A q \in Requests \ {r} : req'[q] = req[q]
  /\ \A t \in Ids : \/ lock'[t] = lock[t]
                    \/ lock[t] \in {Free, r} /\ lock'[t] \in {Free, r}
  /\ \A t \in Ids : lock[t] # r =>
       traces'[t] = traces[t] /\ SpansIn(stored', t) = SpansIn(stored, t)
  /\ \A t \in Ids : traces[t] # NoRow => traces'[t] # NoRow
  /\ \A s \in stored' : s \in stored \/ Uses(r, s.ref)

LEMMA OthersGood ==
  ASSUME Types, NEW r \in Requests, OnlyBy(r), NEW q \in Requests \ {r}, Good(q)
  PROVE  Good(q)'
<1>1. req'[q] = req[q]
  BY DEF OnlyBy
<1>2. /\ Entry(q)' = Entry(q) /\ Trace(q)' = Trace(q) /\ TheSpan(q)' = TheSpan(q)
      /\ Trace(q) \in Ids /\ Merges(q)' = Merges(q)
      /\ \A pc \in Pcs : At(q, pc)' = At(q, pc)
  BY <1>1, EntryTyped DEF Entry, Trace, TheSpan, At, Merges
<1>3. SpanRow(q)' = SpanRow(q)
  BY <1>2 DEF SpanRow
<1>4. \A t \in Ids : lock'[t] = q <=> lock[t] = q
  BY TraceAssumption DEF OnlyBy
<1>5. Holds(q)' = Holds(q)
  BY <1>2, <1>4 DEF Holds
<1>6. ASSUME Holds(q)
      PROVE  /\ traces'[Trace(q)] = traces[Trace(q)]
             /\ SpansIn(stored', Trace(q)) = SpansIn(stored, Trace(q))
  BY <1>2, <1>6 DEF OnlyBy, Holds
<1>7. ASSUME Holds(q) PROVE Visible(q)' = Visible(q) /\ Rolled(q)' = Rolled(q)
  <2>1. Visible(q)' = Visible(q)
    BY <1>1, <1>2, <1>6, <1>7 DEF Visible
  <2> QED
    BY <2>1, <1>2, <1>3 DEF Rolled, Pcs
<1>8. InPlace(q)'
  BY <1>1, <1>2, <1>4, <1>5 DEF Good, InPlace, OnlyBy, Pcs, At
<1>9. Mine(q)'
  <2>1. ASSUME At(q, "update"), ~Holds(q), NEW s \in SpansIn(stored', Trace(q))
        PROVE  s.ref # TheSpan(q).ref
    <3>1. ~Merges(q) /\ req[q].span \in 1 .. Len(Entry(q).spans)
      BY <2>1 DEF Good, InPlace
    <3>2. Kind[q] = "call" /\ Entry(q) = Entries[q][1]
      BY <3>1, BareCall
    <3>3. req[q].span \in DOMAIN Entries[q][1].spans /\ TheSpan(q) = Entries[q][1].spans[req[q].span]
      BY <3>1, <3>2, EntryTyped DEF TheSpan
    <3>4. ~Uses(r, TheSpan(q).ref)
      BY <3>2, <3>3, CallAssumption
    <3>5. s \in stored' /\ s.trace = Trace(q)
      BY DEF SpansIn
    <3>6. CASE s \in stored
      BY <2>1, <3>5, <3>6 DEF Good, Mine, SpansIn
    <3> QED
      BY <3>4, <3>5, <3>6 DEF OnlyBy
  <2>2. /\ \A m \in req'[q].mine : /\ m.trace = Trace(q) /\ m.from = q
                                   /\ m.start = Entry(q).start /\ Uses(q, m.ref)
        /\ \A m, n \in req'[q].mine : m.ref = n.ref => m = n
        /\ req'[q].pc \notin Writing => req'[q].mine = {}
        /\ At(q, "commit") => req'[q].mine # {}
        /\ At(q, "write") /\ ~Holds(q) => req'[q].mine = {}
        /\ At(q, "update") => SpanRow(q) \in req'[q].mine
        /\ At(q, "update") /\ ~Holds(q) => req'[q].mine = {SpanRow(q)}
    BY <1>1 DEF Good, Mine
  <2>3. \A ref : Uses(q, ref)' = Uses(q, ref)
    BY DEF Uses
  <2>4. At(q, "commit")' = At(q, "commit") /\ At(q, "write")' = At(q, "write")
        /\ At(q, "update")' = At(q, "update")
    BY <1>1 DEF At
  <2> QED
    BY <1>2, <1>3, <1>5, <2>1, <2>2, <2>3, <2>4 DEF Mine
<1>10. Counted(q)' /\ Summed(q)'
  BY <1>1, <1>2, <1>5, <1>7 DEF Good, Counted, Summed, LockedFirst, BareCalls, Pcs
<1>11. Started(q)' /\ Named(q)'
  BY <1>1, <1>2, <1>5, <1>6, <1>7 DEF Good, Started, Named
<1> QED
  BY <1>8, <1>9, <1>10, <1>11 DEF Good

\* A request that begins an entry, or has stopped, has nothing to keep.
LEMMA FreshGood ==
  ASSUME NEW r \in Requests, req'[r].pc \in {"open", "stopped"}, req'[r].span = 1,
         req'[r].mine = {}, \A t \in Ids : lock'[t] # r, Trace(r)' \in Ids
  PROVE  Good(r)'
<1>1. ~Holds(r)'
  BY DEF Holds
<1>2. InPlace(r)'
  BY DEF InPlace, At
<1>3. Mine(r)'
  BY DEF Mine, At, Writing
<1> QED
  BY <1>1, <1>2, <1>3 DEF Good, Counted, Summed, Started, Named

\* A step that commits nothing.
LEMMA Quiet ==
  ASSUME IInv, NEW r \in Requests, UNCHANGED <<traces, stored>>, OnlyBy(r), Types', Good(r)'
  PROVE  IInv'
<1>1. \A q \in Requests : Good(q)'
  BY OthersGood DEF IInv
<1>2. RefsDiffer' /\ RowsReal' /\ CountIsExact' /\ StartsFirst'
  BY DEF IInv, RefsDiffer, RowsReal, CountIsExact, StartsFirst
<1>3. TracesSummed'
  BY DEF IInv, TracesSummed, Written, LockedFirst, BareCalls
<1> QED
  BY <1>1, <1>2, <1>3 DEF IInv

-----------------------------------------------------------------------------
(***************************************************************************)
(* The steps.                                                              *)
(***************************************************************************)

LEMMA RowsTyped ==
  /\ NoRow \in RowType
  /\ Idle \in ReqType /\ Idle.entry = 1 /\ Idle.span = 1 /\ Idle.mine = {} /\ Idle.sends = 0
<1>1. NoRow \in RowType
  BY DEF NoRow, RowType
<1> QED
  BY <1>1 DEF Idle, ReqType, Pcs

LEMMA InitIInv == Init => IInv
<1> SUFFICES ASSUME Init PROVE IInv
  OBVIOUS
<1> PICK W \in Workloads :
      req = [r \in Requests |-> [Idle EXCEPT !.sends = IF r \in W THEN 0 ELSE MaxSends[r]]]
  BY DEF Init
<1>1. \A r \in Requests : MaxSends[r] \in Nat \ {0} /\ Entries[r] \in Seq(EntryType) \ {<<>>}
  BY TraceAssumption
<1>2. \A r \in Requests :
        /\ req[r] \in ReqType /\ req[r].pc = "idle" /\ req[r].entry = 1 /\ req[r].span = 1
        /\ req[r].mine = {} /\ req[r].sends <= MaxSends[r]
  BY <1>1, RowsTyped DEF Idle, ReqType
<1>3. \A r \in Requests : 1 \in 1 .. Len(Entries[r])
  BY <1>1
<1>4. Types
  <2>1. traces \in [Ids -> RowType] /\ lock \in [Ids -> Requests \cup {Free}]
    BY RowsTyped DEF Init
  <2>2. stored \subseteq SpanRows /\ IsFiniteSet(stored) /\ IsFiniteSet({})
    BY FS_EmptySet DEF Init
  <2>3. req \in [Requests -> ReqType]
    BY <1>2
  <2> QED
    BY <1>2, <1>3, <2>1, <2>2, <2>3 DEF Types
<1>5. \A t \in Ids : traces[t] = NoRow /\ lock[t] = Free /\ SpansIn(stored, t) = {}
  BY DEF Init, SpansIn
<1>6. RefsDiffer /\ RowsReal /\ StartsFirst
  BY <1>5 DEF RefsDiffer, RowsReal, StartsFirst, Init
<1>7. CountIsExact
  <2>1. Cardinality({}) = 0 /\ NoRow.count = 0
    BY FS_EmptySet DEF NoRow
  <2> QED
    BY <1>5, <2>1 DEF CountIsExact
<1>8. TracesSummed
  BY <1>5 DEF TracesSummed, Written
<1>9. ASSUME NEW r \in Requests PROVE Good(r)
  <2>1. \A t \in Ids : lock[t] # r
    BY <1>5, TraceAssumption
  <2>2. ~Holds(r)
    BY <1>4, <2>1, EntryTyped DEF Holds
  <2>3. InPlace(r) /\ Mine(r)
    BY <1>2, <2>1 DEF InPlace, Mine, At, Writing
  <2> QED
    BY <2>2, <2>3 DEF Good, Counted, Summed, Started, Named
<1> QED
  BY <1>4, <1>6, <1>7, <1>8, <1>9 DEF IInv

LEMMA EntryAgain == ASSUME Types', NEW r \in Requests PROVE Trace(r)' \in Ids
<1>1. Entries[r] \in Seq(EntryType) /\ req'[r].entry \in 1 .. Len(Entries[r])
  BY TraceAssumption DEF Types
<1>2. Entry(r)' \in EntryType
  BY <1>1 DEF Entry
<1> QED
  BY <1>2 DEF EntryType, Trace

LEMMA SendKeeps == ASSUME IInv, NEW r \in Requests, Send(r) PROVE IInv'
<1> DEFINE n == req[r].sends + 1
           new == [Idle EXCEPT !.pc = "open", !.sends = n]
<1>1. /\ req[r].pc \in {"idle", "stopped"} /\ req[r].sends < MaxSends[r]
      /\ req' = [req EXCEPT ![r] = new] /\ UNCHANGED <<traces, stored, lock>>
  BY DEF Send
<1>2. Types /\ req[r] \in ReqType /\ MaxSends[r] \in Nat /\ 1 \in 1 .. Len(Entries[r])
  BY EntryTyped, TraceAssumption DEF IInv
<1>3. /\ new \in ReqType /\ new.pc = "open" /\ new.entry = 1 /\ new.span = 1
      /\ new.mine = {} /\ new.sends <= MaxSends[r]
  <2>1. n \in Nat /\ n <= MaxSends[r]
    BY <1>1, <1>2 DEF ReqType
  <2> HIDE DEF n
  <2> QED
    BY <2>1, RowsTyped DEF ReqType, Pcs
<1> HIDE DEF new
<1>4. req' \in [Requests -> ReqType] /\ req'[r] = new /\ \A q \in Requests \ {r} : req'[q] = req[q]
  BY <1>1, <1>2, <1>3 DEF Types
<1>5. Types'
  BY <1>1, <1>2, <1>3, <1>4, FS_EmptySet DEF Types
<1>6. \A t \in Ids : lock'[t] # r
  BY <1>1 DEF IInv, Good, InPlace, Writing
<1>7. Trace(r)' \in Ids
  BY <1>5, EntryAgain
<1>8. Good(r)'
  BY <1>3, <1>4, <1>6, <1>7, FreshGood
<1>9. OnlyBy(r)
  BY <1>1, <1>4 DEF OnlyBy
<1> QED
  BY <1>1, <1>5, <1>8, <1>9, Quiet

LEMMA RollbackKeeps == ASSUME IInv, NEW r \in Requests, Rollback(r) PROVE IInv'
<1> DEFINE n == 0 + req[r].sends
           new == [Idle EXCEPT !.pc = "stopped", !.sends = n]
<1>1. /\ lock' = [t \in Ids |-> IF lock[t] = r THEN Free ELSE lock[t]]
      /\ req' = [req EXCEPT ![r] = new] /\ UNCHANGED <<traces, stored>>
  BY RowsTyped DEF Rollback
<1>2. Types /\ req[r] \in ReqType /\ req[r].sends <= MaxSends[r] /\ 1 \in 1 .. Len(Entries[r])
  BY EntryTyped, TraceAssumption DEF IInv, Types
<1>3. /\ new \in ReqType /\ new.pc = "stopped" /\ new.entry = 1 /\ new.span = 1
      /\ new.mine = {} /\ new.sends <= MaxSends[r]
  <2>1. n \in Nat /\ n <= MaxSends[r]
    BY <1>1, <1>2 DEF ReqType
  <2> HIDE DEF n
  <2> QED
    BY <2>1, RowsTyped DEF ReqType, Pcs
<1> HIDE DEF new
<1>4. req' \in [Requests -> ReqType] /\ req'[r] = new /\ \A q \in Requests \ {r} : req'[q] = req[q]
  BY <1>1, <1>2, <1>3 DEF Types
<1>5. lock' \in [Ids -> Requests \cup {Free}] /\ \A t \in Ids : lock'[t] # r
  BY <1>1, <1>2, TraceAssumption DEF Types
<1>6. Types'
  BY <1>1, <1>2, <1>3, <1>4, <1>5, FS_EmptySet DEF Types
<1>7. Trace(r)' \in Ids
  BY <1>6, EntryAgain
<1>8. Good(r)'
  BY <1>3, <1>4, <1>5, <1>7, FreshGood
<1>9. OnlyBy(r)
  BY <1>1, <1>4 DEF OnlyBy
<1> QED
  BY <1>1, <1>6, <1>8, <1>9, Quiet

\* A step that stays in its entry.
SameEntry(r) ==
  /\ req'[r].entry = req[r].entry
  /\ \A q \in Requests \ {r} : req'[q] = req[q]
  /\ UNCHANGED <<traces, stored>>

LEMMA Stays ==
  ASSUME Types, NEW r \in Requests, SameEntry(r)
  PROVE  /\ Entry(r)' = Entry(r) /\ Trace(r)' = Trace(r) /\ Merges(r)' = Merges(r)
         /\ Trace(r) \in Ids
         /\ SpansIn(stored, Trace(r))' = SpansIn(stored, Trace(r))
         /\ Visible(r)' = Over(SpansIn(stored, Trace(r)), req'[r].mine)
         /\ LockedFirst(Trace(r))' = LockedFirst(Trace(r))
         /\ \A ref : Uses(r, ref)' = Uses(r, ref)
<1>1. Entry(r)' = Entry(r)
  BY DEF SameEntry, Entry
<1>2. Trace(r)' = Trace(r) /\ Merges(r)' = Merges(r)
  BY <1>1 DEF Trace, Merges
<1>3. SpansIn(stored, Trace(r))' = SpansIn(stored, Trace(r))
  BY <1>2 DEF SpansIn, SameEntry
<1>4. Visible(r)' = Over(SpansIn(stored, Trace(r)), req'[r].mine)
  BY <1>3 DEF Visible
<1>5. LockedFirst(Trace(r))' = LockedFirst(Trace(r))
  BY <1>2 DEF LockedFirst, BareCalls
<1> QED
  BY <1>1, <1>2, <1>3, <1>4, <1>5, EntryTyped DEF Uses

\* One that locks the row of its entry, or has it already, or needs no lock.
LEMMA StaysOnlyBy ==
  ASSUME Types, NEW r \in Requests, SameEntry(r),
         lock' = lock \/ (CanLock(r) /\ lock' = [lock EXCEPT ![Trace(r)] = r])
  PROVE  OnlyBy(r) /\ lock' \in [Ids -> Requests \cup {Free}]
<1>1. Trace(r) \in Ids
  BY EntryTyped
<1> QED
  BY <1>1 DEF OnlyBy, SameEntry, CanLock, Types

\* A request that is not writing holds no lock.
LEMMA NoLock ==
  ASSUME IInv, NEW r \in Requests, req[r].pc \notin Writing
  PROVE  ~Holds(r) /\ req[r].mine = {} /\ \A t \in Ids : lock[t] # r
BY EntryTyped DEF IInv, Good, InPlace, Mine, Holds

\* The insert of the trace's row: done, or left to whoever has done it.
LEMMA OpenKeeps == ASSUME IInv, NEW r \in Requests, Open(r) PROVE IInv'
<1> DEFINE fresh == [count |-> 0, tokens |-> 0, status |-> "unset",
                     name |-> FirstName(r), start |-> Entry(r).start]
           created == traces[Trace(r)] = NoRow
           work == IF created THEN fresh ELSE req[r].work
           pc == IF created \/ ~Merges(r) THEN "write" ELSE "merge"
<1>1. /\ At(r, "open") /\ (created => lock[Trace(r)] = Free)
      /\ lock' = IF created THEN [lock EXCEPT ![Trace(r)] = r] ELSE lock
      /\ req' = [req EXCEPT ![r].work = work, ![r].pc = pc]
      /\ UNCHANGED <<traces, stored>>
  BY DEF Open
<1>2. /\ Types /\ req[r] \in ReqType /\ req[r].pc = "open" /\ req[r].span = 1
      /\ Trace(r) \in Ids /\ Entry(r).start \in Nat /\ req \in [Requests -> ReqType]
      /\ Len(Entry(r).spans) \in Nat \ {0}
  BY <1>1, EntryTyped DEF IInv, Good, InPlace, At, Types
<1>3. ~Holds(r) /\ req[r].mine = {} /\ \A t \in Ids : lock[t] # r
  BY <1>2, NoLock DEF Writing
<1>4. /\ FirstName(r) \in {"stamp", "derived", "chosen"}
      /\ fresh \in RowType /\ work \in RowType /\ pc \in {"write", "merge"}
  <2>1. FirstName(r) \in {"stamp", "derived", "chosen"}
    BY DEF FirstName
  <2> QED
    BY <1>2, <2>1 DEF RowType, ReqType
<1>5. /\ req' \in [Requests -> ReqType] /\ req'[r].entry = req[r].entry /\ req'[r].span = 1
      /\ req'[r].mine = {} /\ req'[r].pc = pc /\ req'[r].work = work
      /\ req'[r].sends = req[r].sends /\ \A q \in Requests \ {r} : req'[q] = req[q]
  <2> HIDE DEF work, pc, created
  <2> QED
    BY <1>1, <1>2, <1>3, <1>4 DEF ReqType, Pcs
<1>6. SameEntry(r)
  BY <1>1, <1>5 DEF SameEntry
<1>7. OnlyBy(r) /\ lock' \in [Ids -> Requests \cup {Free}]
  BY <1>1, <1>2, <1>6, StaysOnlyBy DEF CanLock
<1>8. Types'
  BY <1>1, <1>2, <1>3, <1>5, <1>7 DEF Types
<1>9. /\ Entry(r)' = Entry(r) /\ Trace(r)' = Trace(r) /\ Merges(r)' = Merges(r)
      /\ Visible(r)' = SpansIn(stored, Trace(r))
      /\ LockedFirst(Trace(r))' = LockedFirst(Trace(r))
  BY <1>2, <1>5, <1>6, Stays, OverNothing
<1>10. Holds(r)' <=> created
  BY <1>1, <1>2, <1>3, <1>9 DEF Holds, Types
<1>11. InPlace(r)'
  <2>1. \A t \in Ids : lock'[t] = r => t = Trace(r) /\ pc = "write"
    BY <1>1, <1>2, <1>3 DEF Types
  <2>2. pc = "merge" => ~created
    OBVIOUS
  <2>3. pc = "write" => created \/ ~Merges(r)
    OBVIOUS
  <2> HIDE DEF pc, created
  <2>4. created \/ traces[Trace(r)] # NoRow
    BY DEF created
  <2> QED
    BY <1>1, <1>2, <1>4, <1>5, <1>9, <1>10, <2>1, <2>2, <2>3, <2>4 DEF InPlace, At, Writing
<1>12. Mine(r)'
  <2> HIDE DEF pc, created
  <2> QED
    BY <1>4, <1>5 DEF Mine, At
<1>13. ASSUME created
       PROVE  Counted(r)' /\ Summed(r)' /\ Started(r)' /\ Named(r)'
  <2>1. SpansIn(stored, Trace(r)) = {}
    <3>1. Cardinality(SpansIn(stored, Trace(r))) = 0
      BY <1>2, <1>13 DEF IInv, CountIsExact, NoRow
    <3> QED
      BY <1>2, <3>1, SeenTyped, FS_EmptySet
  <2>2. Visible(r)' = {} /\ Rolled(r)' = {}
    BY <1>9, <2>1 DEF Rolled
  <2>3. Cardinality({}) = 0 /\ Sum({}) = 0
    BY FS_EmptySet, SumOfSpans
  <2>4. req'[r].work = fresh /\ pc = "write"
    BY <1>5, <1>13
  <2>5. Counted(r)'
    BY <2>2, <2>3, <2>4 DEF Counted
  <2>6. Summed(r)'
    BY <1>5, <2>2, <2>3, <2>4 DEF Summed, StatusOf, At
  <2>7. Started(r)'
    BY <1>2, <1>9, <2>2, <2>4 DEF Started
  <2>8. Named(r)'
    <3>1. traces'[Trace(r)'].name = "none" /\ Rank("none") = 0
      BY <1>1, <1>9, <1>13 DEF NoRow, Rank
    <3>2. Rank(FirstName(r)) >= 0
      BY <1>4 DEF Rank
    <3> QED
      BY <2>4, <3>1, <3>2 DEF Named
  <2> QED
    BY <2>5, <2>6, <2>7, <2>8
<1>14. ASSUME ~created
       PROVE  Counted(r)' /\ Summed(r)' /\ Started(r)' /\ Named(r)'
  BY <1>10, <1>14 DEF Counted, Summed, Started, Named
<1>15. Good(r)'
  BY <1>11, <1>12, <1>13, <1>14 DEF Good
<1> QED
  BY <1>1, <1>7, <1>8, <1>15, Quiet

\* The row as a statement sees it, without the lock and with it.
LEMMA RowSeen ==
  ASSUME IInv, NEW r \in Requests
  PROVE  /\ Row(r) \in RowType
         /\ Holds(r) => Row(r) = req[r].work
         /\ ~Holds(r) => Row(r) = traces[Trace(r)]
BY EntryTyped DEF IInv, Types, Row, Holds, ReqType

LEMMA MergeKeeps == ASSUME IInv, NEW r \in Requests, Merge(r) PROVE IInv'
<1> DEFINE T == Trace(r)
           row == traces[T]
           work == [row EXCEPT !.name = MergedName(r, row.name),
                               !.start = MergedStart(r, row.start)]
<1>1. /\ At(r, "merge") /\ CanLock(r) /\ lock' = [lock EXCEPT ![T] = r]
      /\ req' = [req EXCEPT
           ![r].work = [Row(r) EXCEPT !.name = MergedName(r, @), !.start = MergedStart(r, @)],
           ![r].pc = "write"]
      /\ UNCHANGED <<traces, stored>>
  BY DEF Merge
<1>2. /\ Types /\ req[r] \in ReqType /\ req[r].pc = "merge" /\ req[r].span = 1
      /\ T \in Ids /\ Entry(r).start \in Nat /\ req \in [Requests -> ReqType]
      /\ Len(Entry(r).spans) \in Nat \ {0} /\ row # NoRow /\ row \in RowType
  BY <1>1, EntryTyped DEF IInv, Good, InPlace, At, Types
<1>3. ~Holds(r) /\ req[r].mine = {} /\ \A t \in Ids : lock[t] # r
  BY <1>2, NoLock DEF Writing
<1>4. Row(r) = row
  BY <1>3, RowSeen
<1>5. /\ MergedName(r, row.name) \in {"none", "stamp", "derived", "chosen"}
      /\ Rank(MergedName(r, row.name)) >= Rank(row.name)
  <2>1. row.name \in {"none", "stamp", "derived", "chosen"}
    BY <1>2 DEF RowType
  <2>2. MergedName(r, row.name) \in {row.name, "derived", "chosen"}
    BY DEF MergedName
  <2>3. MergedName(r, row.name) = "derived" => row.name \in {"derived", "stamp"}
    BY <2>1 DEF MergedName
  <2> QED
    BY <2>1, <2>2, <2>3 DEF Rank
<1>6. /\ MergedStart(r, row.start) \in Nat /\ MergedStart(r, row.start) <= row.start
      /\ Kind[r] # "call" => MergedStart(r, row.start) <= Entry(r).start
  <2>1. row.start \in Nat
    BY <1>2 DEF RowType
  <2> QED
    BY <1>2, <2>1, MinOfTwo DEF MergedStart
<1>7. /\ work \in RowType /\ work.count = row.count /\ work.tokens = row.tokens
      /\ work.status = row.status /\ work.name = MergedName(r, row.name)
      /\ work.start = MergedStart(r, row.start)
  BY <1>2, <1>5, <1>6 DEF RowType
<1>8. /\ req' \in [Requests -> ReqType] /\ req'[r].entry = req[r].entry /\ req'[r].span = 1
      /\ req'[r].mine = {} /\ req'[r].pc = "write" /\ req'[r].work = work
      /\ req'[r].sends = req[r].sends /\ \A q \in Requests \ {r} : req'[q] = req[q]
  <2>1. req' = [req EXCEPT ![r].work = work, ![r].pc = "write"]
    BY <1>1, <1>4
  <2> HIDE DEF work
  <2> QED
    BY <1>2, <1>3, <1>7, <2>1 DEF ReqType, Pcs
<1> HIDE DEF work
<1>9. SameEntry(r)
  BY <1>1, <1>8 DEF SameEntry
<1>10. OnlyBy(r) /\ lock' \in [Ids -> Requests \cup {Free}]
  BY <1>1, <1>2, <1>9, StaysOnlyBy
<1>11. Types'
  BY <1>1, <1>2, <1>3, <1>8, <1>10 DEF Types
<1>12. /\ Entry(r)' = Entry(r) /\ Trace(r)' = T /\ Merges(r)' = Merges(r)
       /\ Visible(r)' = SpansIn(stored, T) /\ Rolled(r)' = SpansIn(stored, T)
       /\ LockedFirst(Trace(r))' = LockedFirst(T)
  <2>1. Visible(r)' = SpansIn(stored, T)
    BY <1>2, <1>8, <1>9, Stays, OverNothing
  <2> QED
    BY <1>2, <1>8, <1>9, <2>1, Stays DEF Rolled, At
<1>13. Holds(r)'
  BY <1>1, <1>2, <1>12 DEF Holds, Types
<1>14. InPlace(r)'
  <2>1. \A t \in Ids : lock'[t] = r => t = T
    BY <1>1, <1>2, <1>3 DEF Types
  <2> QED
    BY <1>2, <1>8, <1>12, <1>13, <2>1 DEF InPlace, At, Writing
<1>15. Mine(r)'
  BY <1>8, <1>13 DEF Mine, At
<1>16. Counted(r)'
  BY <1>2, <1>7, <1>8, <1>12 DEF Counted, IInv, CountIsExact
<1>17. Summed(r)'
  BY <1>2, <1>7, <1>8, <1>12 DEF Summed, IInv, TracesSummed, Written, At
<1>18. Started(r)'
  <2>1. \A s \in SpansIn(stored, T) : Kind[s.from] # "call" => row.start <= s.start
    BY DEF IInv, StartsFirst, SpansIn
  <2>2. row.start \in Nat /\ \A s \in SpansIn(stored, T) : s.start \in Nat
    BY <1>2, SeenTyped DEF RowType, SpanRows
  <2> QED
    BY <1>2, <1>6, <1>7, <1>8, <1>12, <2>1, <2>2 DEF Started
<1>19. Named(r)'
  BY <1>1, <1>2, <1>5, <1>7, <1>8, <1>12 DEF Named, IInv, RowsReal
<1>20. Good(r)'
  BY <1>14, <1>15, <1>16, <1>17, <1>18, <1>19 DEF Good
<1> QED
  BY <1>1, <1>10, <1>11, <1>20, Quiet

\* A span is inserted, and the row is read as it is seen.
LEMMA InsertKeeps ==
  ASSUME IInv, NEW r \in Requests, At(r, "write"), Kind[r] # "export", ~Refused(r),
         req' = [req EXCEPT ![r].mine = @ \cup {SpanRow(r)},
                            ![r].seen = Row(r), ![r].pc = "update"],
         UNCHANGED <<traces, stored, lock>>
  PROVE  IInv'
<1> DEFINE T == Trace(r)
           n == SpanRow(r)
           mine == req[r].mine
<1>1. /\ Types /\ req[r] \in ReqType /\ req[r].pc = "write" /\ T \in Ids /\ Good(r)
      /\ req[r].span \in 1 .. Len(Entry(r).spans) /\ req \in [Requests -> ReqType]
  BY EntryTyped DEF IInv, Good, InPlace, At, Types
<1>2. /\ n \in SpanRows /\ n.trace = T /\ n.from = r /\ n.start = Entry(r).start
      /\ n.ref = TheSpan(r).ref /\ Uses(r, n.ref)
      /\ mine \subseteq SpanRows /\ IsFiniteSet(mine)
  BY <1>1, SpanTyped DEF ReqType, Types
<1>3. \A s \in Visible(r) : s.ref # n.ref
  BY <1>2 DEF Refused
<1>4. /\ Row(r) \in RowType /\ (Holds(r) => Row(r) = req[r].work)
      /\ (~Holds(r) => Row(r) = traces[T])
  BY RowSeen
<1>5. Row(r).status # "none"
  BY <1>1, <1>4 DEF Good, Named, InPlace, IInv, RowsReal, At
<1> HIDE DEF n
<1>6. mine \cup {n} \in SUBSET SpanRows /\ IsFiniteSet(mine \cup {n})
  BY <1>2, FS_AddElement
<1>7. /\ req' \in [Requests -> ReqType] /\ req'[r].entry = req[r].entry
      /\ req'[r].span = req[r].span /\ req'[r].mine = mine \cup {n}
      /\ req'[r].pc = "update" /\ req'[r].work = req[r].work /\ req'[r].seen = Row(r)
      /\ req'[r].sends = req[r].sends /\ \A q \in Requests \ {r} : req'[q] = req[q]
  <2> DEFINE more == mine \cup {n}
             row == Row(r)
  <2>1. req' = [req EXCEPT ![r].mine = more, ![r].seen = row, ![r].pc = "update"]
    BY DEF n
  <2>2. more \in SUBSET SpanRows /\ row \in RowType
    BY <1>4, <1>6
  <2> HIDE DEF more, row
  <2>3. req'[r] = [req[r] EXCEPT !.mine = more, !.seen = row, !.pc = "update"]
    BY <1>1, <2>1
  <2>4. req'[r] \in ReqType
    BY <1>1, <2>2, <2>3 DEF ReqType, Pcs
  <2>5. /\ req'[r].entry = req[r].entry /\ req'[r].span = req[r].span /\ req'[r].mine = more
        /\ req'[r].pc = "update" /\ req'[r].work = req[r].work /\ req'[r].seen = row
        /\ req'[r].sends = req[r].sends
    BY <1>1, <2>3 DEF ReqType
  <2>6. req' \in [Requests -> ReqType] /\ \A q \in Requests \ {r} : req'[q] = req[q]
    BY <1>1, <2>1, <2>4
  <2> QED
    BY <2>5, <2>6 DEF more, row
<1>8. SameEntry(r)
  BY <1>7 DEF SameEntry
<1>9. OnlyBy(r)
  BY <1>1, <1>8, StaysOnlyBy
<1>10. Types'
  BY <1>1, <1>6, <1>7 DEF Types
<1>11. /\ Entry(r)' = Entry(r) /\ Trace(r)' = T /\ Merges(r)' = Merges(r)
       /\ LockedFirst(Trace(r))' = LockedFirst(T) /\ SpansIn(stored, Trace(r))' = SpansIn(stored, T)
       /\ \A ref : Uses(r, ref)' = Uses(r, ref)
  BY <1>1, <1>8, Stays
<1>12. TheSpan(r)' = TheSpan(r) /\ SpanRow(r)' = n
  <2>1. TheSpan(r)' = TheSpan(r)
    BY <1>7, <1>11 DEF TheSpan
  <2> QED
    BY <2>1, <1>11 DEF SpanRow, n
<1>13. Visible(r)' = Visible(r) \cup {n} /\ n \notin Visible(r) /\ Rolled(r)' = Rolled(r)
  <2>1. Visible(r)' = Over(SpansIn(stored, T), mine \cup {n})
    BY <1>1, <1>7, <1>8, Stays
  <2>2. Visible(r) = Over(SpansIn(stored, T), mine)
    BY DEF Visible
  <2>3. Visible(r)' = Visible(r) \cup {n} /\ n \notin Visible(r)
    BY <1>3, <2>1, <2>2, OverNew
  <2>4. Rolled(r) = Visible(r)
    BY <1>1 DEF Rolled, At
  <2>5. Rolled(r)' = Visible(r)' \ {n}
    BY <1>7, <1>12 DEF Rolled, At
  <2> QED
    BY <2>3, <2>4, <2>5
<1>14. Holds(r)' = Holds(r)
  BY <1>11 DEF Holds
<1>15. InPlace(r)'
  BY <1>1, <1>5, <1>7, <1>11, <1>14 DEF Good, InPlace, At, Writing
<1>16. Mine(r)'
  <2>1. \A m \in mine : m \in Visible(r)
    BY DEF Visible, Over
  <2>2. \A m \in mine : m.ref # n.ref
    BY <1>3, <2>1
  <2>3. \A m \in mine \cup {n} : m.trace = T /\ m.from = r /\ m.start = Entry(r).start /\ Uses(r, m.ref)
    BY <1>1, <1>2 DEF Good, Mine
  <2>4. \A m, k \in mine \cup {n} : m.ref = k.ref => m = k
    BY <1>1, <2>2 DEF Good, Mine
  <2>5. ASSUME ~Holds(r)
        PROVE  mine = {} /\ \A s \in SpansIn(stored, T) : s.ref # TheSpan(r).ref
    <3>1. mine = {}
      BY <1>1, <2>5 DEF Good, Mine, At
    <3>2. Visible(r) = SpansIn(stored, T)
      BY <3>1, OverNothing DEF Visible
    <3> QED
      BY <1>2, <1>3, <3>1, <3>2
  <2> QED
    BY <1>7, <1>11, <1>12, <1>14, <2>3, <2>4, <2>5 DEF Mine, At, Writing
<1>17. Counted(r)'
  BY <1>1, <1>7, <1>13, <1>14 DEF Good, Counted
<1>18. Summed(r)'
  BY <1>1, <1>4, <1>7, <1>11, <1>13, <1>14 DEF Good, Summed
<1>19. Started(r)'
  <2>1. Holds(r) /\ Kind[r] # "call" => req[r].work.start <= n.start
    BY <1>1, <1>2 DEF Good, Started
  <2> QED
    BY <1>1, <1>2, <1>7, <1>11, <1>13, <1>14, <2>1 DEF Good, Started
<1>20. Named(r)'
  BY <1>1, <1>7, <1>11, <1>14 DEF Good, Named
<1>21. Good(r)'
  BY <1>15, <1>16, <1>17, <1>18, <1>19, <1>20 DEF Good
<1> QED
  BY <1>9, <1>10, <1>21, Quiet

LEMMA Append1Keeps == ASSUME IInv, NEW r \in Requests, Append1(r) PROVE IInv'
<1>1. CASE Refused(r)
  BY <1>1, RollbackKeeps DEF Append1
<1>2. CASE ~Refused(r)
  BY <1>2, InsertKeeps DEF Append1
<1> QED
  BY <1>1, <1>2

\* Both writes of a span end alike: the row is what it was made, and goes on to the
\* next span or to the commit.
LEMMA WrittenKeeps ==
  ASSUME IInv, NEW r \in Requests, CanLock(r), req[r].span \in 1 .. Len(Entry(r).spans),
         lock' = [lock EXCEPT ![Trace(r)] = r], UNCHANGED <<traces, stored>>,
         NEW mine \in SUBSET SpanRows, NEW work \in RowType,
         req' = [req EXCEPT ![r].mine = mine, ![r].work = work,
                            ![r].pc = NextSpan(r), ![r].span = req[r].span + 1],
         IsFiniteSet(mine), mine # {},
         \A m \in mine : m.trace = Trace(r) /\ m.from = r /\ m.start = Entry(r).start
                           /\ Uses(r, m.ref),
         \A m, k \in mine : m.ref = k.ref => m = k,
         NEW S, S = Over(SpansIn(stored, Trace(r)), mine),
         work.count = Cardinality(S),
         LockedFirst(Trace(r)) => work.tokens = Sum(S) /\ work.status = StatusOf(S),
         Kind[r] # "call" => work.start <= Entry(r).start,
         \A s \in S : Kind[s.from] # "call" => work.start <= s.start,
         Rank(work.name) >= Rank(traces[Trace(r)].name), work.status # "none"
  PROVE  IInv'
<1> DEFINE T == Trace(r)
<1>1. /\ Types /\ req[r] \in ReqType /\ T \in Ids /\ req \in [Requests -> ReqType]
      /\ Len(Entry(r).spans) \in Nat \ {0} /\ req[r].span \in Nat
  BY EntryTyped DEF IInv, Types
<1>2. /\ NextSpan(r) \in {"write", "commit"}
      /\ NextSpan(r) = "write" => req[r].span + 1 \in 1 .. Len(Entry(r).spans)
  BY <1>1 DEF NextSpan
<1>3. /\ req' \in [Requests -> ReqType] /\ req'[r].entry = req[r].entry
      /\ req'[r].span = req[r].span + 1 /\ req'[r].mine = mine
      /\ req'[r].pc = NextSpan(r) /\ req'[r].work = work
      /\ req'[r].sends = req[r].sends /\ \A q \in Requests \ {r} : req'[q] = req[q]
  <2> DEFINE k == req[r].span + 1
  <2>1. k \in Nat
    BY <1>1
  <2> HIDE DEF k
  <2> QED
    BY <1>1, <1>2, <2>1 DEF ReqType, Pcs, k
<1>4. SameEntry(r)
  BY <1>3 DEF SameEntry
<1>5. OnlyBy(r) /\ lock' \in [Ids -> Requests \cup {Free}]
  BY <1>1, <1>4, StaysOnlyBy
<1>6. Types'
  BY <1>1, <1>3, <1>5 DEF Types
<1>7. /\ Entry(r)' = Entry(r) /\ Trace(r)' = T /\ LockedFirst(Trace(r))' = LockedFirst(T)
      /\ Visible(r)' = S /\ \A ref : Uses(r, ref)' = Uses(r, ref)
  BY <1>1, <1>3, <1>4, Stays
<1>8. Rolled(r)' = S
  BY <1>2, <1>3, <1>7 DEF Rolled, At
<1>9. Holds(r)'
  BY <1>1, <1>7 DEF Holds, Types
<1>10. InPlace(r)'
  <2>1. \A t \in Ids : lock'[t] = r => t = T
    BY <1>1 DEF IInv, Good, InPlace, Types
  <2> QED
    BY <1>2, <1>3, <1>7, <1>9, <2>1 DEF InPlace, At, Writing
<1>11. Mine(r)'
  BY <1>2, <1>3, <1>7, <1>9 DEF Mine, At, Writing
<1>12. Counted(r)' /\ Summed(r)'
  BY <1>2, <1>3, <1>7, <1>8 DEF Counted, Summed, At
<1>13. Started(r)' /\ Named(r)'
  BY <1>3, <1>7 DEF Started, Named
<1>14. Good(r)'
  BY <1>10, <1>11, <1>12, <1>13 DEF Good
<1> QED
  BY <1>5, <1>6, <1>14, Quiet

\* The increment: what was rolled up, and the span that waited.
LEMMA Append2Keeps == ASSUME IInv, NEW r \in Requests, Append2(r) PROVE IInv'
<1> DEFINE T == Trace(r)
           n == SpanRow(r)
           mine == req[r].mine
           row == Row(r)
           seen == req[r].seen
           work == RolledUp(row, seen, TheSpan(r))
           S == Visible(r)
<1>1. /\ Types /\ Good(r) /\ req[r] \in ReqType /\ req[r].pc = "update" /\ T \in Ids
      /\ At(r, "update") /\ CanLock(r) /\ lock' = [lock EXCEPT ![T] = r]
      /\ req[r].span \in 1 .. Len(Entry(r).spans) /\ UNCHANGED <<traces, stored>>
      /\ req \in [Requests -> ReqType]
  BY EntryTyped DEF Append2, IInv, Good, InPlace, At, Types
<1>2. /\ n \in SpanRows /\ n.start = Entry(r).start /\ n.from = r /\ n.ref = TheSpan(r).ref
      /\ n.tokens = TheSpan(r).tokens /\ n.error = TheSpan(r).error /\ n \in mine
      /\ TheSpan(r) \in SpanType
  BY <1>1, SpanTyped DEF Good, Mine
<1>3. mine \subseteq SpanRows /\ IsFiniteSet(mine) /\ S = Over(SpansIn(stored, T), mine)
  BY <1>1 DEF ReqType, Types, Visible
<1>4. /\ row \in RowType /\ seen \in RowType /\ seen.status # "none"
      /\ Holds(r) => row = req[r].work
      /\ ~Holds(r) => row = traces[T]
  BY <1>1, RowSeen DEF Good, InPlace, ReqType
<1>5. /\ work \in RowType /\ work.count = row.count + 1
      /\ work.tokens = seen.tokens + n.tokens /\ work.name = row.name /\ work.start = row.start
      /\ work.status = IF n.error THEN "error"
                       ELSE IF seen.status = "unset" THEN "ok" ELSE seen.status
  <2> DEFINE c == row.count + 1
             t == seen.tokens + TheSpan(r).tokens
             u == IF TheSpan(r).error THEN "error"
                  ELSE IF seen.status = "unset" THEN "ok" ELSE seen.status
  <2>1. c \in Nat /\ t \in Int /\ u \in {"none", "unset", "ok", "error"}
    BY <1>2, <1>4 DEF RowType, SpanType
  <2>2. work = [row EXCEPT !.count = c, !.tokens = t, !.status = u]
    BY DEF RolledUp
  <2> HIDE DEF c, t, u, work, row, seen
  <2>3. work \in RowType /\ work.count = c /\ work.tokens = t /\ work.name = row.name
        /\ work.start = row.start /\ work.status = u
    BY <1>4, <2>1, <2>2 DEF RowType
  <2> QED
    BY <1>2, <2>3 DEF c, t, u
<1>6. work.status # "none"
  BY <1>4, <1>5
<1> DEFINE B == S \ {n}
<1>7. S = B \cup {n} /\ n \notin B /\ IsFiniteSet(B) /\ S \subseteq SpanRows /\ Rolled(r) = B
  <2>1. n \in S
    BY <1>2, <1>3 DEF Over
  <2>2. S \subseteq SpanRows /\ IsFiniteSet(S)
    BY <1>1, SeenTyped
  <2>3. Rolled(r) = B
    BY <1>1 DEF Rolled
  <2> QED
    BY <2>1, <2>2, <2>3, FS_Subset
<1>8. row.count = Cardinality(B)
  <2>1. CASE Holds(r)
    BY <1>1, <1>4, <1>7, <2>1 DEF Good, Counted
  <2>2. CASE ~Holds(r)
    <3>1. mine = {n} /\ \A s \in SpansIn(stored, T) : s.ref # n.ref
      BY <1>1, <1>2, <2>2 DEF Good, Mine
    <3>2. B = SpansIn(stored, T)
      BY <1>3, <3>1 DEF Over
    <3> QED
      BY <1>1, <1>4, <2>2, <3>2 DEF IInv, CountIsExact
  <2> QED
    BY <2>1, <2>2
<1>9. work.count = Cardinality(S)
  BY <1>5, <1>7, <1>8, CountAdds
<1>10. ASSUME LockedFirst(T) PROVE work.tokens = Sum(S) /\ work.status = StatusOf(S)
  <2>1. Holds(r)
    BY <1>1, <1>10, BareCall DEF Good, InPlace
  <2>2. seen = req[r].work /\ seen.tokens = Sum(B) /\ seen.status = StatusOf(B)
    BY <1>1, <1>7, <1>10, <2>1 DEF Good, Summed
  <2>3. \A s \in B \cup {n} : s.tokens \in Nat
    BY <1>7 DEF SpanRows
  <2>4. Sum(B \cup {n}) = Sum(B) + n.tokens
    BY <1>7, <2>3, SumAdds
  <2>5. n.error \in BOOLEAN
    BY <1>2 DEF SpanRows
  <2>6. StatusOf(B \cup {n}) = IF n.error THEN "error"
                               ELSE IF StatusOf(B) = "unset" THEN "ok" ELSE StatusOf(B)
    BY <2>5, StatusAdds
  <2> HIDE DEF B, S, work, seen, n
  <2> QED
    BY <1>5, <1>7, <2>2, <2>4, <2>6
<1>11. Kind[r] # "call" => work.start <= Entry(r).start
  BY <1>1, <1>4, <1>5, BareCall DEF Good, Started, InPlace
<1>12. ASSUME NEW s \in S, Kind[s.from] # "call" PROVE work.start <= s.start
  <2>1. CASE Holds(r)
    BY <1>1, <1>4, <1>5, <1>12, <2>1 DEF Good, Started
  <2>2. CASE ~Holds(r)
    <3>1. Kind[r] = "call" /\ mine = {n}
      BY <1>1, <2>2, BareCall DEF Good, Mine, InPlace
    <3>2. s \in SpansIn(stored, T)
      BY <1>2, <1>3, <1>12, <3>1 DEF Over
    <3> QED
      BY <1>4, <1>5, <1>12, <2>2, <3>2 DEF IInv, StartsFirst, SpansIn
  <2> QED
    BY <2>1, <2>2
<1>13. Rank(work.name) >= Rank(traces[T].name)
  <2>1. traces[T] \in RowType
    BY <1>1 DEF Types
  <2>2. Rank(traces[T].name) \in 0 .. 3
    BY <2>1, RankTyped DEF RowType
  <2> QED
    BY <1>1, <1>4, <1>5, <2>2 DEF Good, Named
<1>14. req' = [req EXCEPT ![r].mine = mine, ![r].work = work,
                          ![r].pc = NextSpan(r), ![r].span = req[r].span + 1]
  <2>1. req' = [req EXCEPT ![r].work = work, ![r].pc = NextSpan(r), ![r].span = req[r].span + 1]
    BY DEF Append2
  <2> HIDE DEF work
  <2> QED
    BY <1>1, <2>1 DEF ReqType
<1>15. /\ \A m \in mine : m.trace = T /\ m.from = r /\ m.start = Entry(r).start /\ Uses(r, m.ref)
       /\ \A m, k \in mine : m.ref = k.ref => m = k
  BY <1>1 DEF Good, Mine
<1> HIDE DEF work, S, row, seen, n, mine
<1> QED
  BY <1>1, <1>2, <1>3, <1>5, <1>6, <1>9, <1>10, <1>11, <1>12, <1>13, <1>14, <1>15, WrittenKeeps
     DEF mine

\* The upsert, and the rollups recomputed from all spans of the trace.
LEMMA UpsertKeeps == ASSUME IInv, NEW r \in Requests, Upsert(r) PROVE IInv'
<1> DEFINE T == Trace(r)
           n == SpanRow(r)
           old == req[r].mine
           mine == Upserted(old, n)
           row == Row(r)
           S == Upserted(Visible(r), n)
           work == Recomputed(row, S)
<1>1. /\ Types /\ Good(r) /\ req[r] \in ReqType /\ req[r].pc = "write" /\ T \in Ids
      /\ Kind[r] = "export" /\ CanLock(r) /\ lock' = [lock EXCEPT ![T] = r]
      /\ req[r].span \in 1 .. Len(Entry(r).spans) /\ UNCHANGED <<traces, stored>>
      /\ req \in [Requests -> ReqType]
  BY EntryTyped DEF Upsert, IInv, Good, InPlace, At, Types
<1>2. /\ n \in SpanRows /\ n.start = Entry(r).start /\ n.from = r /\ n.trace = T
      /\ n.ref = TheSpan(r).ref /\ Uses(r, n.ref)
  BY <1>1, SpanTyped
<1>3. Holds(r)
  BY <1>1 DEF Good, InPlace, At, Merges
<1>4. row \in RowType /\ row = req[r].work
  BY <1>3, RowSeen
<1>5. old \subseteq SpanRows /\ IsFiniteSet(old)
  BY <1>1 DEF ReqType, Types
<1>6. mine \in SUBSET SpanRows /\ IsFiniteSet(mine) /\ mine # {} /\ n \in mine
  <2>1. IsFiniteSet({n})
    BY FS_Singleton
  <2> QED
    BY <1>2, <1>5, <2>1, OverFinite DEF Upserted, Over
<1>7. /\ \A m \in mine : m.trace = T /\ m.from = r /\ m.start = Entry(r).start /\ Uses(r, m.ref)
      /\ \A m, k \in mine : m.ref = k.ref => m = k
  BY <1>1, <1>2 DEF Good, Mine, Upserted, Over
<1>8. S = Over(SpansIn(stored, T), mine)
  <2>1. S = Over(Over(SpansIn(stored, T), old), {n}) /\ mine = Over(old, {n})
    BY DEF Visible, Upserted
  <2> HIDE DEF S, mine, old, n
  <2> QED
    BY <2>1, OverTwice
<1>9. /\ S \subseteq SpanRows /\ IsFiniteSet(S) /\ n \in S
      /\ \A s \in S : s \in Visible(r) \/ s = n
  <2>1. IsFiniteSet({n}) /\ IsFiniteSet(Visible(r)) /\ Visible(r) \subseteq SpanRows
    BY <1>1, FS_Singleton, SeenTyped
  <2> QED
    BY <1>2, <2>1, OverFinite DEF Upserted, Over
<1> HIDE DEF S, row, mine
<1>10. /\ work \in RowType /\ work.count = Cardinality(S) /\ work.tokens = Sum(S)
       /\ work.status = StatusOf(S) /\ work.name = row.name /\ work.start = row.start
       /\ work.status # "none"
  <2> DEFINE c == Cardinality(S)
             t == Sum(S)
             u == IF \E s \in S : s.error THEN "error" ELSE "ok"
  <2>1. c \in Nat /\ t \in Int
    BY <1>9, FS_CardinalityType, SumOfSpans DEF SpanRows
  <2>2. u \in {"error", "ok"} /\ u = StatusOf(S)
    BY <1>9 DEF StatusOf
  <2>3. work = [row EXCEPT !.count = c, !.tokens = t, !.status = u]
    BY DEF Recomputed
  <2> HIDE DEF c, t, u, work
  <2>4. work \in RowType /\ work.count = c /\ work.tokens = t /\ work.name = row.name
        /\ work.start = row.start /\ work.status = u
    BY <1>4, <2>1, <2>2, <2>3 DEF RowType
  <2> QED
    BY <2>2, <2>4 DEF c, t
<1>11. Kind[r] # "call" => work.start <= Entry(r).start
  BY <1>1, <1>3, <1>4, <1>10 DEF Good, Started
<1>12. \A s \in S : Kind[s.from] # "call" => work.start <= s.start
  BY <1>1, <1>2, <1>3, <1>4, <1>9, <1>10, <1>11 DEF Good, Started
<1>13. Rank(work.name) >= Rank(traces[T].name)
  BY <1>1, <1>3, <1>4, <1>10 DEF Good, Named
<1>14. req' = [req EXCEPT ![r].mine = mine, ![r].work = work,
                          ![r].pc = NextSpan(r), ![r].span = req[r].span + 1]
  <2>1. req' = [req EXCEPT ![r].mine = Upserted(@, SpanRow(r)), ![r].work = work,
                           ![r].pc = NextSpan(r), ![r].span = @ + 1]
    BY DEF Upsert, S, row
  <2> HIDE DEF work
  <2> QED
    BY <2>1 DEF mine
<1> HIDE DEF work, n, old
<1> QED
  BY <1>1, <1>6, <1>7, <1>8, <1>10, <1>11, <1>12, <1>13, <1>14, WrittenKeeps

\* An entry is done; its row and its spans are everybody's.
LEMMA CommitKeeps == ASSUME IInv, NEW r \in Requests, Commit(r) PROVE IInv'
<1> DEFINE T == Trace(r)
           work == req[r].work
           new == NextEntry(r)
           S == Visible(r)
<1>1. /\ Types /\ Good(r) /\ req[r] \in ReqType /\ req[r].pc = "commit" /\ T \in Ids
      /\ Holds(r) /\ req \in [Requests -> ReqType]
      /\ traces' = [traces EXCEPT ![T] = work]
      /\ stored' = {s \in stored : s.trace # T} \cup S
      /\ lock' = [lock EXCEPT ![T] = Free]
      /\ req' = [req EXCEPT ![r] = new]
  BY EntryTyped DEF Commit, IInv, Good, InPlace, At, Types
<1>2. /\ S \subseteq SpanRows /\ IsFiniteSet(S) /\ Rolled(r) = S
      /\ \A s \in S : s.trace = T
  BY <1>1, SeenTyped DEF Rolled, At, Visible, Over, SpansIn, Good, Mine
<1>3. S # {}
  BY <1>1 DEF Good, Mine, At, Visible, Over
<1>4. work \in RowType
  BY <1>1 DEF ReqType
<1>5. new \in ReqType /\ new.pc \in {"open", "stopped"} /\ new.span = 1 /\ new.mine = {}
      /\ new.entry \in 1 .. Len(Entries[r]) /\ new.sends = req[r].sends
  <2> DEFINE k == req[r].sends
             last == req[r].entry = Len(Entries[r])
             pc == IF last THEN "stopped" ELSE "open"
             e == IF last THEN 1 ELSE req[r].entry + 1
  <2>1. Entries[r] \in Seq(EntryType) \ {<<>>} /\ req[r].entry \in 1 .. Len(Entries[r])
    BY <1>1, TraceAssumption DEF Types
  <2>2. Len(Entries[r]) \in Nat \ {0}
    BY <2>1
  <2>3. k \in Nat /\ pc \in {"open", "stopped"} /\ e \in 1 .. Len(Entries[r])
    BY <1>1, <2>1, <2>2 DEF ReqType
  <2>4. new = [Idle EXCEPT !.sends = k, !.pc = pc, !.entry = e]
    BY DEF NextEntry
  <2> HIDE DEF k, pc, e, new
  <2>5. e \in Nat
    BY <2>3
  <2>6. /\ new \in ReqType /\ new.pc = pc /\ new.span = Idle.span /\ new.mine = Idle.mine
        /\ new.entry = e /\ new.sends = k
    BY <2>3, <2>4, <2>5, RowsTyped DEF ReqType, Pcs
  <2> QED
    BY <2>3, <2>6, RowsTyped DEF k
<1> HIDE DEF new, S, work
<1>6. req' \in [Requests -> ReqType] /\ req'[r] = new /\ \A q \in Requests \ {r} : req'[q] = req[q]
  BY <1>1, <1>5
<1>7. /\ \A t \in Ids \ {T} : SpansIn(stored', t) = SpansIn(stored, t) /\ traces'[t] = traces[t]
      /\ SpansIn(stored', T) = S /\ traces'[T] = work
  BY <1>1, <1>2 DEF SpansIn, Types
<1>8. Types'
  <2>1. stored' \subseteq SpanRows /\ IsFiniteSet(stored')
    <3>1. IsFiniteSet({s \in stored : s.trace # T})
      BY <1>1, FS_Subset DEF Types
    <3> QED
      BY <1>1, <1>2, <3>1, FS_Union DEF Types
  <2>2. traces' \in [Ids -> RowType] /\ lock' \in [Ids -> Requests \cup {Free}]
    BY <1>1, <1>4 DEF Types
  <2> QED
    BY <1>1, <1>5, <1>6, <2>1, <2>2, FS_EmptySet DEF Types
<1>9. \A t \in Ids : lock'[t] # r
  BY <1>1, TraceAssumption DEF Types, Good, InPlace
<1>10. Good(r)'
  <2>1. Trace(r)' \in Ids
    BY <1>8, EntryAgain
  <2> QED
    BY <1>5, <1>6, <1>9, <2>1, FreshGood
<1>11. work.status # "none" /\ work # NoRow
  BY <1>1 DEF Good, Named, NoRow, work
<1>12. \A s \in S : s \in stored \/ Uses(r, s.ref)
  BY <1>1 DEF S, Visible, Over, SpansIn, Good, Mine
<1>13. OnlyBy(r)
  <2>1. \A t \in Ids : \/ lock'[t] = lock[t]
                       \/ lock[t] \in {Free, r} /\ lock'[t] \in {Free, r}
    BY <1>1 DEF Holds, Types
  <2>2. \A t \in Ids : lock[t] # r => t # T
    BY <1>1 DEF Holds
  <2>3. \A t \in Ids : traces[t] # NoRow => traces'[t] # NoRow
    BY <1>7, <1>11
  <2>4. \A s \in stored' : s \in stored \/ Uses(r, s.ref)
    BY <1>1, <1>12
  <2> QED
    BY <1>6, <1>7, <2>1, <2>2, <2>3, <2>4 DEF OnlyBy
<1>14. \A q \in Requests : Good(q)'
  BY <1>1, <1>10, <1>13, OthersGood DEF IInv
<1>15. RefsDiffer'
  <2>1. \A s, n \in S : s.ref = n.ref => s = n
    BY <1>1 DEF S, Visible, Over, SpansIn, Good, Mine, IInv, RefsDiffer
  <2> QED
    BY <1>1, <1>2, <2>1 DEF IInv, RefsDiffer
<1>16. RowsReal' /\ CountIsExact'
  <2>1. work.count = Cardinality(S)
    BY <1>1, <1>2 DEF Good, Counted, work
  <2> QED
    BY <1>7, <1>11, <2>1 DEF IInv, RowsReal, CountIsExact
<1>17. TracesSummed'
  <2>1. LockedFirst(T) => work.tokens = Sum(S) /\ work.status = StatusOf(S)
    BY <1>1, <1>2 DEF Good, Summed, work
  <2> QED
    BY <1>3, <1>7, <2>1 DEF IInv, TracesSummed, Written, LockedFirst, BareCalls
<1>18. StartsFirst'
  <2>1. \A s \in S : Kind[s.from] # "call" => work.start <= s.start
    BY <1>1 DEF Good, Started, work, S
  <2>2. ASSUME NEW s \in stored', Kind[s.from] # "call" PROVE traces'[s.trace].start <= s.start
    <3>1. CASE s \in S
      BY <1>2, <1>7, <2>1, <2>2, <3>1
    <3>2. CASE s \in stored /\ s.trace # T
      <4>1. s.trace \in Ids
        BY <1>1, <3>2 DEF Types, SpanRows
      <4> QED
        BY <1>7, <2>2, <3>2, <4>1 DEF IInv, StartsFirst
    <3> QED
      BY <1>1, <3>1, <3>2
  <2> QED
    BY <2>2 DEF StartsFirst
<1> QED
  BY <1>8, <1>14, <1>15, <1>16, <1>17, <1>18 DEF IInv

LEMMA NextKeeps == IInv /\ [Next]_vars => IInv'
<1> SUFFICES ASSUME IInv, [Next]_vars PROVE IInv'
  OBVIOUS
<1>1. CASE UNCHANGED vars
  <2> USE <1>1 DEF vars
  <2>1. Types' /\ RefsDiffer' /\ RowsReal' /\ CountIsExact' /\ StartsFirst'
    BY DEF IInv, Types, RefsDiffer, RowsReal, CountIsExact, StartsFirst
  <2>2. TracesSummed'
    BY DEF IInv, TracesSummed, Written, LockedFirst, BareCalls
  <2>3. ASSUME NEW r \in Requests PROVE Good(r)'
    <3>1. /\ Entry(r)' = Entry(r) /\ Trace(r)' = Trace(r) /\ Merges(r)' = Merges(r)
          /\ Visible(r)' = Visible(r) /\ TheSpan(r)' = TheSpan(r) /\ Holds(r)' = Holds(r)
      BY DEF Entry, Trace, Merges, Visible, TheSpan, Holds
    <3>2. SpanRow(r)' = SpanRow(r) /\ \A pc : At(r, pc)' = At(r, pc)
      BY <3>1 DEF SpanRow, At
    <3>3. Rolled(r)' = Rolled(r)
      BY <3>1, <3>2 DEF Rolled, At
    <3>4. InPlace(r)'
      BY <3>1 DEF IInv, Good, InPlace, At
    <3>5. Mine(r)'
      BY <3>1, <3>2 DEF IInv, Good, Mine, At, Uses
    <3>6. Counted(r)' /\ Summed(r)'
      BY <3>1, <3>3 DEF IInv, Good, Counted, Summed, At, LockedFirst, BareCalls
    <3>7. Started(r)' /\ Named(r)'
      BY <3>1 DEF IInv, Good, Started, Named
    <3> QED
      BY <3>4, <3>5, <3>6, <3>7 DEF Good
  <2> QED
    BY <2>1, <2>2, <2>3 DEF IInv
<1>2. ASSUME NEW r \in Requests, Send(r) \/ Step(r) \/ Dies(r) PROVE IInv'
  <2>1. CASE Send(r)
    BY <2>1, SendKeeps
  <2>2. CASE Step(r)
    BY <2>2, OpenKeeps, MergeKeeps, Append1Keeps, Append2Keeps, UpsertKeeps, CommitKeeps
       DEF Step
  <2>3. CASE Dies(r)
    BY <2>3, RollbackKeeps DEF Dies
  <2> QED
    BY <1>2, <2>1, <2>2, <2>3
<1> QED
  BY <1>1, <1>2 DEF Next

LEMMA IInvAlways == Spec => []IInv
<1> QED
  BY InitIInv, NextKeeps, PTL DEF Spec

-----------------------------------------------------------------------------
(***************************************************************************)
(* What follows.                                                           *)
(***************************************************************************)

\* The shapes; a row is locked by the transaction that changed it, whose entry it
\* is of (ingestTrace).
THEOREM TypeCorrect == Spec => []TypeOK
<1>1. IInv => TypeOK
  <2> SUFFICES ASSUME IInv PROVE TypeOK
    OBVIOUS
  <2>1. \A t \in Ids : traces[t] \in RowType
    BY DEF IInv, Types
  <2>2. ASSUME NEW t \in Ids, lock[t] # Free
        PROVE  req[lock[t]].pc \notin {"idle", "stopped", "open"} /\ Trace(lock[t]) = t
    BY <2>2 DEF IInv, Types, Good, InPlace, Writing
  <2> QED
    BY <2>1, <2>2 DEF IInv, Types, TypeOK, RowType
<1> QED
  BY <1>1, IInvAlways, PTL

\* span_count is the number of spans, however increments and recomputations of
\* different writers interleave and however often a request is sent (appendSpan,
\* upsertSpan).
THEOREM CountsSpans == Spec => []CountIsExact
<1>1. IInv => CountIsExact
  BY DEF IInv
<1> QED
  BY <1>1, IInvAlways, PTL

\* Tokens and status are those of the spans, on every trace whose writers lock
\* its row before they read it (mergeTraceContext comes first).
THEOREM RollsUp == Spec => []RollupIsExact
<1>1. IInv => RollupIsExact
  BY DEF IInv, TracesSummed, StatusOf, RollupIsExact
<1> QED
  BY <1>1, IInvAlways, PTL

\* A trace starts no later than any span reported for it (mergeTraceContext:
\* LEAST(started_at, ...)).
THEOREM StartsEarliest == Spec => []StartsFirst
<1>1. IInv => StartsFirst
  BY DEF IInv
<1> QED
  BY <1>1, IInvAlways, PTL

\* No step replaces a committed name by a weaker one: the name that is committed
\* is at least the one that was read under the lock.
THEOREM NamesOnlyImprove == Spec => NamesImprove
<1> DEFINE Improves == \A t \in Ids : Rank(traces'[t].name) >= Rank(traces[t].name)
<1>1. IInv /\ [Next]_vars => [Improves]_vars
  <2> SUFFICES ASSUME IInv, [Next]_vars PROVE Improves
    OBVIOUS
  <2>1. \A t \in Ids : Rank(traces[t].name) \in 0 .. 3
    BY RankTyped DEF IInv, Types, RowType
  <2>2. CASE UNCHANGED traces
    BY <2>1, <2>2
  <2>3. ASSUME NEW r \in Requests, Commit(r) PROVE Improves
    <3>1. Holds(r) /\ Named(r) /\ Trace(r) \in Ids
      BY <2>3, EntryTyped DEF Commit, IInv, Good, InPlace
    <3> QED
      BY <2>1, <2>3, <3>1 DEF Commit, Named, IInv, Types
  <2>4. ASSUME NEW r \in Requests, Send(r) \/ Step(r) \/ Dies(r) PROVE UNCHANGED traces \/ Commit(r)
    BY <2>4 DEF Send, Step, Dies, Rollback, Open, Merge, Append1, Append2, Upsert
  <2> QED
    BY <2>2, <2>3, <2>4 DEF Next, vars
<1> QED
  BY <1>1, IInvAlways, PTL DEF Spec, NamesImprove
=============================================================================
