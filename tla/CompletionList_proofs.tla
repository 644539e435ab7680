------------------------- MODULE CompletionList_proofs -------------------------
(***************************************************************************)
(* For every text, cursor, list of diagnostics and list of results: the    *)
(* filter is the whole identifier before the cursor, a document has the    *)
(* first errors, the comparator is a strict weak order, the sort has       *)
(* exactly one result, and the list holds the best results in order.       *)
(***************************************************************************)
EXTENDS CompletionList, FiniteSetTheorems, TLAPS

(* The scan has only passed bytes of names, and stopped at another one.    *)
Scanned ==
  /\ phase = "validating" => identifierStart = request.offset
  /\ phase \notin {"validating", "rejected"} =>
       /\ AcceptsOffset
       /\ \A k \in identifierStart..(request.offset - 1) : IsIdentifierByte(Byte(k))
  /\ phase \notin {"validating", "scanning", "rejected"} /\ identifierStart > 0 =>
       ~IsIdentifierByte(Byte(identifierStart - 1))

(* The errors are the first of those among the first diagnostics.          *)
ErrorsAmong(list, count) ==
  /\ \A k \in 1..Len(list) : request.diagnostics[list[k]] = "error" /\ list[k] <= count
  /\ \A j, k \in 1..Len(list) : j < k => list[j] < list[k]
  /\ \A n \in 1..count :
       request.diagnostics[n] = "error" /\ n \notin Elements(list) =>
         Len(list) = MaximumErrors /\ \A k \in 1..Len(list) : list[k] < n

ErrorsKept ==
  /\ Len(errors) <= MaximumErrors
  /\ phase \in {"validating", "scanning"} => errors = <<>> /\ next = 1
  /\ phase = "completing" => next <= Len(request.diagnostics) + 1 /\ ErrorsAmong(errors, next - 1)
  /\ phase \in {"filtering", "ranked"} \union (Answered \ {"rejected"}) =>
       ErrorsAmong(errors, Len(request.diagnostics))

(* The results that stay among the first ones.                             *)
StayAmong(count) == { i \in 1..count : ~LeavesOut(request.results[i]) }

Hidden(count) == IF Filtering THEN 0 ELSE count - Len(ranked)

(* Each ranked result goes before those after it.                          *)
Sorted ==
  \A m, n \in 1..Len(ranked), i, j \in Eligible :
    m < n /\ ranked[m] = i /\ ranked[n] = j => GoesFirst(i, j)

ResultsKept ==
  /\ phase \in {"validating", "scanning", "completing", "rejected"} => ranked = <<>> /\ hidden = 0
  /\ phase = "filtering" =>
       /\ next <= Len(request.results) + 1
       /\ Elements(ranked) = StayAmong(next - 1)
       /\ \A m, n \in 1..Len(ranked) : m < n => ranked[m] < ranked[n]
       /\ hidden = Hidden(next - 1)
  /\ phase \in {"ranked", "listed"} =>
       /\ Sorted
       /\ Elements(ranked) \subseteq Eligible
       /\ matched = Cardinality(Eligible)
       /\ hidden = IF Filtering THEN 0 ELSE Len(request.results) - matched
  /\ phase = "ranked" => Elements(ranked) = Eligible
  /\ phase = "listed" =>
       /\ Len(ranked) < request.maximumResults => Elements(ranked) = Eligible
       /\ \A i, j \in Eligible :
            i \notin Elements(ranked) /\ j \in Elements(ranked) => GoesFirst(j, i)

(* The inductive invariant.                                                *)
IInv == TypeOK /\ Scanned /\ ErrorsKept /\ ResultsKept

-----------------------------------------------------------------------------
(* The comparator.                                                         *)

(* The order of two keys, written out.                                     *)
Ahead(a1, a2, a3, a4, b1, b2, b3, b4) ==
  \/ a1 > b1
  \/ a1 = b1 /\ a2 > b2
  \/ a1 = b1 /\ a2 = b2 /\ a3 > b3
  \/ a1 = b1 /\ a2 = b2 /\ a3 = b3 /\ a4 > b4

(* A key has four numbers (lines 337-359).                                 *)
LEMMA KeyType ==
  ASSUME NEW r \in AnyResult
  PROVE  Key(r)[1] \in Int /\ Key(r)[2] \in Int /\ Key(r)[3] \in Int /\ Key(r)[4] \in Int
<1>1. /\ Key(r)[1] = Demoted(MetaBucket(r)) /\ Key(r)[2] = Demoted(KindBucket(r))
      /\ Key(r)[3] = Score(r) /\ Key(r)[4] = 0 - r.name
  BY DEF Key
<1>2. KindBucket(r) \in Int
  BY DEF KindBucket, Normal, Literal, NormalTypeMatch, LiteralTypeMatch, HighPriorityKeyword, Operator
<1>3. MetaBucket(r) \in Int
  BY <1>2 DEF MetaBucket, ExactMatch, NotRecommended, ExpressionSpecific
<1>4. \A b \in Int : Demoted(b) \in Int
  BY DEF Demoted, Normal
<1>5. r.matchScore \in Nat /\ r.context \in Nat /\ r.name \in Nat
  BY DEF AnyResult
<1>6. Score(r) \in Int /\ 0 - r.name \in Int
  BY <1>5 DEF Score
<1> QED
  BY <1>1, <1>2, <1>3, <1>4, <1>6

LEMMA BeforeIsAhead ==
  ASSUME NEW a \in AnyResult, NEW b \in AnyResult
  PROVE  Before(a, b) <=> Ahead(Key(a)[1], Key(a)[2], Key(a)[3], Key(a)[4],
                                Key(b)[1], Key(b)[2], Key(b)[3], Key(b)[4])
<1> DEFINE Decides(n) == Key(a)[n] > Key(b)[n] /\ \A m \in 1..(n - 1) : Key(a)[m] = Key(b)[m]
<1>1. Before(a, b) <=> \E n \in 1..4 : Decides(n)
  BY DEF Before
<1>2. 1..4 = {1, 2, 3, 4}
  OBVIOUS
<1>3. Decides(1) <=> Key(a)[1] > Key(b)[1]
  OBVIOUS
<1>4. Decides(2) <=> Key(a)[2] > Key(b)[2] /\ Key(a)[1] = Key(b)[1]
  <2>1. 1..(2 - 1) = {1}
    OBVIOUS
  <2> QED
    BY <2>1
<1>5. Decides(3) <=> Key(a)[3] > Key(b)[3] /\ Key(a)[1] = Key(b)[1] /\ Key(a)[2] = Key(b)[2]
  <2>1. 1..(3 - 1) = {1, 2}
    OBVIOUS
  <2> QED
    BY <2>1
<1>6. Decides(4) <=> /\ Key(a)[4] > Key(b)[4] /\ Key(a)[1] = Key(b)[1]
                     /\ Key(a)[2] = Key(b)[2] /\ Key(a)[3] = Key(b)[3]
  <2>1. 1..(4 - 1) = {1, 2, 3}
    OBVIOUS
  <2> QED
    BY <2>1
<1> HIDE DEF Decides
<1> QED
  BY <1>1, <1>2, <1>3, <1>4, <1>5, <1>6 DEF Ahead

(* Before is a strict weak order on results (lines 344-359).               *)
LEMMA Asymmetric ==
  ASSUME NEW a \in AnyResult, NEW b \in AnyResult
  PROVE  Before(a, b) => ~Before(b, a)
BY BeforeIsAhead, KeyType DEF Ahead

LEMMA Transitive ==
  ASSUME NEW a \in AnyResult, NEW b \in AnyResult, NEW c \in AnyResult
  PROVE  Before(a, b) /\ Before(b, c) => Before(a, c)
BY BeforeIsAhead, KeyType DEF Ahead

LEMMA TiesTransitive ==
  ASSUME NEW a \in AnyResult, NEW b \in AnyResult, NEW c \in AnyResult
  PROVE  Tied(a, b) /\ Tied(b, c) => Tied(a, c)
BY BeforeIsAhead, KeyType DEF Ahead, Tied

-----------------------------------------------------------------------------
(* Requests.                                                               *)

LEMMA RequestParts ==
  ASSUME TypeOK
  PROVE  /\ request.source \in Seq(Bytes) /\ Len(request.source) \in Nat
         /\ request.offset \in Nat
         /\ request.maximumResults \in Nat \ {0}
         /\ request.diagnostics \in Seq({"error", "other"}) /\ Len(request.diagnostics) \in Nat
         /\ request.results \in Seq(AnyResult) /\ Len(request.results) \in Nat
         /\ request.outcome \in Outcomes
         /\ \A i \in 1..Len(request.results) : request.results[i] \in AnyResult
         /\ \A k \in 0..(Len(request.source) - 1) : Byte(k) \in Bytes
<1>1. /\ request.source \in Seq(Bytes) /\ request.offset \in Nat
      /\ request.maximumResults \in Nat \ {0}
      /\ request.diagnostics \in Seq({"error", "other"})
      /\ request.results \in Seq(AnyResult) /\ request.outcome \in Outcomes
  BY DEF TypeOK, AnyRequest
<1>2. \A k \in 0..(Len(request.source) - 1) : Byte(k) \in Bytes
  <2> SUFFICES ASSUME NEW k \in 0..(Len(request.source) - 1) PROVE Byte(k) \in Bytes
    OBVIOUS
  <2>1. k + 1 \in 1..Len(request.source)
    BY <1>1
  <2> QED
    BY <1>1, <2>1 DEF Byte
<1> QED
  BY <1>1, <1>2

(* Where the scan has stopped, the identifier is whole (lines 418-423).    *)
LEMMA ScannedIsWhole == TypeOK /\ Scanned => WholeIdentifier
<1> SUFFICES ASSUME TypeOK, Scanned, phase \notin {"validating", "scanning", "rejected"}
             PROVE  /\ \A k \in identifierStart..(request.offset - 1) : Byte(k) # "other"
                    /\ identifierStart > 0 => Byte(identifierStart - 1) = "other"
                    /\ IsBoundary(identifierStart) /\ IsBoundary(request.offset)
  BY DEF WholeIdentifier
<1>1. /\ request.offset \in Nat /\ Len(request.source) \in Nat
      /\ request.offset <= Len(request.source)
      /\ identifierStart \in 0..request.offset
      /\ request.offset < Len(request.source) => Byte(request.offset) # "continuation"
  BY RequestParts DEF TypeOK, Scanned, AcceptsOffset
<1>2. IsBoundary(request.offset)
  BY <1>1 DEF IsBoundary
<1>3. \A k \in identifierStart..(request.offset - 1) : Byte(k) # "other"
  BY DEF Scanned, IsIdentifierByte
<1>4. identifierStart > 0 => Byte(identifierStart - 1) = "other"
  <2> SUFFICES ASSUME identifierStart > 0 PROVE Byte(identifierStart - 1) = "other"
    OBVIOUS
  <2>1. identifierStart - 1 \in 0..(Len(request.source) - 1)
    BY <1>1
  <2>2. Byte(identifierStart - 1) \in Bytes /\ ~IsIdentifierByte(Byte(identifierStart - 1))
    BY <2>1, RequestParts DEF Scanned
  <2> QED
    BY <2>2 DEF Bytes, IsIdentifierByte
<1>5. IsBoundary(identifierStart)
  <2>1. CASE identifierStart = request.offset
    BY <1>2, <2>1
  <2>2. CASE identifierStart < request.offset
    <3> SUFFICES ASSUME Byte(identifierStart) = "continuation" PROVE FALSE
      BY DEF IsBoundary
    <3>1. identifierStart + 1 \in 1..Len(request.source)
      BY <1>1, <2>2
    <3>2. /\ identifierStart + 1 > 1
          /\ request.source[(identifierStart + 1) - 1] \in {"lead", "continuation"}
      BY <3>1 DEF TypeOK, IsText, Byte
    <3>3. Byte(identifierStart - 1) = request.source[(identifierStart + 1) - 1]
      BY <1>1 DEF Byte
    <3> QED
      BY <1>1, <1>4, <3>2, <3>3
  <2> QED
    BY <1>1, <2>1, <2>2
<1> QED
  BY <1>2, <1>3, <1>4, <1>5

-----------------------------------------------------------------------------
(* Lists.                                                                  *)

LEMMA Appended ==
  ASSUME NEW S, NEW s \in Seq(S), NEW e \in S
  PROVE  /\ Append(s, e) \in Seq(S) /\ Len(s) \in Nat
         /\ Len(Append(s, e)) = Len(s) + 1
         /\ 1..Len(Append(s, e)) = 1..Len(s) \union {Len(s) + 1}
         /\ \A n \in 1..Len(s) : Append(s, e)[n] = s[n] /\ s[n] \in S
         /\ Append(s, e)[Len(s) + 1] = e
         /\ Elements(Append(s, e)) = Elements(s) \union {e}
<1>1. /\ Append(s, e) \in Seq(S) /\ Len(s) \in Nat
      /\ Len(Append(s, e)) = Len(s) + 1
      /\ \A n \in 1..Len(s) : Append(s, e)[n] = s[n] /\ s[n] \in S
      /\ Append(s, e)[Len(s) + 1] = e
  OBVIOUS
<1>2. 1..Len(Append(s, e)) = 1..Len(s) \union {Len(s) + 1}
  BY <1>1
<1> DEFINE t == Append(s, e)
<1>3. /\ \A n \in 1..Len(s) : t[n] = s[n]
      /\ t[Len(s) + 1] = e /\ 1..Len(t) = 1..Len(s) \union {Len(s) + 1}
  BY <1>1, <1>2
<1> HIDE DEF t
<1>4. { t[n] : n \in 1..Len(t) } = { s[n] : n \in 1..Len(s) } \union {e}
  BY <1>3
<1>5. Elements(t) = Elements(s) \union {e}
  BY <1>4 DEF Elements
<1> QED
  BY <1>1, <1>2, <1>5 DEF t

(* A number beyond those of an increasing list extends it.                 *)
LEMMA AppendedIncreases ==
  ASSUME NEW s \in Seq(Nat), NEW e \in Nat, \A n \in 1..Len(s) : s[n] < e,
         \A m, n \in 1..Len(s) : m < n => s[m] < s[n]
  PROVE  \A m, n \in 1..Len(Append(s, e)) : m < n => Append(s, e)[m] < Append(s, e)[n]
<1> SUFFICES ASSUME NEW m \in 1..Len(Append(s, e)), NEW n \in 1..Len(Append(s, e)), m < n
             PROVE  Append(s, e)[m] < Append(s, e)[n]
  OBVIOUS
<1>1. m \in 1..Len(s) /\ Append(s, e)[m] = s[m]
  BY Appended
<1>2. CASE n \in 1..Len(s)
  BY <1>1, <1>2
<1>3. CASE n = Len(s) + 1
  BY <1>1, <1>3
<1> QED
  BY <1>1, <1>2, <1>3, Appended

(* The collector keeps the first errors (lines 67-76).                     *)
LEMMA ErrorsNext ==
  ASSUME TypeOK, next \in 1..Len(request.diagnostics), ErrorsAmong(errors, next - 1),
         errors' = IF Collects(next) THEN Append(errors, next) ELSE errors,
         Len(errors) <= MaximumErrors
  PROVE  ErrorsAmong(errors', next) /\ Len(errors') <= MaximumErrors
<1>1. /\ errors \in Seq(1..Len(request.diagnostics)) /\ errors \in Seq(Nat) /\ Len(errors) \in Nat
      /\ next \in Nat /\ MaximumErrors \in Nat /\ Len(request.diagnostics) \in Nat
      /\ \A k \in 1..Len(errors) : errors[k] \in Nat
  <2>1. errors \in Seq(1..Len(request.diagnostics)) /\ Len(request.diagnostics) \in Nat
    BY RequestParts DEF TypeOK
  <2> QED
    BY <2>1, ListAssumption, SMTT(60) DEF TypeOK
<1>2. \A k \in 1..Len(errors) : errors[k] < next
  BY <1>1 DEF ErrorsAmong
<1>3. \A n \in 1..next : n \in 1..(next - 1) \/ n = next
  BY <1>1
<1>4. CASE Collects(next)
  <2>1. errors' = Append(errors, next) /\ request.diagnostics[next] = "error"
        /\ Len(errors) < MaximumErrors
    BY <1>4 DEF Collects
  <2>2. /\ Len(errors') = Len(errors) + 1
        /\ 1..Len(errors') = 1..Len(errors) \union {Len(errors) + 1}
        /\ \A n \in 1..Len(errors) : errors'[n] = errors[n]
        /\ errors'[Len(errors) + 1] = next
        /\ Elements(errors') = Elements(errors) \union {next}
    BY <1>1, <2>1, Appended
  <2>3. \A m, n \in 1..Len(errors') : m < n => errors'[m] < errors'[n]
    BY <1>1, <1>2, <2>1, AppendedIncreases DEF ErrorsAmong
  <2>4. \A k \in 1..Len(errors') : request.diagnostics[errors'[k]] = "error" /\ errors'[k] <= next
    BY <1>1, <1>2, <2>1, <2>2, SMTT(60) DEF ErrorsAmong
  <2>5. \A n \in 1..next : request.diagnostics[n] = "error" => n \in Elements(errors')
    BY <1>1, <1>3, <2>1, <2>2, SMTT(60) DEF ErrorsAmong
  <2> QED
    BY <1>1, <2>1, <2>2, <2>3, <2>4, <2>5, SMTT(60) DEF ErrorsAmong
<1>5. CASE ~Collects(next)
  <2>1. errors' = errors
    BY <1>5
  <2>2. request.diagnostics[next] = "error" => Len(errors) = MaximumErrors
    BY <1>1, <1>5 DEF Collects
  <2> QED
    BY <1>1, <1>2, <1>3, <2>1, <2>2, SMTT(60) DEF ErrorsAmong
<1> QED
  BY <1>4, <1>5

(* One more result is considered (lines 316-336).                          *)
LEMMA StayNext ==
  ASSUME NEW n \in Nat \ {0}
  PROVE  StayAmong(n) = StayAmong(n - 1)
                          \union (IF LeavesOut(request.results[n]) THEN {} ELSE {n})
<1>1. 1..n = 1..(n - 1) \union {n}
  OBVIOUS
<1> QED
  BY <1>1 DEF StayAmong

(* A list without repetition is as long as its set of elements.            *)
LEMMA Counted ==
  ASSUME NEW S, NEW s \in Seq(S), \A m, n \in 1..Len(s) : s[m] = s[n] => m = n
  PROVE  Cardinality(Elements(s)) = Len(s)
<1>1. Len(s) \in Nat /\ IsFiniteSet(1..Len(s)) /\ Cardinality(1..Len(s)) = Len(s)
  <2>1. Len(s) \in Nat
    OBVIOUS
  <2>2. /\ IsFiniteSet(1..Len(s))
        /\ Cardinality(1..Len(s)) = IF 1 > Len(s) THEN 0 ELSE Len(s) - 1 + 1
    <3>1. 1 \in Int /\ Len(s) \in Int
      BY <2>1
    <3> QED
      BY <3>1, FS_Interval, Zenon
  <2>3. (IF 1 > Len(s) THEN 0 ELSE Len(s) - 1 + 1) = Len(s)
    BY <2>1
  <2> QED
    BY <2>1, <2>2, <2>3
<1>2. ExistsBijection(1..Len(s), Elements(s))
  <2> DEFINE f == [n \in 1..Len(s) |-> s[n]]
  <2>1. \A n \in 1..Len(s) : f[n] = s[n] /\ s[n] \in Elements(s)
    BY DEF Elements
  <2>2. f \in [1..Len(s) -> Elements(s)]
    BY <2>1
  <2>3. \A e \in Elements(s) : \E n \in 1..Len(s) : f[n] = e
    BY <2>1 DEF Elements
  <2>4. \A m, n \in 1..Len(s) : f[m] = f[n] => m = n
    BY <2>1
  <2> HIDE DEF f
  <2>5. DOMAIN f = 1..Len(s)
    BY <2>2
  <2>6. f \in Injection(1..Len(s), Elements(s))
    BY <2>2, <2>4, <2>5 DEF Injection, IsInjective
  <2>7. f \in Surjection(1..Len(s), Elements(s))
    BY <2>2, <2>3 DEF Surjection
  <2>8. f \in Bijection(1..Len(s), Elements(s))
    BY <2>6, <2>7 DEF Bijection
  <2> QED
    BY <2>8 DEF ExistsBijection
<1>3. Cardinality(1..Len(s)) = Cardinality(Elements(s))
  BY <1>1, <1>2, FS_Bijection
<1> QED
  BY <1>1, <1>3

-----------------------------------------------------------------------------
(* The order of the items.                                                 *)

Results == 1..Len(request.results)

(* The comparator and the place together leave no tie: on the results of a *)
(* request, GoesFirst is a strict total order.                             *)
LEMMA TotalOrder ==
  ASSUME TypeOK
  PROVE  /\ \A i \in Results : ~GoesFirst(i, i)
         /\ \A i, j \in Results : GoesFirst(i, j) => ~GoesFirst(j, i)
         /\ \A i, j \in Results : i # j => GoesFirst(i, j) \/ GoesFirst(j, i)
         /\ \A i, j, k \in Results : GoesFirst(i, j) /\ GoesFirst(j, k) => GoesFirst(i, k)
<1>1. \A i \in Results : i \in Nat /\ request.results[i] \in AnyResult
  BY RequestParts DEF Results
<1>2. \A i, j \in Results : GoesFirst(i, j) => ~GoesFirst(j, i)
  BY <1>1, Asymmetric DEF GoesFirst
<1>3. \A i, j \in Results : i # j => GoesFirst(i, j) \/ GoesFirst(j, i)
  BY <1>1 DEF GoesFirst
<1>4. ASSUME NEW i \in Results, NEW j \in Results, NEW k \in Results,
             GoesFirst(i, j), GoesFirst(j, k)
      PROVE  GoesFirst(i, k)
  <2> DEFINE a == request.results[i]
             b == request.results[j]
             c == request.results[k]
  <2>1. /\ a \in AnyResult /\ b \in AnyResult /\ c \in AnyResult
        /\ i \in Nat /\ j \in Nat /\ k \in Nat
    BY <1>1
  <2>2. /\ Before(a, b) \/ (~Before(b, a) /\ i < j)
        /\ Before(b, c) \/ (~Before(c, b) /\ j < k)
    BY <1>4 DEF GoesFirst
  <2> HIDE DEF a, b, c
  <2>3. Before(a, c) \/ (~Before(c, a) /\ i < k)
    BY <2>1, <2>2, BeforeIsAhead, KeyType DEF Ahead
  <2> QED
    BY <2>3 DEF GoesFirst, a, b, c
<1> QED
  BY <1>2, <1>3, <1>4

(* The results of a set that go before one.                                *)
Firsts(i, S) == { j \in S : GoesFirst(j, i) }

(* Where a list holds the first results of a set in order, the n-th has    *)
(* n - 1 results before it.                                                *)
LEMMA PlaceIsRank ==
  ASSUME TypeOK, NEW S \in SUBSET Results, NEW u \in Seq(S),
         \A m, n \in 1..Len(u) : m < n => GoesFirst(u[m], u[n]),
         \A i \in S \ Elements(u), n \in 1..Len(u) : GoesFirst(u[n], i),
         NEW n \in 1..Len(u)
  PROVE  Cardinality(Firsts(u[n], S)) = n - 1
<1> DEFINE v == [m \in 1..(n - 1) |-> u[m]]
<1>1. /\ Len(u) \in Nat /\ n \in Nat /\ n - 1 \in Nat
      /\ \A m \in 1..Len(u) : u[m] \in S /\ u[m] \in Results
      /\ \A m \in 1..(n - 1) : m \in 1..Len(u) /\ m < n
  OBVIOUS
<1>2. v \in Seq(S) /\ Len(v) = n - 1 /\ \A m \in 1..(n - 1) : v[m] = u[m]
  BY <1>1
<1> HIDE DEF v
<1>3. \A k, m \in 1..Len(v) : v[k] = v[m] => k = m
  <2> SUFFICES ASSUME NEW k \in 1..Len(v), NEW m \in 1..Len(v), v[k] = v[m], k # m
               PROVE  FALSE
    OBVIOUS
  <2>1. k \in 1..Len(u) /\ m \in 1..Len(u) /\ u[k] = u[m] /\ (k < m \/ m < k)
    BY <1>1, <1>2
  <2>2. GoesFirst(u[k], u[k])
    BY <2>1
  <2> QED
    BY <1>1, <2>1, <2>2, TotalOrder
<1>4. Cardinality(Elements(v)) = n - 1
  BY <1>2, <1>3, Counted
<1>5. ASSUME NEW j \in Elements(v) PROVE j \in Firsts(u[n], S)
  <2>1. PICK m \in 1..(n - 1) : j = u[m]
    BY <1>2 DEF Elements
  <2> QED
    BY <1>1, <2>1 DEF Firsts
<1>6. ASSUME NEW j \in Firsts(u[n], S) PROVE j \in Elements(v)
  <2>1. j \in S /\ j \in Results /\ GoesFirst(j, u[n]) /\ ~GoesFirst(u[n], j)
    BY <1>1, TotalOrder DEF Firsts
  <2>2. j \in Elements(u)
    BY <2>1
  <2>3. PICK m \in 1..Len(u) : u[m] = j
    BY <2>2 DEF Elements
  <2>4. m # n /\ ~(n < m)
    BY <1>1, <2>1, <2>3, TotalOrder
  <2>5. m \in 1..(n - 1)
    BY <1>1, <2>4
  <2> QED
    BY <1>2, <2>3, <2>5 DEF Elements
<1>7. Firsts(u[n], S) = Elements(v)
  BY <1>5, <1>6
<1> QED
  BY <1>4, <1>7

(* A result that goes before another has fewer results before it.          *)
LEMMA RankIncreases ==
  ASSUME TypeOK, NEW S \in SUBSET Results, NEW i \in S, NEW j \in S, GoesFirst(i, j)
  PROVE  /\ Cardinality(Firsts(i, S)) \in Nat /\ Cardinality(Firsts(j, S)) \in Nat
         /\ Cardinality(Firsts(i, S)) < Cardinality(Firsts(j, S))
<1>1. IsFiniteSet(S)
  <2>1. 1 \in Int /\ Len(request.results) \in Int
    BY RequestParts
  <2>2. IsFiniteSet(Results)
    BY <2>1, FS_Interval, Zenon DEF Results
  <2> QED
    BY <2>2, FS_Subset, Zenon
<1>2. IsFiniteSet(Firsts(i, S)) /\ IsFiniteSet(Firsts(j, S))
  <2>1. Firsts(i, S) \in SUBSET S /\ Firsts(j, S) \in SUBSET S
    BY DEF Firsts
  <2> QED
    BY <1>1, <2>1, FS_Subset, Zenon
<1>3. i \notin Firsts(i, S)
  BY TotalOrder DEF Firsts
<1>4. /\ IsFiniteSet(Firsts(i, S) \union {i})
      /\ Cardinality(Firsts(i, S) \union {i}) = Cardinality(Firsts(i, S)) + 1
  BY <1>2, <1>3, FS_AddElement, Zenon
<1>5. Firsts(i, S) \union {i} \in SUBSET Firsts(j, S)
  BY TotalOrder DEF Firsts
<1>6. Cardinality(Firsts(i, S) \union {i}) <= Cardinality(Firsts(j, S))
  BY <1>2, <1>5, FS_Subset, Zenon
<1>7. Cardinality(Firsts(i, S)) \in Nat /\ Cardinality(Firsts(j, S)) \in Nat
  BY <1>2, FS_CardinalityType, Zenon
<1> QED
  BY <1>4, <1>6, <1>7

(* Hence two results of a set differ in how many go before them.           *)
LEMMA RankIsUnique ==
  ASSUME TypeOK, NEW S \in SUBSET Results, NEW i \in S, NEW j \in S,
         Cardinality(Firsts(i, S)) = Cardinality(Firsts(j, S))
  PROVE  i = j
<1> SUFFICES ASSUME i # j PROVE FALSE
  OBVIOUS
<1>1. GoesFirst(i, j) \/ GoesFirst(j, i)
  BY TotalOrder
<1>2. CASE GoesFirst(i, j)
  BY <1>2, RankIncreases
<1>3. CASE GoesFirst(j, i)
  BY <1>3, RankIncreases
<1> QED
  BY <1>1, <1>2, <1>3

(* And every number below the set's size is how many go before one of its  *)
(* results.                                                                *)
LEMMA RankIsTaken ==
  ASSUME TypeOK, NEW S \in SUBSET Results, NEW n \in 1..Cardinality(S)
  PROVE  \E i \in S : Cardinality(Firsts(i, S)) = n - 1
<1> DEFINE size == Cardinality(S)
           rank == [i \in S |-> Cardinality(Firsts(i, S)) + 1]
<1>1. IsFiniteSet(S) /\ size \in Nat
  <2>1. 1 \in Int /\ Len(request.results) \in Int
    BY RequestParts
  <2>2. IsFiniteSet(Results)
    BY <2>1, FS_Interval, Zenon DEF Results
  <2>3. IsFiniteSet(S)
    BY <2>2, FS_Subset, Zenon
  <2> QED
    BY <2>3, FS_CardinalityType, Zenon
<1>2. ASSUME NEW i \in S
      PROVE  Cardinality(Firsts(i, S)) \in Nat /\ Cardinality(Firsts(i, S)) + 1 <= size
  <2>1. Firsts(i, S) \in SUBSET S /\ i \notin Firsts(i, S)
    BY TotalOrder DEF Firsts
  <2>2. IsFiniteSet(Firsts(i, S))
    BY <1>1, <2>1, FS_Subset, Zenon
  <2>3. /\ IsFiniteSet(Firsts(i, S) \union {i})
        /\ Cardinality(Firsts(i, S) \union {i}) = Cardinality(Firsts(i, S)) + 1
    BY <2>1, <2>2, FS_AddElement, Zenon
  <2>4. Firsts(i, S) \union {i} \in SUBSET S
    BY <2>1
  <2>5. Cardinality(Firsts(i, S) \union {i}) <= size
    BY <1>1, <2>4, FS_Subset, Zenon
  <2>6. Cardinality(Firsts(i, S)) \in Nat
    BY <2>2, FS_CardinalityType, Zenon
  <2> QED
    BY <2>3, <2>5, <2>6
<1> HIDE DEF size
<1>3. rank \in [S -> 1..size]
  <2>1. \A i \in S : Cardinality(Firsts(i, S)) + 1 \in 1..size
    BY <1>1, <1>2
  <2> QED
    BY <2>1
<1>4. ASSUME NEW i \in S, NEW j \in S, rank[i] = rank[j] PROVE i = j
  <2>1. Cardinality(Firsts(i, S)) = Cardinality(Firsts(j, S))
    BY <1>2, <1>4
  <2> QED
    BY <2>1, RankIsUnique
<1>5. rank \in Injection(S, 1..size)
  <2> HIDE DEF rank
  <2> QED
    BY <1>3, <1>4 DEF Injection, IsInjective
<1>6. IsFiniteSet(1..size) /\ Cardinality(1..size) = size
  <2>1. 1 \in Int /\ size \in Int
    BY <1>1
  <2>2. /\ IsFiniteSet(1..size)
        /\ Cardinality(1..size) = IF 1 > size THEN 0 ELSE size - 1 + 1
    BY <2>1, FS_Interval, Zenon
  <2>3. (IF 1 > size THEN 0 ELSE size - 1 + 1) = size
    BY <1>1
  <2> QED
    BY <2>2, <2>3
<1>7. rank \in Surjection(S, 1..size)
  <2> HIDE DEF rank
  <2>1. Cardinality(S) = Cardinality(1..size)
    BY <1>6 DEF size
  <2> QED
    BY <1>5, <1>6, <2>1, FS_Injection, Zenon
<1>8. n \in 1..size
  BY DEF size
<1>9. PICK i \in S : rank[i] = n
  <2> HIDE DEF rank
  <2> QED
    BY <1>7, <1>8 DEF Surjection
<1>10. Cardinality(Firsts(i, S)) = n - 1
  BY <1>2, <1>9
<1> QED
  BY <1>10

(* A list without repetition has exactly one stable order.                 *)
LEMMA StableOrderUnique ==
  ASSUME TypeOK, NEW s \in Seq(Results), \A m, n \in 1..Len(s) : s[m] = s[n] => m = n
  PROVE  \E t : StableOrders(s) = {t}
<1> DEFINE S == Elements(s)
<1>1. S \in SUBSET Results /\ Len(s) \in Nat /\ Cardinality(S) = Len(s)
  BY Counted DEF Elements
<1> HIDE DEF S
<1> DEFINE t == [n \in 1..Len(s) |-> CHOOSE i \in S : Cardinality(Firsts(i, S)) = n - 1]
<1>2. \A n \in 1..Len(s) : t[n] \in S /\ Cardinality(Firsts(t[n], S)) = n - 1
  <2> SUFFICES ASSUME NEW n \in 1..Len(s)
               PROVE  t[n] \in S /\ Cardinality(Firsts(t[n], S)) = n - 1
    OBVIOUS
  <2>1. \E i \in S : Cardinality(Firsts(i, S)) = n - 1
    BY <1>1, RankIsTaken
  <2> QED
    BY <2>1, Zenon
<1>3. t \in [1..Len(s) -> S]
  BY <1>2
<1> HIDE DEF t
<1>4. \A m, n \in 1..Len(s) : m < n => GoesFirst(t[m], t[n])
  <2> SUFFICES ASSUME NEW m \in 1..Len(s), NEW n \in 1..Len(s), m < n, ~GoesFirst(t[m], t[n])
               PROVE  FALSE
    OBVIOUS
  <2>1. t[m] \in Results /\ t[n] \in Results /\ t[m] # t[n]
    BY <1>1, <1>2
  <2>2. GoesFirst(t[n], t[m])
    BY <2>1, TotalOrder
  <2>3. Cardinality(Firsts(t[n], S)) < Cardinality(Firsts(t[m], S))
    BY <1>1, <1>2, <2>2, RankIncreases
  <2> QED
    BY <1>2, <2>3
<1>5. t \in Seq(S) /\ Len(t) = Len(s)
  BY <1>1, <1>3
<1>6. Elements(t) = S
  <2>1. Elements(t) \in SUBSET S
    BY <1>2, <1>5 DEF Elements
  <2>2. \A m, n \in 1..Len(t) : t[m] = t[n] => m = n
    BY <1>1, <1>2, <1>5
  <2>3. Cardinality(Elements(t)) = Cardinality(S)
    BY <1>1, <1>5, <2>2, Counted
  <2>4. IsFiniteSet(S)
    <3>1. 1 \in Int /\ Len(request.results) \in Int
      BY RequestParts
    <3>2. IsFiniteSet(Results)
      BY <3>1, FS_Interval, Zenon DEF Results
    <3> QED
      BY <1>1, <3>2, FS_Subset, Zenon
  <2> QED
    BY <2>1, <2>3, <2>4, FS_Subset, Zenon
<1>7. t \in StableOrders(s)
  BY <1>3, <1>4, <1>6 DEF StableOrders, S
<1>8. ASSUME NEW u \in StableOrders(s) PROVE u = t
  <2>1. /\ u \in [1..Len(s) -> S] /\ Elements(u) = S
        /\ \A m, n \in 1..Len(s) : m < n => GoesFirst(u[m], u[n])
    BY DEF StableOrders, S
  <2>2. u \in Seq(S) /\ Len(u) = Len(s)
    BY <1>1, <2>1
  <2>3. ASSUME NEW n \in 1..Len(s) PROVE u[n] = t[n]
    <3>1. Cardinality(Firsts(u[n], S)) = n - 1
      BY <1>1, <2>1, <2>2, PlaceIsRank
    <3>2. u[n] \in S
      BY <2>1
    <3> QED
      BY <1>1, <1>2, <3>1, <3>2, RankIsUnique
  <2> QED
    BY <1>3, <2>1, <2>3
<1>9. StableOrders(s) = {t}
  BY <1>7, <1>8
<1> QED
  BY <1>9

-----------------------------------------------------------------------------
(* The steps.                                                              *)

(* The order changes only with the request and the filter.                 *)
LEMMA SameOrder ==
  ASSUME request' = request, identifierStart' = identifierStart
  PROVE  \A i, j : GoesFirst(i, j)' <=> GoesFirst(i, j)
<1> SUFFICES ASSUME NEW i, NEW j PROVE GoesFirst(i, j)' <=> GoesFirst(i, j)
  OBVIOUS
<1>1. Filtering' <=> Filtering
  BY DEF Filtering
<1>2. ASSUME NEW r PROVE Key(r)' = Key(r)
  <2>1. MetaBucket(r)' = MetaBucket(r)
    BY <1>1 DEF MetaBucket, KindBucket, IsExact
  <2>2. Score(r)' = Score(r)
    BY <1>1 DEF Score
  <2> QED
    BY <1>1, <2>1, <2>2 DEF Key, Demoted, KindBucket
<1>3. ASSUME NEW r, NEW s PROVE Before(r, s)' <=> Before(r, s)
  BY <1>2 DEF Before
<1> QED
  BY <1>3 DEF GoesFirst

LEMMA InitIInv == Init => IInv
<1> SUFFICES ASSUME Init PROVE IInv
  OBVIOUS
<1>1. request \in AnyRequest /\ IsText(request.source)
  BY ListAssumption DEF Init
<1>2. request.offset \in Nat
  BY <1>1 DEF AnyRequest
<1>3. TypeOK
  BY <1>1, <1>2 DEF Init, TypeOK
<1> QED
  BY <1>3, ListAssumption
     DEF Init, IInv, Scanned, ErrorsKept, ResultsKept, Answered

(* While nothing is listed and the request and the ranked results stay,    *)
(* only the phase decides what is due of the results.                      *)
LEMMA BeforeTheLoop ==
  ASSUME IInv, UNCHANGED <<request, ranked, hidden>>,
         phase \in {"validating", "scanning", "completing"},
         phase' \in {"scanning", "rejected", "completing", "failure", "cancelled"}
  PROVE  ResultsKept'
BY DEF IInv, ResultsKept

LEMMA ValidateOffsetStep == IInv /\ ValidateOffset => IInv'
<1> SUFFICES ASSUME IInv, ValidateOffset PROVE IInv'
  OBVIOUS
<1>1. request' = request /\ identifierStart' = identifierStart /\ errors' = errors
      /\ next' = next /\ ranked' = ranked /\ hidden' = hidden /\ matched' = matched
      /\ phase = "validating"
      /\ ((phase' = "scanning" /\ AcceptsOffset) \/ phase' = "rejected")
  BY DEF ValidateOffset, Goto
<1>2. TypeOK'
  BY <1>1 DEF IInv, TypeOK, IsText, Answered
<1>3. Scanned'
  <2>1. request.offset \in Nat /\ identifierStart = request.offset
    BY <1>1, RequestParts DEF IInv, Scanned
  <2>2. AcceptsOffset' <=> AcceptsOffset
    BY <1>1 DEF AcceptsOffset, Byte
  <2> QED
    BY <1>1, <2>1, <2>2 DEF Scanned
<1>4. ErrorsKept'
  BY <1>1 DEF IInv, ErrorsKept, Answered
<1>5. ResultsKept'
  BY <1>1, BeforeTheLoop
<1> QED
  BY <1>2, <1>3, <1>4, <1>5 DEF IInv

LEMMA StepBackStep == IInv /\ StepBack => IInv'
<1> SUFFICES ASSUME IInv, StepBack PROVE IInv'
  OBVIOUS
<1>1. request' = request /\ phase' = phase /\ errors' = errors
      /\ next' = next /\ ranked' = ranked /\ hidden' = hidden /\ matched' = matched
      /\ phase = "scanning" /\ identifierStart' = identifierStart - 1 /\ identifierStart > 0
      /\ IsIdentifierByte(Byte(identifierStart - 1))
  BY DEF StepBack
<1>2. identifierStart \in 0..request.offset /\ request.offset \in Nat
  BY RequestParts DEF IInv, TypeOK
<1>3. TypeOK'
  BY <1>1, <1>2 DEF IInv, TypeOK, IsText, Answered
<1>4. Scanned'
  <2>1. AcceptsOffset' <=> AcceptsOffset
    BY <1>1 DEF AcceptsOffset, Byte
  <2>2. \A k \in (identifierStart - 1)..(request.offset - 1) : IsIdentifierByte(Byte(k))
    <3>1. \A k \in (identifierStart - 1)..(request.offset - 1) :
            k = identifierStart - 1 \/ k \in identifierStart..(request.offset - 1)
      BY <1>2
    <3> QED
      BY <1>1, <3>1 DEF IInv, Scanned
  <2> QED
    BY <1>1, <2>1, <2>2 DEF IInv, Scanned, Byte
<1>5. ErrorsKept'
  BY <1>1 DEF IInv, ErrorsKept, Answered
<1>6. ResultsKept'
  BY <1>1, BeforeTheLoop
<1> QED
  BY <1>3, <1>4, <1>5, <1>6 DEF IInv

LEMMA StartCompletionStep == IInv /\ StartCompletion => IInv'
<1> SUFFICES ASSUME IInv, StartCompletion PROVE IInv'
  OBVIOUS
<1>1. request' = request /\ identifierStart' = identifierStart /\ errors' = errors
      /\ next' = next /\ ranked' = ranked /\ hidden' = hidden /\ matched' = matched
      /\ phase = "scanning" /\ phase' = "completing"
      /\ (identifierStart > 0 => ~IsIdentifierByte(Byte(identifierStart - 1)))
  BY DEF StartCompletion, Goto
<1>2. TypeOK'
  BY <1>1 DEF IInv, TypeOK, IsText, Answered
<1>3. Scanned'
  BY <1>1 DEF IInv, Scanned, AcceptsOffset, Byte
<1>4. ErrorsKept'
  <2>1. errors = <<>> /\ next = 1 /\ Len(request.diagnostics) \in Nat
    BY <1>1, RequestParts DEF IInv, ErrorsKept
  <2>2. Len(errors) = 0 /\ 1..(next - 1) = {}
    BY <2>1
  <2>3. ErrorsAmong(errors, next - 1)
    BY <2>2 DEF ErrorsAmong
  <2>4. ErrorsAmong(errors, next - 1)'
    BY <1>1, <2>3 DEF ErrorsAmong
  <2> QED
    BY <1>1, <2>1, <2>4 DEF IInv, ErrorsKept, Answered
<1>5. ResultsKept'
  BY <1>1, BeforeTheLoop
<1> QED
  BY <1>2, <1>3, <1>4, <1>5 DEF IInv

LEMMA HandleDiagnosticStep == IInv /\ HandleDiagnostic => IInv'
<1> SUFFICES ASSUME IInv, HandleDiagnostic PROVE IInv'
  OBVIOUS
<1>1. request' = request /\ identifierStart' = identifierStart /\ phase' = phase
      /\ ranked' = ranked /\ hidden' = hidden /\ matched' = matched
      /\ phase = "completing" /\ next' = next + 1 /\ next <= Len(request.diagnostics)
      /\ errors' = IF Collects(next) THEN Append(errors, next) ELSE errors
  BY DEF HandleDiagnostic
<1>2. next \in 1..Len(request.diagnostics) /\ Len(request.diagnostics) \in Nat
      /\ errors \in Seq(1..Len(request.diagnostics))
  BY <1>1, RequestParts DEF IInv, TypeOK
<1>3. TypeOK'
  <2>1. errors' \in Seq(1..Len(request.diagnostics))
    BY <1>1, <1>2, Appended
  <2> QED
    BY <1>1, <1>2, <2>1 DEF IInv, TypeOK, IsText, Answered
<1>4. Scanned'
  BY <1>1 DEF IInv, Scanned, AcceptsOffset, Byte
<1>5. ErrorsKept'
  <2>1. ErrorsAmong(errors', next) /\ Len(errors') <= MaximumErrors
    <3>1. TypeOK /\ ErrorsAmong(errors, next - 1) /\ Len(errors) <= MaximumErrors
      BY <1>1 DEF IInv, ErrorsKept
    <3> QED
      BY <1>1, <1>2, <3>1, ErrorsNext
  <2>2. next' - 1 = next /\ next' <= Len(request.diagnostics) + 1
    BY <1>1, <1>2
  <2>3. ErrorsAmong(errors, next - 1)'
    BY <1>1, <2>1, <2>2 DEF ErrorsAmong, Elements
  <2> QED
    BY <1>1, <2>1, <2>2, <2>3 DEF ErrorsKept, Answered
<1>6. ResultsKept'
  BY <1>1, BeforeTheLoop
<1> QED
  BY <1>3, <1>4, <1>5, <1>6 DEF IInv

LEMMA TakeOutcomeStep == IInv /\ TakeOutcome => IInv'
<1> SUFFICES ASSUME IInv, TakeOutcome PROVE IInv'
  OBVIOUS
<1>1. request' = request /\ identifierStart' = identifierStart /\ errors' = errors
      /\ ranked' = ranked /\ hidden' = hidden /\ matched' = matched
      /\ phase = "completing" /\ next' = 1 /\ next > Len(request.diagnostics)
      /\ phase' = IF request.outcome = "success" THEN "filtering" ELSE request.outcome
  BY DEF TakeOutcome, Goto
<1>2. phase' \in {"filtering", "failure", "cancelled"}
  BY <1>1, RequestParts DEF IInv, Outcomes
<1>3. TypeOK'
  BY <1>1, <1>2 DEF IInv, TypeOK, IsText, Answered
<1>4. Scanned'
  BY <1>1, <1>2 DEF IInv, Scanned, AcceptsOffset, Byte
<1>5. ErrorsKept'
  <2>1. next - 1 = Len(request.diagnostics)
    <3>1. next \in Nat /\ Len(request.diagnostics) \in Nat
      BY RequestParts DEF IInv, TypeOK
    <3>2. next <= Len(request.diagnostics) + 1
      BY <1>1 DEF IInv, ErrorsKept
    <3> QED
      BY <1>1, <3>1, <3>2
  <2>2. ErrorsAmong(errors, Len(request.diagnostics))
    BY <1>1, <2>1 DEF IInv, ErrorsKept
  <2>3. ErrorsAmong(errors, Len(request.diagnostics))'
    BY <1>1, <2>2 DEF ErrorsAmong
  <2> QED
    BY <1>1, <1>2, <2>3 DEF IInv, ErrorsKept
<1>6. ResultsKept'
  <2>1. ranked = <<>> /\ hidden = 0 /\ Len(request.results) \in Nat
    BY <1>1, RequestParts DEF IInv, ResultsKept
  <2>2. CASE phase' = "filtering"
    <3>1. Len(ranked) = 0 /\ 1..(1 - 1) = {}
      BY <2>1
    <3>2. Elements(ranked) = {} /\ StayAmong(1 - 1) = {} /\ Hidden(1 - 1) = 0
      BY <3>1 DEF Elements, StayAmong, Hidden
    <3>3. Elements(ranked)' = {} /\ StayAmong(next - 1)' = {} /\ Hidden(next - 1)' = 0
      BY <1>1, <3>1, <3>2 DEF Elements, StayAmong, Hidden, Filtering
    <3>4. next' <= Len(request'.results) + 1
      BY <1>1, <2>1
    <3>5. 1..Len(ranked') = {} /\ hidden' = 0
      BY <1>1, <2>1, <3>1
    <3>6. /\ Elements(ranked)' = StayAmong(next - 1)' /\ hidden' = Hidden(next - 1)'
          /\ \A m, n \in 1..Len(ranked') : m < n => ranked'[m] < ranked'[n]
      BY <3>3, <3>5
    <3>7. phase' \notin {"validating", "scanning", "completing", "rejected", "ranked", "listed"}
      BY <2>2
    <3> QED
      BY <3>4, <3>6, <3>7 DEF ResultsKept
  <2>3. CASE phase' # "filtering"
    BY <1>1, <1>2, <2>3, BeforeTheLoop
  <2> QED
    BY <2>2, <2>3
<1> QED
  BY <1>3, <1>4, <1>5, <1>6 DEF IInv

LEMMA ConsiderStep == IInv /\ Consider => IInv'
<1> SUFFICES ASSUME IInv, Consider PROVE IInv'
  OBVIOUS
<1>1. request' = request /\ identifierStart' = identifierStart /\ errors' = errors
      /\ phase' = phase /\ matched' = matched
      /\ phase = "filtering" /\ next' = next + 1 /\ next <= Len(request.results)
  BY DEF Consider
<1> DEFINE out == LeavesOut(request.results[next])
<1>2. /\ ranked' = IF ~out THEN Append(ranked, next) ELSE ranked
      /\ hidden' = IF ~Filtering /\ out THEN hidden + 1 ELSE hidden
  BY DEF Consider, Enters
<1>3. /\ next \in 1..Len(request.results) /\ Len(request.results) \in Nat
      /\ next \in Nat \ {0} /\ hidden \in Nat
      /\ ranked \in Seq(1..Len(request.results)) /\ ranked \in Seq(Nat) /\ Len(ranked) \in Nat
  BY <1>1, RequestParts DEF IInv, TypeOK
<1>4. /\ Elements(ranked) = StayAmong(next - 1)
      /\ \A m, n \in 1..Len(ranked) : m < n => ranked[m] < ranked[n]
      /\ hidden = Hidden(next - 1)
  BY <1>1 DEF IInv, ResultsKept
<1>5. \A n \in 1..Len(ranked) : ranked[n] < next
  <2> SUFFICES ASSUME NEW n \in 1..Len(ranked) PROVE ranked[n] < next
    OBVIOUS
  <2>1. ranked[n] \in Elements(ranked)
    BY DEF Elements
  <2>2. ranked[n] \in 1..(next - 1)
    BY <1>4, <2>1 DEF StayAmong
  <2> QED
    BY <1>3, <2>2
<1>6. StayAmong(next) = StayAmong(next - 1) \union (IF out THEN {} ELSE {next})
  BY <1>3, StayNext
<1>7. /\ ranked' \in Seq(1..Len(request.results)) /\ Len(ranked') \in Nat
      /\ \A n \in 1..Len(ranked') : ranked'[n] \in Nat
      /\ Elements(ranked') = StayAmong(next)
      /\ \A m, n \in 1..Len(ranked') : m < n => ranked'[m] < ranked'[n]
      /\ hidden' = IF Filtering THEN 0 ELSE next - Len(ranked')
      /\ hidden' \in Nat
  <2>1. CASE out
    BY <1>2, <1>3, <1>4, <1>6, <2>1 DEF Hidden
  <2>2. CASE ~out
    <3>1. ranked' = Append(ranked, next) /\ hidden' = hidden
      BY <1>2, <2>2
    <3>2. /\ ranked' \in Seq(1..Len(request.results))
          /\ Len(ranked') = Len(ranked) + 1
          /\ Elements(ranked') = Elements(ranked) \union {next}
      BY <1>3, <3>1, Appended
    <3>3. \A m, n \in 1..Len(ranked') : m < n => ranked'[m] < ranked'[n]
      BY <1>3, <1>4, <1>5, <3>1, AppendedIncreases
    <3>4. hidden' = IF Filtering THEN 0 ELSE next - Len(ranked')
      BY <1>3, <1>4, <3>1, <3>2 DEF Hidden
    <3> QED
      BY <1>3, <1>4, <1>6, <2>2, <3>1, <3>2, <3>3, <3>4, SMTT(60)
  <2> QED
    BY <2>1, <2>2
<1> HIDE DEF out
<1>8. TypeOK'
  <2>1. \A m, n \in 1..Len(ranked') : ranked'[m] = ranked'[n] => m = n
    BY <1>7
  <2>2. request' \in AnyRequest /\ IsText(request.source)' /\ phase' # "listed"
    BY <1>1 DEF IInv, TypeOK, IsText
  <2>3. /\ phase' \in {"validating", "scanning", "completing", "filtering", "ranked"} \union Answered
        /\ identifierStart' \in 0..request'.offset /\ matched' \in Nat
        /\ errors' \in Seq(1..Len(request'.diagnostics))
    BY <1>1 DEF IInv, TypeOK
  <2>4. /\ next' \in Nat \ {0} /\ hidden' \in Nat
        /\ ranked' \in Seq(1..Len(request'.results))
    BY <1>1, <1>3, <1>7
  <2> QED
    BY <2>1, <2>2, <2>3, <2>4 DEF TypeOK, IsText, Answered
<1>9. Scanned'
  BY <1>1 DEF IInv, Scanned, AcceptsOffset, Byte
<1>10. ErrorsKept'
  BY <1>1 DEF IInv, ErrorsKept, ErrorsAmong, Answered
<1>11. ResultsKept'
  <2>1. next' - 1 = next /\ next' <= Len(request.results) + 1
    BY <1>1, <1>3
  <2>2. StayAmong(next)' = StayAmong(next') /\ StayAmong(next - 1)' = StayAmong(next)
    BY <1>1, <2>1 DEF StayAmong, LeavesOut, Filtering
  <2>3. Elements(ranked)' = Elements(ranked')
    BY DEF Elements
  <2>4. Hidden(next - 1)' = IF Filtering THEN 0 ELSE next - Len(ranked')
    BY <1>1, <2>1 DEF Hidden, Filtering
  <2> QED
    BY <1>1, <1>7, <2>1, <2>2, <2>3, <2>4 DEF ResultsKept
<1> QED
  BY <1>8, <1>9, <1>10, <1>11 DEF IInv

LEMMA SortStep == IInv /\ Sort => IInv'
<1> SUFFICES ASSUME IInv, Sort PROVE IInv'
  OBVIOUS
<1>1. request' = request /\ identifierStart' = identifierStart /\ errors' = errors
      /\ next' = next /\ hidden' = hidden
      /\ phase = "filtering" /\ phase' = "ranked" /\ next > Len(request.results)
      /\ matched' = Len(ranked)
  BY DEF Sort, Goto
<1>2. /\ ranked' \in [1..Len(ranked) -> Elements(ranked)]
      /\ Elements(ranked') = Elements(ranked)
      /\ \A m, n \in 1..Len(ranked) : m < n => GoesFirst(ranked'[m], ranked'[n])
  BY DEF Sort, StableOrders
<1>3. /\ next \in Nat \ {0} /\ Len(request.results) \in Nat /\ Len(ranked) \in Nat
      /\ \A i \in 1..Len(request.results) : request.results[i] \in AnyResult
  BY RequestParts DEF IInv, TypeOK
<1>4. next - 1 = Len(request.results)
  <2>1. next <= Len(request.results) + 1
    BY <1>1 DEF IInv, ResultsKept
  <2> QED
    BY <1>1, <1>3, <2>1
<1>5. Elements(ranked) = Eligible /\ hidden = Hidden(Len(request.results))
  BY <1>1, <1>4 DEF IInv, ResultsKept, StayAmong, Eligible
<1>6. Eligible \subseteq 1..Len(request.results)
  BY DEF Eligible
<1>7. /\ ranked' \in Seq(1..Len(request.results))
      /\ Len(ranked') = Len(ranked)
      /\ \A n \in 1..Len(ranked) : ranked'[n] \in 1..Len(request.results)
  <2>1. ranked' \in [1..Len(ranked) -> 1..Len(request.results)]
    BY <1>2, <1>5, <1>6
  <2> QED
    BY <1>3, <2>1
<1>8. \A m, n \in 1..Len(ranked) : m < n => ranked'[m] # ranked'[n]
  <2> SUFFICES ASSUME NEW m \in 1..Len(ranked), NEW n \in 1..Len(ranked), m < n,
                      ranked'[m] = ranked'[n]
               PROVE  FALSE
    OBVIOUS
  <2> DEFINE i == ranked'[m]
  <2>1. i \in 1..Len(request.results) /\ request.results[i] \in AnyResult /\ ~(i < i)
    BY <1>3, <1>7
  <2>2. GoesFirst(i, i)
    BY <1>2
  <2>3. ~Before(request.results[i], request.results[i])
    BY <2>1, Asymmetric
  <2> QED
    BY <2>1, <2>2, <2>3 DEF GoesFirst
<1>9. \A m, n \in 1..Len(ranked') : ranked'[m] = ranked'[n] => m = n
  BY <1>3, <1>7, <1>8
<1>10. TypeOK'
  BY <1>1, <1>3, <1>7, <1>9 DEF IInv, TypeOK, IsText, Answered
<1>11. Scanned'
  BY <1>1 DEF IInv, Scanned, AcceptsOffset, Byte
<1>12. ErrorsKept'
  BY <1>1 DEF IInv, ErrorsKept, ErrorsAmong, Answered
<1>13. ResultsKept'
  <2>1. Eligible' = Eligible /\ Elements(ranked)' = Elements(ranked') /\ Filtering' = Filtering
    BY <1>1 DEF Elements, Eligible, LeavesOut, Filtering
  <2>2. Cardinality(Eligible) = Len(ranked)
    <3>1. /\ ranked \in Seq(1..Len(request.results))
          /\ \A m, n \in 1..Len(ranked) : ranked[m] = ranked[n] => m = n
      BY DEF IInv, TypeOK
    <3> QED
      BY <1>5, <3>1, Counted
  <2>3. \A i, j : GoesFirst(i, j)' <=> GoesFirst(i, j)
    BY <1>1, SameOrder
  <2>4. Sorted'
    BY <1>2, <1>7, <2>1, <2>3 DEF Sorted
  <2>5. hidden' = IF Filtering THEN 0 ELSE Len(request.results) - matched'
    BY <1>1, <1>5 DEF Hidden
  <2> QED
    BY <1>1, <1>2, <1>5, <2>1, <2>2, <2>4, <2>5 DEF ResultsKept
<1> QED
  BY <1>10, <1>11, <1>12, <1>13 DEF IInv

LEMMA CutStep == IInv /\ Cut => IInv'
<1> SUFFICES ASSUME IInv, Cut PROVE IInv'
  OBVIOUS
<1>1. request' = request /\ identifierStart' = identifierStart /\ errors' = errors
      /\ next' = next /\ hidden' = hidden /\ matched' = matched
      /\ phase = "ranked" /\ phase' = "listed"
  BY DEF Cut, Goto
<1> DEFINE t == ranked'
<1>2. /\ ranked \in Seq(1..Len(request.results)) /\ Len(ranked) \in Nat
      /\ \A m, n \in 1..Len(ranked) : ranked[m] = ranked[n] => m = n
      /\ request.maximumResults \in Nat \ {0} /\ Len(request.results) \in Nat
  BY RequestParts DEF IInv, TypeOK
<1>3. /\ t \in Seq(1..Len(request.results)) /\ Len(t) \in Nat
      /\ Len(t) <= Len(ranked) /\ Len(t) <= request.maximumResults
      /\ \A n \in 1..Len(t) : t[n] = ranked[n]
      /\ Len(t) = Len(ranked) \/ Len(t) = request.maximumResults
  <2>1. t = IF Len(ranked) > request.maximumResults
            THEN SubSeq(ranked, 1, request.maximumResults) ELSE ranked
    BY DEF Cut, Room
  <2>2. CASE Len(ranked) > request.maximumResults
    <3>1. t = SubSeq(ranked, 1, request.maximumResults)
      BY <2>1, <2>2
    <3> HIDE DEF t
    <3>2. 1 \in 1..(Len(ranked) + 1) /\ request.maximumResults \in 0..Len(ranked)
      BY <1>2, <2>2
    <3>3. \A n \in 1..request.maximumResults : ranked[n] \in 1..Len(request.results)
      BY <1>2, <2>2
    <3>4. /\ t = [n \in 1..request.maximumResults |-> ranked[n]]
      BY <1>2, <2>2, <3>1
    <3>5. t \in [1..request.maximumResults -> 1..Len(request.results)]
      BY <3>3, <3>4
    <3>6. t \in Seq(1..Len(request.results)) /\ Len(t) = request.maximumResults
      <4> DEFINE limit == request.maximumResults
      <4>1. limit \in Nat /\ t \in [1..limit -> 1..Len(request.results)]
        BY <1>2, <3>5
      <4> HIDE DEF limit
      <4>2. t \in Seq(1..Len(request.results)) /\ Len(t) = limit
        BY <4>1
      <4> QED
        BY <4>2 DEF limit
    <3> QED
      BY <1>2, <2>2, <3>4, <3>6
  <2>3. CASE ~(Len(ranked) > request.maximumResults)
    BY <1>2, <2>1, <2>3
  <2> QED
    BY <2>2, <2>3
<1>4. TypeOK'
  <2>1. \A m, n \in 1..Len(t) : t[m] = t[n] => m = n
    BY <1>2, <1>3
  <2> QED
    BY <1>1, <1>3, <2>1 DEF IInv, TypeOK, IsText, Answered
<1>5. Scanned'
  BY <1>1 DEF IInv, Scanned, AcceptsOffset, Byte
<1>6. ErrorsKept'
  BY <1>1 DEF IInv, ErrorsKept, ErrorsAmong, Answered
<1>7. ResultsKept'
  <2>1. Eligible' = Eligible /\ Elements(ranked)' = Elements(t) /\ Filtering' = Filtering
    BY <1>1 DEF Elements, Eligible, LeavesOut, Filtering
  <2>2. \A i, j : GoesFirst(i, j)' <=> GoesFirst(i, j)
    BY <1>1, SameOrder
  <2>3. /\ Sorted /\ Elements(ranked) = Eligible
        /\ matched = Cardinality(Eligible)
        /\ hidden = IF Filtering THEN 0 ELSE Len(request.results) - matched
    BY <1>1 DEF IInv, ResultsKept
  <2> HIDE DEF t
  <2>4. \A n \in 1..Len(t) : n \in 1..Len(ranked)
    BY <1>2, <1>3
  <2>5. Elements(t) \subseteq Elements(ranked)
    BY <1>3, <2>4 DEF Elements
  <2>6. Sorted'
    BY <1>3, <2>1, <2>2, <2>3, <2>4 DEF Sorted, t
  <2>7. Len(t) < request.maximumResults => Elements(t) = Eligible
    <3> SUFFICES ASSUME Len(t) = Len(ranked) PROVE Elements(t) = Elements(ranked)
      BY <1>2, <1>3, <2>3
    <3> QED
      BY <1>3 DEF Elements
  <2>8. ASSUME NEW i \in Eligible, NEW j \in Eligible, i \notin Elements(t), j \in Elements(t)
        PROVE  GoesFirst(j, i)
    <3>1. PICK k \in 1..Len(ranked) : ranked[k] = i
      BY <2>3 DEF Elements
    <3>2. PICK n \in 1..Len(t) : t[n] = j
      BY <2>8 DEF Elements
    <3>3. k \notin 1..Len(t)
      BY <1>3, <2>8, <3>1 DEF Elements
    <3>4. n < k /\ n \in 1..Len(ranked) /\ ranked[n] = j
      BY <1>2, <1>3, <2>4, <3>2, <3>3
    <3> QED
      BY <2>3, <3>1, <3>4 DEF Sorted
  <2> QED
    BY <1>1, <2>1, <2>2, <2>3, <2>5, <2>6, <2>7, <2>8 DEF ResultsKept, t
<1> QED
  BY <1>4, <1>5, <1>6, <1>7 DEF IInv

LEMMA StutterStep == IInv /\ UNCHANGED vars => IInv'
<1> SUFFICES ASSUME IInv, UNCHANGED vars PROVE IInv'
  OBVIOUS
<1>1. request' = request /\ identifierStart' = identifierStart /\ errors' = errors
      /\ next' = next /\ hidden' = hidden /\ matched' = matched
      /\ phase' = phase /\ ranked' = ranked
  BY DEF vars
<1>2. TypeOK' /\ Scanned' /\ ErrorsKept'
  BY <1>1 DEF IInv, TypeOK, IsText, Answered, Scanned, AcceptsOffset, Byte, ErrorsKept,
              ErrorsAmong, Elements
<1>3. ResultsKept'
  <2>1. Eligible' = Eligible /\ Elements(ranked)' = Elements(ranked) /\ Filtering' = Filtering
        /\ StayAmong(next - 1)' = StayAmong(next - 1) /\ Hidden(next - 1)' = Hidden(next - 1)
    BY <1>1 DEF Elements, Eligible, StayAmong, Hidden, LeavesOut, Filtering
  <2>2. \A i, j : GoesFirst(i, j)' <=> GoesFirst(i, j)
    BY <1>1, SameOrder
  <2>3. Sorted' <=> Sorted
    BY <1>1, <2>1, <2>2 DEF Sorted
  <2> QED
    BY <1>1, <2>1, <2>2, <2>3 DEF IInv, ResultsKept
<1> QED
  BY <1>2, <1>3 DEF IInv

(* The inductive invariant holds in every reachable state.                 *)
THEOREM ListInvariant == Spec => []IInv
<1>1. Init => IInv
  BY InitIInv
<1>2. IInv /\ [Next]_vars => IInv'
  BY ValidateOffsetStep, StepBackStep, StartCompletionStep, HandleDiagnosticStep, TakeOutcomeStep,
     ConsiderStep, SortStep, CutStep, StutterStep
     DEF Next, Finished
<1> QED
  BY <1>1, <1>2, PTL DEF Spec

(* The scan stays between the start of the text and the cursor, and a list *)
(* is no longer than the request allows (CompletionBackend.cpp 418-423,    *)
(* 360-362).                                                               *)
THEOREM ListTypes == Spec => []TypeOK
<1>1. IInv => TypeOK
  BY DEF IInv
<1> QED
  BY <1>1, ListInvariant, PTL

(* For every text and cursor the filter is the whole identifier (lines     *)
(* 418-423, SwiftCompilerBridge.cpp 142-149).                              *)
THEOREM FilterIsWhole == Spec => []WholeIdentifier
<1>1. IInv => WholeIdentifier
  BY ScannedIsWhole DEF IInv
<1> QED
  BY <1>1, ListInvariant, PTL

(* For every sequence of diagnostics a document has the first errors       *)
(* (lines 61-76).                                                          *)
THEOREM FirstErrorsKept == Spec => []FirstErrors
<1>1. IInv => FirstErrors
  <2> SUFFICES ASSUME IInv, phase \in Answered \ {"rejected"}
               PROVE  ErrorsAmong(errors, Len(request.diagnostics))
    BY DEF FirstErrors, ErrorsAmong
  <2> QED
    BY DEF IInv, ErrorsKept
<1> QED
  BY <1>1, ListInvariant, PTL

(* The comparator is a strict weak order on every list of results, which   *)
(* std::stable_sort requires (lines 344-359).                              *)
THEOREM ComparatorIsOrder == Spec => []StrictWeakOrder
<1>1. IInv => StrictWeakOrder
  <2>1. IInv => \A n \in Elements(ranked) : request.results[n] \in AnyResult
    <3> SUFFICES ASSUME IInv, NEW n \in Elements(ranked) PROVE request.results[n] \in AnyResult
      OBVIOUS
    <3>1. ranked \in Seq(1..Len(request.results))
      BY DEF IInv, TypeOK
    <3>2. n \in 1..Len(request.results)
      BY <3>1 DEF Elements
    <3> QED
      BY <3>2, RequestParts DEF IInv
  <2> QED
    BY <2>1, Asymmetric, Transitive, TiesTransitive DEF StrictWeakOrder
<1> QED
  BY <1>1, ListInvariant, PTL

(* For every list of results and every limit, the items are the best ones, *)
(* in order, and the counts are those before the cut (lines 319-362).      *)
THEOREM ListIsBest == Spec => []BestInOrder
<1>1. IInv => BestInOrder
  <2> SUFFICES ASSUME IInv, phase = "listed" PROVE BestInOrder
    BY DEF BestInOrder
  <2>1. /\ ranked \in Seq(1..Len(request.results)) /\ Len(ranked) \in Nat
        /\ \A n \in 1..Len(ranked) :
             ranked[n] \in Eligible /\ request.results[ranked[n]] \in AnyResult
        /\ \A i \in Eligible : request.results[i] \in AnyResult
    <3>1. ranked \in Seq(1..Len(request.results)) /\ Elements(ranked) \subseteq Eligible
      BY DEF IInv, TypeOK, ResultsKept
    <3>2. \A i \in Eligible : request.results[i] \in AnyResult
      BY RequestParts DEF IInv, Eligible
    <3>3. \A n \in 1..Len(ranked) : ranked[n] \in Eligible
      BY <3>1 DEF Elements
    <3> QED
      BY <3>1, <3>2, <3>3
  <2>2. \A m, n \in 1..Len(ranked) : m < n => GoesFirst(ranked[m], ranked[n])
    BY <2>1 DEF IInv, ResultsKept, Sorted
  <2>3. \A i, j \in Eligible : GoesFirst(j, i) => ~Before(request.results[i], request.results[j])
    BY <2>1, Asymmetric DEF GoesFirst
  <2>4. \A m, n \in 1..Len(ranked) :
          m < n => /\ ~Before(request.results[ranked[n]], request.results[ranked[m]])
                   /\ Tied(request.results[ranked[m]], request.results[ranked[n]]) =>
                        ranked[m] < ranked[n]
    BY <2>1, <2>2, <2>3 DEF GoesFirst, Tied
  <2>5. \A i \in Eligible \ Elements(ranked), n \in 1..Len(ranked) :
          ~Before(request.results[i], request.results[ranked[n]])
    <3> SUFFICES ASSUME NEW i \in Eligible \ Elements(ranked), NEW n \in 1..Len(ranked)
                 PROVE  GoesFirst(ranked[n], i)
      BY <2>1, <2>3
    <3>1. ranked[n] \in Elements(ranked) /\ ranked[n] \in Eligible
      BY <2>1 DEF Elements
    <3> QED
      BY <3>1 DEF IInv, ResultsKept
  <2>6. /\ Len(ranked) <= request.maximumResults
        /\ Len(ranked) < request.maximumResults => Elements(ranked) = Eligible
        /\ matched = Cardinality(Eligible)
        /\ hidden = IF Filtering THEN 0 ELSE Len(request.results) - matched
    BY DEF IInv, TypeOK, ResultsKept
  <2> QED
    BY <2>4, <2>5, <2>6 DEF BestInOrder
<1> QED
  BY <1>1, ListInvariant, PTL

(* std::stable_sort has exactly one result, whatever the loop has let in:  *)
(* the comparator and the places leave it no choice (line 344).            *)
OneStableOrder == phase = "filtering" => \E t : StableOrders(ranked) = {t}

(* For every request the sort can always be made, and in only one way, so  *)
(* that equal requests are answered by equal lists (line 344).             *)
THEOREM SortIsDetermined == Spec => []OneStableOrder
<1>1. IInv => OneStableOrder
  <2> SUFFICES ASSUME IInv PROVE \E t : StableOrders(ranked) = {t}
    BY DEF OneStableOrder
  <2>1. TypeOK /\ ranked \in Seq(Results) /\ \A m, n \in 1..Len(ranked) : ranked[m] = ranked[n] => m = n
    BY DEF IInv, TypeOK, Results
  <2> QED
    BY <2>1, StableOrderUnique
<1> QED
  BY <1>1, ListInvariant, PTL

(* What the list is, without the loop, the sort and the cut: as many       *)
(* eligible results as there is room for, and the n-th is the one that     *)
(* exactly n - 1 of all eligible results go before (lines 316-362).        *)
ItemsByRank ==
  phase = "listed" =>
    /\ Len(ranked) = IF matched < Room THEN matched ELSE Room
    /\ \A n \in 1..Len(ranked) :
         ranked[n] \in Eligible /\ Cardinality(Firsts(ranked[n], Eligible)) = n - 1

(* For every request the items are those of the first ranks, one of each;  *)
(* by RankIsUnique no other list is.                                       *)
THEOREM ListIsByRank == Spec => []ItemsByRank
<1>1. IInv => ItemsByRank
  <2> SUFFICES ASSUME IInv, phase = "listed"
               PROVE  /\ Len(ranked) = IF matched < Room THEN matched ELSE Room
                      /\ \A n \in 1..Len(ranked) :
                           /\ ranked[n] \in Eligible
                           /\ Cardinality(Firsts(ranked[n], Eligible)) = n - 1
    BY DEF ItemsByRank
  <2>1. /\ TypeOK /\ Sorted
        /\ ranked \in Seq(Results) /\ Len(ranked) \in Nat /\ Len(ranked) <= Room
        /\ \A m, n \in 1..Len(ranked) : ranked[m] = ranked[n] => m = n
        /\ Elements(ranked) \in SUBSET Eligible /\ Eligible \in SUBSET Results
        /\ matched = Cardinality(Eligible)
        /\ Room \in Nat
    BY RequestParts DEF IInv, TypeOK, ResultsKept, Eligible, Results, Room
  <2>2. Len(ranked) < Room => Elements(ranked) = Eligible
    BY DEF IInv, ResultsKept, Room
  <2>3. \A i, j \in Eligible :
          i \notin Elements(ranked) /\ j \in Elements(ranked) => GoesFirst(j, i)
    BY DEF IInv, ResultsKept
  <2>4. \A n \in 1..Len(ranked) : ranked[n] \in Elements(ranked) /\ ranked[n] \in Eligible
    BY <2>1 DEF Elements
  <2>5. Cardinality(Elements(ranked)) = Len(ranked)
    BY <2>1, Counted
  <2>6. Len(ranked) <= matched /\ matched \in Nat
    <3>1. 1 \in Int /\ Len(request.results) \in Int
      BY <2>1, RequestParts
    <3>2. IsFiniteSet(Results)
      BY <3>1, FS_Interval, Zenon DEF Results
    <3>3. IsFiniteSet(Eligible)
      BY <2>1, <3>2, FS_Subset, Zenon
    <3>4. Cardinality(Eligible) \in Nat
      BY <3>3, FS_CardinalityType, Zenon
    <3>5. Cardinality(Elements(ranked)) <= Cardinality(Eligible)
      BY <2>1, <3>3, FS_Subset, Zenon
    <3> QED
      BY <2>1, <2>5, <3>4, <3>5
  <2>7. Len(ranked) = IF matched < Room THEN matched ELSE Room
    BY <2>1, <2>2, <2>5, <2>6
  <2>8. /\ ranked \in Seq(Eligible)
        /\ \A m, n \in 1..Len(ranked) : m < n => GoesFirst(ranked[m], ranked[n])
        /\ \A i \in Eligible \ Elements(ranked), n \in 1..Len(ranked) : GoesFirst(ranked[n], i)
    BY <2>1, <2>3, <2>4 DEF Sorted
  <2>9. \A n \in 1..Len(ranked) : Cardinality(Firsts(ranked[n], Eligible)) = n - 1
    BY <2>1, <2>8, PlaceIsRank
  <2> QED
    BY <2>4, <2>7, <2>9
<1> QED
  BY <1>1, ListInvariant, PTL
=============================================================================
