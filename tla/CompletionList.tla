---------------------------- MODULE CompletionList ----------------------------
(***************************************************************************)
(* One completion request from its cursor to its document.  The bridge     *)
(* rejects a cursor inside a character (SwiftCompilerBridge.cpp 135-149).  *)
(* The backend walks back over the identifier before the cursor, which     *)
(* becomes the filter, collects the compiler's errors while it works, and  *)
(* filters, sorts and cuts its results (CompletionBackend.cpp).            *)
(***************************************************************************)
EXTENDS Integers, Sequences, FiniteSets

CONSTANTS
  MaximumErrors,  (* how many errors the collector keeps, 12 in the code   *)
  Requests        (* the requests to consider, a subset of AnyRequest      *)

(* A byte is an ASCII letter, digit or underscore; another ASCII byte; the *)
(* first byte of a multibyte character; or one of its other bytes.         *)
Bytes == {"word", "other", "lead", "continuation"}

(* UTF-8, which the source is: a character is complete or cut short.       *)
IsText(bytes) ==
  \A k \in 1..Len(bytes) :
    bytes[k] = "continuation" => k > 1 /\ bytes[k - 1] \in {"lead", "continuation"}

(* What the ranking reads of a result.  match: how the filter text meets   *)
(* the name, and matchScore how well.  context: the semantic context score. *)
(* flair: it is specific to the expression.  promoted: a keyword that      *)
(* SourceKit promotes.  name: its place in the alphabet.                   *)
AnyResult ==
  [kind : {"literal", "keyword", "declaration", "builtinOperator"},
   notRecommended : BOOLEAN, relation : {"unrelated", "invalid", "convertible"},
   flair : BOOLEAN, isOperator : BOOLEAN, promoted : BOOLEAN,
   match : {"no", "some", "exact"}, matchScore : Nat, context : Nat, name : Nat]

Outcomes == {"success", "failure", "cancelled"}

(* diagnostics, results and outcome are what the compiler gives.           *)
AnyRequest ==
  [source : Seq(Bytes), offset : Nat, maximumResults : Nat \ {0},
   diagnostics : Seq({"error", "other"}), results : Seq(AnyResult), outcome : Outcomes]

ASSUME ListAssumption ==
  /\ MaximumErrors \in Nat
  /\ \A r \in Requests : r \in AnyRequest /\ IsText(r.source)

VARIABLES
  request,
  phase,
  identifierStart,
  errors,          (* ErrorCollector::messages, by place in the diagnostics *)
  next,            (* the diagnostic or the result that is looked at        *)
  ranked,          (* the results that stay, by place                       *)
  hidden, matched

vars == <<request, phase, identifierStart, errors, next, ranked, hidden, matched>>

Init ==
  /\ request \in Requests
  /\ phase = "validating"
  /\ identifierStart = request.offset
  /\ errors = <<>> /\ ranked = <<>>
  /\ next = 1
  /\ hidden = 0 /\ matched = 0

Goto(from, to) == phase = from /\ phase' = to

-----------------------------------------------------------------------------
(* The cursor.                                                             *)

(* The byte at a zero-based offset.                                        *)
Byte(k) == request.source[k + 1]

(* Mutant: only the ASCII identifier bytes count.                          *)
IsAsciiIdentifierByte(b) == b = "word"

(* Bytes from 0x80 count, because Swift accepts Unicode identifiers.       *)
IsIdentifierByte(b) == b \in {"word", "lead", "continuation"}

(* A cursor at the end of the text splits nothing.                         *)
AcceptsOffset ==
  /\ request.offset <= Len(request.source)
  /\ request.offset < Len(request.source) => Byte(request.offset) # "continuation"

ValidateOffset ==
  /\ Goto("validating", IF AcceptsOffset THEN "scanning" ELSE "rejected")
  /\ UNCHANGED <<request, identifierStart, errors, next, ranked, hidden, matched>>

StepBack ==
  /\ phase = "scanning"
  /\ identifierStart > 0
  /\ IsIdentifierByte(Byte(identifierStart - 1))
  /\ identifierStart' = identifierStart - 1
  /\ UNCHANGED <<request, phase, errors, next, ranked, hidden, matched>>

(* The scan stops, and the compiler begins at the identifier's start.      *)
StartCompletion ==
  /\ Goto("scanning", "completing")
  /\ identifierStart > 0 => ~IsIdentifierByte(Byte(identifierStart - 1))
  /\ UNCHANGED <<request, identifierStart, errors, next, ranked, hidden, matched>>

(* The filter text is not empty.                                           *)
Filtering == identifierStart < request.offset

-----------------------------------------------------------------------------
(* The compiler's diagnostics.                                             *)

(* Mutant: the warnings that come before use up the room.                  *)
CollectsAmongFirst(n) == request.diagnostics[n] = "error" /\ n <= MaximumErrors

Collects(n) == request.diagnostics[n] = "error" /\ Len(errors) < MaximumErrors

HandleDiagnostic ==
  /\ phase = "completing"
  /\ next <= Len(request.diagnostics)
  /\ errors' = IF Collects(next) THEN Append(errors, next) ELSE errors
  /\ next' = next + 1
  /\ UNCHANGED <<request, phase, identifierStart, ranked, hidden, matched>>

(* A failure or a cancellation is written with the errors, but no items.   *)
TakeOutcome ==
  /\ next > Len(request.diagnostics)
  /\ Goto("completing", IF request.outcome = "success" THEN "filtering" ELSE request.outcome)
  /\ next' = 1
  /\ UNCHANGED <<request, identifierStart, errors, ranked, hidden, matched>>

-----------------------------------------------------------------------------
(* The ranking.  The buckets, from least to most preferred.                *)
NotRecommended == 0
Normal == 1
Literal == 2
NormalTypeMatch == 3
LiteralTypeMatch == 4
HighPriorityKeyword == 5
Operator == 6
ExpressionSpecific == 7
ExactMatch == 8

(* Only a filter can match a name exactly.                                 *)
IsExact(r) == Filtering /\ r.match = "exact"

IsBad(r) == r.notRecommended \/ r.relation = "invalid"

(* The group of a result by its kind and type alone, which is what         *)
(* bucketFor returns when it skips the meta groups.                        *)
KindBucket(r) ==
  IF r.isOperator \/ r.kind = "builtinOperator" THEN Operator
  ELSE IF r.kind = "keyword" THEN IF r.promoted THEN HighPriorityKeyword ELSE Normal
  ELSE IF r.relation = "convertible"
       THEN IF r.kind = "literal" THEN LiteralTypeMatch ELSE NormalTypeMatch
       ELSE IF r.kind = "literal" THEN Literal ELSE Normal

(* The group of a result with the meta groups.                             *)
MetaBucket(r) ==
  IF IsExact(r) THEN ExactMatch
  ELSE IF r.notRecommended THEN NotRecommended
  ELSE IF r.flair THEN ExpressionSpecific
  ELSE IF ~r.isOperator /\ r.kind = "declaration" /\ r.relation = "invalid" THEN NotRecommended
  ELSE KindBucket(r)

(* Filtering demotes untyped literals.                                     *)
Demoted(bucket) == IF Filtering /\ bucket = Literal THEN Normal ELSE bucket

(* Without a filter there is no match score.                               *)
Score(r) == (IF Filtering THEN r.matchScore * 13 ELSE 0) + r.context * 7

(* What decides, from the first to the last; a name early in the alphabet  *)
(* is preferred.                                                           *)
Key(r) == <<Demoted(MetaBucket(r)), Demoted(KindBucket(r)), Score(r), 0 - r.name>>

(* Mutant: equal scores count as an order.                                 *)
BeforeOrEqual(a, b) ==
  \E n \in 1..3 : /\ Key(a)[n] > Key(b)[n] \/ (n = 3 /\ Key(a)[3] = Key(b)[3])
                  /\ \A m \in 1..(n - 1) : Key(a)[m] = Key(b)[m]

(* The comparator of std::stable_sort.                                     *)
Before(a, b) ==
  \E n \in 1..4 : Key(a)[n] > Key(b)[n] /\ \A m \in 1..(n - 1) : Key(a)[m] = Key(b)[m]

-----------------------------------------------------------------------------
(* The loop, the sort and the cut.                                         *)

(* Without a filter a bad result is hidden; with one, a name must match.   *)
LeavesOut(r) == IF Filtering THEN r.match = "no" ELSE IsBad(r)

(* Mutant: the loop stops at the number of items asked for.                *)
EntersWithRoom(r) == ~LeavesOut(r) /\ Len(ranked) < request.maximumResults

Enters(r) == ~LeavesOut(r)

Consider ==
  /\ phase = "filtering"
  /\ next <= Len(request.results)
  /\ LET r == request.results[next]
     IN /\ ranked' = IF Enters(r) THEN Append(ranked, next) ELSE ranked
        /\ hidden' = IF ~Filtering /\ LeavesOut(r) THEN hidden + 1 ELSE hidden
  /\ next' = next + 1
  /\ UNCHANGED <<request, phase, identifierStart, errors, matched>>

Elements(s) == { s[n] : n \in 1..Len(s) }

(* A stable sort keeps the compiler's order where the comparator has none. *)
GoesFirst(i, j) ==
  LET a == request.results[i]  b == request.results[j]
  IN Before(a, b) \/ (~Before(b, a) /\ i < j)

(* The sequence that std::stable_sort leaves, if there is one.             *)
StableOrders(s) ==
  { t \in [1..Len(s) -> Elements(s)] :
      /\ Elements(t) = Elements(s)
      /\ \A m, n \in 1..Len(s) : m < n => GoesFirst(t[m], t[n]) }

Sort ==
  /\ next > Len(request.results)
  /\ Goto("filtering", "ranked")
  /\ matched' = Len(ranked)
  /\ ranked' \in StableOrders(ranked)
  /\ UNCHANGED <<request, identifierStart, errors, next, hidden>>

Room == request.maximumResults

Cut ==
  /\ Goto("ranked", "listed")
  /\ ranked' = IF Len(ranked) > Room THEN SubSeq(ranked, 1, Room) ELSE ranked
  /\ UNCHANGED <<request, identifierStart, errors, next, hidden, matched>>

Answered == {"rejected", "failure", "cancelled", "listed"}

Finished == phase \in Answered /\ UNCHANGED vars

Next ==
  \/ ValidateOffset \/ StepBack \/ StartCompletion
  \/ HandleDiagnostic \/ TakeOutcome
  \/ Consider \/ Sort \/ Cut \/ Finished

Spec == Init /\ [][Next]_vars

-----------------------------------------------------------------------------
(* Properties.                                                             *)

(* Types; the scan stays between the start of the text and the cursor, and *)
(* a list names each result once and is no longer than it may be.          *)
TypeOK ==
  /\ request \in AnyRequest /\ IsText(request.source)
  /\ phase \in {"validating", "scanning", "completing", "filtering", "ranked"} \union Answered
  /\ identifierStart \in 0..request.offset
  /\ errors \in Seq(1..Len(request.diagnostics))
  /\ next \in Nat \ {0}
  /\ ranked \in Seq(1..Len(request.results))
  /\ \A m, n \in 1..Len(ranked) : ranked[m] = ranked[n] => m = n
  /\ hidden \in Nat /\ matched \in Nat
  /\ phase = "listed" => Len(ranked) <= request.maximumResults

(* Offset k lies between two characters.                                   *)
IsBoundary(k) == k = Len(request.source) \/ Byte(k) # "continuation"

(* The filter, which an item replaces, is the whole identifier before the  *)
(* cursor: everything in it is part of a name, the character before it is  *)
(* not, and neither end cuts a multibyte character                         *)
(* (SwiftCompilerBridge.cpp 142-149, CompletionBackend.cpp 418-423).       *)
WholeIdentifier ==
  phase \notin {"validating", "scanning", "rejected"} =>
    /\ \A k \in identifierStart..(request.offset - 1) : Byte(k) # "other"
    /\ identifierStart > 0 => Byte(identifierStart - 1) = "other"
    /\ IsBoundary(identifierStart) /\ IsBoundary(request.offset)

(* Every document but a rejection, also that of a failure or of a          *)
(* cancellation, has the first errors of its request, in order; warnings   *)
(* take no room from them (CompletionBackend.cpp 61-76, 487-491).          *)
FirstErrors ==
  phase \in Answered \ {"rejected"} =>
    LET isError(n) == request.diagnostics[n] = "error"
    IN /\ \A k \in 1..Len(errors) : isError(errors[k])
       /\ \A j, k \in 1..Len(errors) : j < k => errors[j] < errors[k]
       /\ \A n \in 1..Len(request.diagnostics) : isError(n) /\ n \notin Elements(errors) =>
            Len(errors) = MaximumErrors /\ \A k \in 1..Len(errors) : errors[k] < n

Tied(a, b) == ~Before(a, b) /\ ~Before(b, a)

(* The comparator is a strict weak order on the results that the sort is   *)
(* about to see, which std::stable_sort requires (lines 344-359).          *)
StrictWeakOrder ==
  phase = "filtering" /\ next > Len(request.results) => \A i, j, k \in Elements(ranked) :
    LET a == request.results[i]  b == request.results[j]  c == request.results[k]
    IN /\ Before(a, b) => ~Before(b, a)
       /\ Before(a, b) /\ Before(b, c) => Before(a, c)
       /\ Tied(a, b) /\ Tied(b, c) => Tied(a, c)

Eligible == { i \in 1..Len(request.results) : ~LeavesOut(request.results[i]) }

(* The items come in order of preference, and in the compiler's order      *)
(* where nothing prefers one to the other; they are no more than asked     *)
(* for, no result that was cut is better than one that is listed, none is  *)
(* cut while there is room, and the counts are those before the cut (lines *)
(* 319-362, 467-468).                                                      *)
BestInOrder ==
  phase = "listed" =>
    LET result(n) == request.results[ranked[n]] IN
    /\ \A m, n \in 1..Len(ranked) :
         m < n => /\ ~Before(result(n), result(m))
                  /\ Tied(result(m), result(n)) => ranked[m] < ranked[n]
    /\ Len(ranked) <= request.maximumResults
    /\ Len(ranked) < request.maximumResults => Elements(ranked) = Eligible
    /\ \A i \in Eligible \ Elements(ranked), n \in 1..Len(ranked) :
         ~Before(request.results[i], result(n))
    /\ matched = Cardinality(Eligible)
    /\ hidden = IF Filtering THEN 0 ELSE Len(request.results) - matched

(* What the comment says of a filtered list: it "keeps them and ranks them *)
(* last", them being results that are not recommended or have an invalid   *)
(* type (lines 307-308, Docs/CompilerBridge.md 124-125).                   *)
FilteredRanksBadLast ==
  phase = "listed" /\ Filtering =>
    \A m, n \in 1..Len(ranked) :
      m < n /\ IsBad(request.results[ranked[m]]) => IsBad(request.results[ranked[n]])
=============================================================================
