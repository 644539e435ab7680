--------------------------- MODULE MCCompletionList ---------------------------
(* Three sets of requests: every well-formed text of up to MaxCharacters   *)
(* characters and every cursor; every sequence of up to MaxDiagnostics     *)
(* diagnostics and every outcome; and, with and without a filter, every    *)
(* list of up to MaxResults results from a small set with every group,     *)
(* both kinds of bad results, exact and inexact matches and ties.          *)
EXTENDS CompletionList, SequencesExt

CONSTANTS MaxCharacters, MaxDiagnostics, MaxResults

Characters ==
  {<<"word">>, <<"other">>, <<"lead", "continuation">>,
   <<"lead", "continuation", "continuation">>}

Plain ==
  [kind |-> "declaration", notRecommended |-> FALSE, relation |-> "unrelated",
   flair |-> FALSE, isOperator |-> FALSE, promoted |-> FALSE,
   match |-> "some", matchScore |-> 0, context |-> 0, name |-> 0]

Declarations ==
  { [Plain EXCEPT !.relation = r] : r \in {"unrelated", "invalid", "convertible"} }
    \union { [Plain EXCEPT !.relation = r, !.flair = TRUE] : r \in {"unrelated", "convertible"} }
    \union { [Plain EXCEPT !.notRecommended = TRUE, !.relation = r] :
             r \in {"invalid", "convertible"} }

Others ==
  { [Plain EXCEPT !.kind = "literal"],
    [Plain EXCEPT !.kind = "literal", !.relation = "convertible"],
    [Plain EXCEPT !.kind = "keyword", !.promoted = TRUE],
    [Plain EXCEPT !.kind = "builtinOperator"],
    [Plain EXCEPT !.isOperator = TRUE],
    [Plain EXCEPT !.match = "no"] }

(* An exact match has the best score of its name.                          *)
Matching ==
  { [Plain EXCEPT !.matchScore = m, !.context = c, !.name = 1] : m \in {0, 1}, c \in {1, 2} }
    \union { [Plain EXCEPT !.match = "exact", !.matchScore = 1, !.notRecommended = n] :
             n \in BOOLEAN }

Small ==
  [source |-> <<"word">>, offset |-> 1, maximumResults |-> 1,
   diagnostics |-> <<>>, results |-> <<>>, outcome |-> "success"]

(* The sequences of at most count members of S.                            *)
UpTo(count, S) == UNION { [1..n -> S] : n \in 0..count }

MCRequests ==
  UNION { { [Small EXCEPT !.source = s, !.offset = k] : k \in 0..(Len(s) + 1) } :
          s \in { FlattenSeq(t) : t \in UpTo(MaxCharacters, Characters) } }
  \union { [Small EXCEPT !.diagnostics = d, !.outcome = o] :
           d \in UpTo(MaxDiagnostics, {"error", "other"}), o \in Outcomes }
  \union { [Small EXCEPT !.results = l, !.maximumResults = m, !.offset = k] :
           l \in UpTo(MaxResults, Declarations \union Others \union Matching),
           m \in {1, 2}, k \in {0, 1} }
=============================================================================
