------------------------ MODULE AnnotationBackend_proofs ------------------------
(***************************************************************************)
(* For every file, every limit of the diagnostics and a cancellation at    *)
(* every moment: a document holds all references and the first of what the *)
(* compiler has to report of the code, SILGen never meets what a           *)
(* cancellation failed, and the request is a cancellable backend as the    *)
(* bridge expects it.                                                      *)
(***************************************************************************)
EXTENDS AnnotationBackend, FiniteSetTheorems, WellFoundedInduction, TLAPS

(* The places that a phase with expressions to treat begins with.          *)
Work ==
  CASE phase = "checking" -> EagerPlaces
    [] phase = "lowering" -> OnDemand
    [] OTHER -> Places

(* A phase treats its expressions in source order.                         *)
InSourceOrder ==
  /\ todo \subseteq Work
  /\ \A i \in Work \ todo, j \in todo : i < j
  /\ phase \notin {"checking", "walking", "lowering"} => todo = {}

(* What the phase says about the flag and what it has done.                *)
Control ==
  /\ flag <=> cancelledIn # "never"
  /\ phase = "done" <=> result # NoResult
  /\ unsolved # {} => flag
  /\ phase \in {"lowering", "passes"} => unsolved = {} /\ ~attached /\ checksSIL
  /\ phase = "passes" => cancelledIn \in {"never", "passes"}
  /\ phase = "writing" => cancelledIn \in {"never", "passes", "writing"}
  /\ phase = "done" => /\ result.status = "success" => cancelledIn \in {"never", "passes", "writing"}
                       /\ result.status = "cancelled" => cancelledIn # "never"

(* The expressions that the walk has reached, and those that the compiler  *)
(* has said everything of.                                                 *)
Visited ==
  IF phase \in {"preparing", "prepared", "checking"} THEN {}
  ELSE IF phase = "walking" THEN Places \ todo ELSE Places

Treated ==
  CASE phase \in {"preparing", "prepared"} -> {}
    [] phase = "checking" -> EagerPlaces \ todo
    [] phase = "walking" -> EagerPlaces \union (LatePlaces \ todo)
    [] phase = "lowering" -> TypeChecked \union (OnDemand \ todo)
    [] phase = "passes" -> Places
    [] phase \in {"writing", "done"} -> IF checksSIL THEN Places \union {0} ELSE TypeChecked

HasError(S) == \E i \in S : Diagnosis(i) = "error"

(* Nothing that is written can come from a solver that gave up.            *)
Untouched ==
  /\ phase \in {"checking", "walking"} => ~flag
  /\ phase = "done" => result.status = "success"

(* The phases that come after the decision on SIL.                         *)
Decided == {"lowering", "passes", "writing", "done"}

(* What is collected belongs to what was treated.                          *)
Collected ==
  Untouched =>
    /\ NamedOf(references, Visited)
    /\ FirstOf(diagnostics, Treated)
    /\ phase \notin {"writing", "done"} => (hadError <=> HasError(Treated))
    /\ phase \in Decided => (checksSIL <=> ~HasError(TypeChecked))

(* The inductive invariant.                                                *)
IInv == TypeOK /\ InSourceOrder /\ Control /\ Collected

-----------------------------------------------------------------------------
(* Facts about requests and lists.                                         *)

(* A request has a sequence of expressions.                                *)
LEMMA RequestParts ==
  ASSUME TypeOK
  PROVE  /\ request.code \in Seq(Expressions)
         /\ Len(request.code) \in Nat
         /\ Places \subseteq 0..Len(request.code) /\ 0 \notin Places
         /\ \A i \in Places : i \in Nat /\ request.code[i] \in Expressions
         /\ request.sil \in Diagnoses
         /\ Places = EagerPlaces \union LatePlaces \union OnDemand
         /\ TypeChecked = EagerPlaces \union LatePlaces
<1>1. request \in AnyRequest
  BY AnnotationAssumption DEF TypeOK
<1>2. request.code \in Seq(Expressions) /\ request.sil \in Diagnoses
  BY <1>1 DEF AnyRequest
<1>3. Len(request.code) \in Nat
  BY <1>2
<1>4. \A i \in Places : i \in Nat /\ request.code[i] \in Expressions
  BY <1>2, <1>3 DEF Places
<1>5. \A i \in Places : request.code[i].when \in {"check", "walk", "lowering"}
  BY <1>4 DEF Expressions, Times
<1>6. /\ Places = EagerPlaces \union LatePlaces \union OnDemand
      /\ TypeChecked = EagerPlaces \union LatePlaces
  BY <1>5 DEF EagerPlaces, LatePlaces, OnDemand, TypeChecked
<1> QED
  BY <1>2, <1>3, <1>4, <1>6 DEF Places

(* What an expression's diagnosis is.                                      *)
LEMMA DiagnosisType ==
  ASSUME TypeOK, NEW i \in Places \union {0}
  PROVE  Diagnosis(i) \in Diagnoses /\ i \in 0..Len(request.code)
<1>1. CASE i = 0
  BY <1>1, RequestParts DEF Diagnosis
<1>2. CASE i # 0
  BY <1>2, RequestParts DEF Diagnosis, Expressions
<1> QED
  BY <1>1, <1>2

(* The collector keeps its limit (lines 52-63).                            *)
LEMMA CollectType ==
  ASSUME TypeOK, NEW i \in 0..Len(request.code), NEW d \in Diagnoses, Report(d, i)
  PROVE  /\ hadError' \in BOOLEAN
         /\ diagnostics' \in Seq([severity : {"warning", "error"}, at : 0..Len(request.code)])
         /\ Len(diagnostics') <= MaximumDiagnostics
<1>1. hadError' \in BOOLEAN
  BY DEF TypeOK, Report
<1> DEFINE E == [severity : {"warning", "error"}, at : 0..Len(request.code)]
<1>2. diagnostics \in Seq(E) /\ Len(diagnostics) \in Nat /\ Len(diagnostics) <= MaximumDiagnostics
  BY DEF TypeOK
<1>3. CASE d # "note" /\ HasRoom(diagnostics)
  <2>1. [severity |-> d, at |-> i] \in E
    BY <1>3 DEF Diagnoses
  <2>2. diagnostics' = Append(diagnostics, [severity |-> d, at |-> i])
    BY <1>3 DEF Report, Collect
  <2> HIDE DEF E
  <2>3. diagnostics' \in Seq(E) /\ Len(diagnostics') = Len(diagnostics) + 1
    BY <1>2, <2>1, <2>2
  <2> QED
    BY <1>1, <1>2, <1>3, <2>3, AnnotationAssumption DEF HasRoom, E
<1>4. CASE ~(d # "note" /\ HasRoom(diagnostics))
  BY <1>1, <1>2, <1>4 DEF Report, Collect
<1> QED
  BY <1>3, <1>4

(* A reference that the walk records is one of the file (lines 107-130).   *)
LEMMA RecordType ==
  ASSUME TypeOK, NEW i \in Places, Record(i)
  PROVE  references' \in Seq([at : Places, kind : {"name", "type"}])
<1> DEFINE R == [at : Places, kind : {"name", "type"}]
           k == IF request.code[i].kind = "initializer" THEN "type" ELSE "name"
<1>1. references \in Seq(R)
  BY DEF TypeOK
<1>2. [at |-> i, kind |-> k] \in R
  OBVIOUS
<1>3. references' = references \/ references' = Append(references, [at |-> i, kind |-> k])
  BY DEF Record
<1> HIDE DEF R, k
<1>4. references' \in Seq(R)
  BY <1>1, <1>2, <1>3
<1> QED
  BY <1>4 DEF R

(* The diagnostics stay the first ones when those of a place that comes    *)
(* after all of them are collected.                                        *)
LEMMA CollectFirst ==
  ASSUME TypeOK, NEW S \in SUBSET (Places \union {0}), NEW i \in Places \union {0},
         \A j \in S : Precedes(j, i),
         FirstOf(diagnostics, S), Report(Diagnosis(i), i)
  PROVE  FirstOf(diagnostics', S \union {i})
<1> DEFINE d == Diagnosis(i)
           list == diagnostics
           listed == { list[n].at : n \in 1..Len(list) }
           own == { j \in S : Diagnosis(j) # "note" }
           listed1 == { diagnostics'[n].at : n \in 1..Len(diagnostics') }
           own1 == { j \in S \union {i} : Diagnosis(j) # "note" }
<1>1. /\ list \in Seq([severity : {"warning", "error"}, at : 0..Len(request.code)])
      /\ Len(list) \in Nat /\ Len(list) <= MaximumDiagnostics
      /\ MaximumDiagnostics \in Nat
  BY AnnotationAssumption DEF TypeOK
<1>2. /\ listed \subseteq own
      /\ \A m, n \in 1..Len(list) : m < n => Precedes(list[m].at, list[n].at)
      /\ \A n \in 1..Len(list) : list[n].severity = Diagnosis(list[n].at)
      /\ \A k \in own \ listed : /\ Len(list) = MaximumDiagnostics
                                 /\ \A j \in listed : Precedes(j, k)
  BY DEF FirstOf
<1>3. CASE d = "note"
  <2>1. diagnostics' = list /\ own1 = own
    BY <1>3 DEF Report, Collect
  <2> QED
    BY <1>2, <2>1 DEF FirstOf
<1>4. CASE d # "note" /\ ~HasRoom(list)
  <2>1. diagnostics' = list /\ own1 = own \union {i}
    BY <1>4 DEF Report, Collect
  <2>2. Len(list) = MaximumDiagnostics
    BY <1>1, <1>4 DEF HasRoom
  <2>3. \A j \in listed : Precedes(j, i)
    BY <1>2
  <2> HIDE DEF own, own1, listed
  <2>4. \A k \in own1 \ listed : \A j \in listed : Precedes(j, k)
    BY <1>2, <2>1, <2>3
  <2>5. listed \subseteq own1
    BY <1>2, <2>1
  <2> QED
    BY <1>2, <2>1, <2>2, <2>4, <2>5 DEF FirstOf, own1, listed
<1>5. CASE d # "note" /\ HasRoom(list)
  <2>1. diagnostics' = Append(list, [severity |-> d, at |-> i])
    BY <1>5 DEF Report, Collect
  <2>2. /\ Len(diagnostics') = Len(list) + 1
        /\ \A n \in 1..Len(list) : diagnostics'[n] = list[n]
        /\ diagnostics'[Len(list) + 1] = [severity |-> d, at |-> i]
    BY <1>1, <2>1
  <2>3. 1..Len(diagnostics') = 1..Len(list) \union {Len(list) + 1}
    BY <1>1, <2>2
  <2>4. own1 = own \union {i}
    BY <1>5
  <2>5. listed1 = listed \union {i}
    BY <2>2, <2>3
  <2>6. \A k \in own \ listed : FALSE
    BY <1>1, <1>2, <1>5 DEF HasRoom
  <2>7. \A m, n \in 1..Len(diagnostics') : m < n =>
          Precedes(diagnostics'[m].at, diagnostics'[n].at)
    <3> SUFFICES ASSUME NEW m \in 1..Len(diagnostics'), NEW n \in 1..Len(diagnostics'), m < n
                 PROVE  Precedes(diagnostics'[m].at, diagnostics'[n].at)
      OBVIOUS
    <3>1. m \in 1..Len(list)
      BY <1>1, <2>2
    <3>2. CASE n \in 1..Len(list)
      BY <1>2, <2>2, <3>1, <3>2
    <3>3. CASE n = Len(list) + 1
      <4>1. list[m].at \in S
        BY <1>2, <3>1
      <4> QED
        BY <2>2, <3>1, <3>3, <4>1
    <3> QED
      BY <2>3, <3>2, <3>3
  <2>8. \A n \in 1..Len(diagnostics') : diagnostics'[n].severity = Diagnosis(diagnostics'[n].at)
    BY <1>2, <2>2, <2>3
  <2> HIDE DEF own, own1, listed, listed1
  <2>9. listed1 \subseteq own1 /\ own1 \ listed1 = {}
    BY <1>2, <2>4, <2>5, <2>6
  <2> QED
    BY <2>7, <2>8, <2>9 DEF FirstOf, own1, listed1
<1> QED
  BY <1>3, <1>4, <1>5

(* The references stay complete when a later expression is recorded.       *)
LEMMA RecordNamed ==
  ASSUME TypeOK, NEW S \in SUBSET Places, NEW i \in Places, \A j \in S : j < i,
         NamedOf(references, S), Record(i)
  PROVE  NamedOf(references', S \union {i})
<1> DEFINE list == references
<1>1. list \in Seq([at : Places, kind : {"name", "type"}]) /\ Len(list) \in Nat
  BY DEF TypeOK
<1>2. /\ { list[n].at : n \in 1..Len(list) } = { j \in S : IsNamed(j) }
      /\ \A m, n \in 1..Len(list) : m < n => list[m].at < list[n].at
      /\ \A n \in 1..Len(list) :
           list[n].kind = "type" <=> request.code[list[n].at].kind = "initializer"
  BY DEF NamedOf
<1>3. CASE ~IsNamed(i)
  <2>1. references' = list /\ { j \in S \union {i} : IsNamed(j) } = { j \in S : IsNamed(j) }
    BY <1>3 DEF Record
  <2> QED
    BY <1>2, <2>1 DEF NamedOf
<1>4. CASE IsNamed(i)
  <2> DEFINE k == IF request.code[i].kind = "initializer" THEN "type" ELSE "name"
  <2>1. references' = Append(list, [at |-> i, kind |-> k])
    BY <1>4 DEF Record
  <2>2. /\ Len(references') = Len(list) + 1
        /\ \A n \in 1..Len(list) : references'[n] = list[n]
        /\ references'[Len(list) + 1] = [at |-> i, kind |-> k]
    BY <1>1, <2>1
  <2>3. 1..Len(references') = 1..Len(list) \union {Len(list) + 1}
    BY <1>1, <2>2
  <2>4. { references'[n].at : n \in 1..Len(references') } = { list[n].at : n \in 1..Len(list) } \union {i}
    BY <2>2, <2>3
  <2>5. { j \in S \union {i} : IsNamed(j) } = { j \in S : IsNamed(j) } \union {i}
    BY <1>4
  <2>6. \A m, n \in 1..Len(references') : m < n => references'[m].at < references'[n].at
    <3> SUFFICES ASSUME NEW m \in 1..Len(references'), NEW n \in 1..Len(references'), m < n
                 PROVE  references'[m].at < references'[n].at
      OBVIOUS
    <3>1. m \in 1..Len(list)
      BY <1>1, <2>2
    <3>2. CASE n \in 1..Len(list)
      BY <1>2, <2>2, <3>1, <3>2
    <3>3. CASE n = Len(list) + 1
      <4>1. list[m].at \in S
        BY <1>2, <3>1
      <4> QED
        BY <2>2, <3>1, <3>3, <4>1
    <3> QED
      BY <2>3, <3>2, <3>3
  <2>7. \A n \in 1..Len(references') :
          references'[n].kind = "type" <=> request.code[references'[n].at].kind = "initializer"
    BY <1>2, <2>2, <2>3
  <2> QED
    BY <1>2, <2>4, <2>5, <2>6, <2>7 DEF NamedOf
<1> QED
  BY <1>3, <1>4

-----------------------------------------------------------------------------
(* Types and the order of work.                                            *)

LEMMA InitTypes == Init => TypeOK /\ InSourceOrder
<1> SUFFICES ASSUME Init PROVE TypeOK /\ InSourceOrder
  OBVIOUS
<1>1. request \in AnyRequest
  BY AnnotationAssumption DEF Init
<1>2. Len(request.code) \in Nat
  BY <1>1 DEF AnyRequest
<1>3. <<>> \in Seq([severity : {"warning", "error"}, at : 0..Len(request.code)])
      /\ <<>> \in Seq([at : Places, kind : {"name", "type"}]) /\ Len(<<>>) = 0
  OBVIOUS
<1>4. Len(diagnostics) <= MaximumDiagnostics
  BY <1>3, AnnotationAssumption DEF Init
<1>5. TypeOK
  BY <1>2, <1>3, <1>4 DEF Init, TypeOK, Phases
<1> QED
  BY <1>5 DEF Init, InSourceOrder

(* The expression that is treated comes next in source order.              *)
LEMMA TreatTypes ==
  ASSUME TypeOK, InSourceOrder, NEW p \in {"checking", "walking", "lowering"}, NEW i, Treat(p, i)
  PROVE  /\ i \in Places /\ i \in 0..Len(request.code) /\ todo' \subseteq Places
         /\ i \in Work /\ \A j \in Work \ todo : j < i
         /\ InSourceOrder'
<1>1. i \in todo /\ todo' = todo \ {i} /\ phase' = phase /\ request' = request /\ phase = p
  BY DEF Treat
<1>2. todo \subseteq Places
  BY DEF TypeOK
<1>3. Work' = Work /\ Places \subseteq 0..Len(request.code)
  BY <1>1, RequestParts DEF Work, EagerPlaces, OnDemand, Places
<1>4. todo \subseteq Work /\ \A k \in Work \ todo, j \in todo : k < j
  BY DEF InSourceOrder
<1>5. \A j \in todo' : i < j
  <2>1. \A j \in todo : i <= j
    BY DEF Treat
  <2>2. \A j \in todo : j \in Nat
    BY <1>2, RequestParts
  <2> QED
    BY <1>1, <2>1, <2>2
<1>6. todo' \subseteq Work' /\ \A k \in Work' \ todo', j \in todo' : k < j
  BY <1>1, <1>3, <1>4, <1>5
<1> QED
  BY <1>1, <1>2, <1>3, <1>4, <1>6 DEF InSourceOrder

(* A request that returns has a result.                                    *)
LEMMA FinishTypes ==
  ASSUME TypeOK, InSourceOrder, NEW status \in {"success", "failure", "cancelled"}, Finish(status)
  PROVE  TypeOK' /\ InSourceOrder'
         /\ result' \in [status : {"success", "failure", "cancelled"}, canRunAgain : {TRUE}]
         /\ result'.status = status
<1>1. /\ result' \in [status : {"success", "failure", "cancelled"}, canRunAgain : {TRUE}]
      /\ result'.status = status
  BY DEF Finish, CanRunAgain
<1>2. phase' = "done" /\ todo' = {} /\ UNCHANGED <<request, cancellation, attached, reports,
                                                   references, checksSIL>>
  BY DEF Finish
<1>3. TypeOK'
  BY <1>1, <1>2 DEF TypeOK, Phases, Places, cancellation, reports
<1> QED
  BY <1>1, <1>2, <1>3 DEF InSourceOrder

LEMMA EnterTypes ==
  ASSUME TypeOK, NEW p \in Phases, NEW work \in SUBSET Places, Enter(p, work),
         attached' \in BOOLEAN, checksSIL' \in BOOLEAN
  PROVE  TypeOK'
BY DEF Enter, TypeOK, reports, cancellation, Places

LEMMA NextTypes == TypeOK /\ InSourceOrder /\ [Next]_vars => TypeOK' /\ InSourceOrder'
<1> SUFFICES ASSUME TypeOK, InSourceOrder, [Next]_vars PROVE TypeOK' /\ InSourceOrder'
  OBVIOUS
<1>p. EagerPlaces \subseteq Places /\ OnDemand \subseteq Places
  BY DEF EagerPlaces, OnDemand
<1>1. CASE UNCHANGED vars
  BY <1>1 DEF vars, reports, cancellation, TypeOK, InSourceOrder, Work, EagerPlaces, OnDemand, Places
<1>2. CASE Cancel
  BY <1>2 DEF Cancel, reports, TypeOK, InSourceOrder, Work, EagerPlaces, OnDemand, Places
<1>3. CASE RejectArguments \/ FailSetup \/ RejectPrimary \/ StopCancelled \/ WriteDocument
  BY <1>3, FinishTypes DEF RejectArguments, FailSetup, RejectPrimary, StopCancelled, WriteDocument
<1>4. CASE Prepare \/ SetUp \/ StartWalk \/ SkipSIL \/ StartSIL \/ StartPasses
  <2>1. attached' \in BOOLEAN /\ checksSIL' \in BOOLEAN
    BY <1>4 DEF TypeOK, Prepare, SetUp, Attach, StartWalk, SkipSIL, StartSIL, Detach, StartPasses
  <2>2. TypeOK'
    BY <1>4, <1>p, <2>1, EnterTypes
       DEF Prepare, SetUp, StartWalk, SkipSIL, StartSIL, StartPasses, GoOn, Phases
  <2>3. InSourceOrder'
    BY <1>4 DEF Prepare, SetUp, StartWalk, SkipSIL, StartSIL, StartPasses, GoOn, Enter,
                InSourceOrder, Work, EagerPlaces, OnDemand, Places
  <2> QED
    BY <2>2, <2>3
<1>5. ASSUME NEW i \in todo, CheckExpression(i) \/ CheckLateExpression(i)
      PROVE  TypeOK' /\ InSourceOrder'
  <2>1. PICK p \in {"checking", "walking"} : Treat(p, i)
    BY <1>5 DEF CheckExpression, CheckLateExpression
  <2>2. i \in Places /\ i \in 0..Len(request.code) /\ todo' \subseteq Places /\ InSourceOrder'
    BY <2>1, TreatTypes
  <2>3. request.code[i].diagnosis \in Diagnoses
    BY <2>2, RequestParts DEF Expressions
  <2>4. /\ hadError' \in BOOLEAN
        /\ diagnostics' \in Seq([severity : {"warning", "error"}, at : 0..Len(request.code)])
        /\ Len(diagnostics') <= MaximumDiagnostics
    BY <1>5, <2>2, <2>3, CollectType DEF CheckExpression, CheckLateExpression, Solve
  <2>5. references' \in Seq([at : Places, kind : {"name", "type"}])
    BY <1>5, <2>2, RecordType DEF CheckExpression, CheckLateExpression, TypeOK
  <2> QED
    BY <1>5, <2>1, <2>2, <2>4, <2>5
       DEF Treat, TypeOK, CheckExpression, CheckLateExpression, Solve, cancellation, Places
<1>6. ASSUME NEW i \in todo, AbandonExpression(i) \/ MissExpression(i)
      PROVE  TypeOK' /\ InSourceOrder'
  <2>1. PICK p \in {"checking", "walking"} : Treat(p, i)
    BY <1>6 DEF AbandonExpression, MissExpression
  <2>2. i \in Places /\ i \in 0..Len(request.code) /\ todo' \subseteq Places /\ InSourceOrder'
    BY <2>1, TreatTypes
  <2>3. PICK d \in {"note", "error"} : Report(d, i)
    BY <1>6 DEF AbandonExpression, MissExpression, GiveUp
  <2>4. /\ hadError' \in BOOLEAN
        /\ diagnostics' \in Seq([severity : {"warning", "error"}, at : 0..Len(request.code)])
        /\ Len(diagnostics') <= MaximumDiagnostics
    BY <2>2, <2>3, CollectType DEF Diagnoses
  <2> QED
    BY <1>6, <2>1, <2>2, <2>4
       DEF Treat, TypeOK, AbandonExpression, MissExpression, GiveUp, cancellation, Places
<1>7. ASSUME NEW i \in todo, VisitExpression(i)
      PROVE  TypeOK' /\ InSourceOrder'
  <2>1. i \in Places /\ todo' \subseteq Places /\ InSourceOrder'
    BY <1>7, TreatTypes DEF VisitExpression
  <2>2. references' \in Seq([at : Places, kind : {"name", "type"}])
    BY <1>7, <2>1, RecordType DEF VisitExpression
  <2> QED
    BY <1>7, <2>1, <2>2 DEF Treat, TypeOK, VisitExpression, reports, cancellation, Places
<1>8. ASSUME NEW i \in todo, LowerOnDemand(i)
      PROVE  TypeOK' /\ InSourceOrder'
  <2>1. Treat("lowering", i) /\ UNCHANGED references
    BY <1>8 DEF LowerOnDemand
  <2>2. i \in Places /\ i \in 0..Len(request.code) /\ todo' \subseteq Places /\ InSourceOrder'
    BY <2>1, TreatTypes
  <2>3. PICK d \in Diagnoses : Report(d, i)
    <3>1. request.code[i].diagnosis \in Diagnoses
      BY <2>2, RequestParts DEF Expressions
    <3> QED
      BY <1>8, <3>1 DEF LowerOnDemand, Solve, GiveUp, Diagnoses
  <2>4. unsolved' \subseteq Places
    BY <1>8, <2>2 DEF LowerOnDemand, Solve, GiveUp, TypeOK
  <2>5. /\ hadError' \in BOOLEAN
        /\ diagnostics' \in Seq([severity : {"warning", "error"}, at : 0..Len(request.code)])
        /\ Len(diagnostics') <= MaximumDiagnostics
    BY <2>2, <2>3, CollectType
  <2> QED
    BY <2>1, <2>2, <2>4, <2>5 DEF Treat, TypeOK, cancellation, Places
<1>9. CASE RunPasses
  <2>1. /\ hadError' \in BOOLEAN
        /\ diagnostics' \in Seq([severity : {"warning", "error"}, at : 0..Len(request.code)])
        /\ Len(diagnostics') <= MaximumDiagnostics
    <3>1. Report(request.sil, 0) /\ request.sil \in Diagnoses /\ 0 \in 0..Len(request.code)
      BY <1>9, RequestParts DEF RunPasses
    <3> QED
      BY <3>1, CollectType
  <2> QED
    BY <1>9, <2>1 DEF RunPasses, TypeOK, Phases, cancellation, Places, InSourceOrder, Work
<1> QED
  BY <1>1, <1>2, <1>3, <1>4, <1>5, <1>6, <1>7, <1>8, <1>9 DEF Next, Advance, Returned

-----------------------------------------------------------------------------
(* The flag, the phases and the result.                                    *)

LEMMA InitControl == Init => Control
BY DEF Init, Control

LEMMA NextControl ==
  TypeOK /\ InSourceOrder /\ Control /\ [Next]_vars => Control'
<1> SUFFICES ASSUME TypeOK, InSourceOrder, Control, [Next]_vars PROVE Control'
  OBVIOUS
<1>1. CASE UNCHANGED vars
  BY <1>1 DEF vars, reports, cancellation, Control
<1>2. CASE Cancel
  BY <1>2 DEF Cancel, reports, TypeOK, Control, Phases
<1>3. CASE RejectArguments \/ FailSetup \/ RejectPrimary \/ StopCancelled \/ WriteDocument
  <2>1. PICK status \in {"success", "failure", "cancelled"} : Finish(status)
    BY <1>3 DEF RejectArguments, FailSetup, RejectPrimary, StopCancelled, WriteDocument
  <2>2. result' # NoResult
    BY <2>1, FinishTypes, AnnotationAssumption
  <2> QED
    BY <1>3, <2>1, <2>2 DEF RejectArguments, FailSetup, RejectPrimary, StopCancelled,
      WriteDocument, Finish, CanRunAgain, Control, cancellation, reports
<1>4. CASE Prepare \/ SetUp \/ StartWalk \/ SkipSIL \/ StartSIL \/ StartPasses
  BY <1>4 DEF Prepare, SetUp, Attach, StartWalk, SkipSIL, StartSIL, Detach, StartPasses, GoOn,
              Checks, Enter, Control, cancellation, reports
<1>5. ASSUME NEW i \in todo, CheckExpression(i) \/ CheckLateExpression(i) \/ VisitExpression(i)
      PROVE  Control'
  BY <1>5 DEF CheckExpression, CheckLateExpression, VisitExpression, Treat, Solve, Control,
              cancellation, reports
<1>6. ASSUME NEW i \in todo, AbandonExpression(i) \/ MissExpression(i)
      PROVE  Control'
  BY <1>6 DEF AbandonExpression, MissExpression, Treat, GiveUp, SolverGivesUp, Control, cancellation
<1>7. ASSUME NEW i \in todo, LowerOnDemand(i) PROVE Control'
  BY <1>7 DEF LowerOnDemand, Treat, Solve, GiveUp, SolverGivesUp, Control, cancellation
<1>8. CASE RunPasses
  BY <1>8 DEF RunPasses, Control, cancellation
<1> QED
  BY <1>1, <1>2, <1>3, <1>4, <1>5, <1>6, <1>7, <1>8 DEF Next, Advance, Returned

-----------------------------------------------------------------------------
(* What is collected.                                                      *)

LEMMA InitCollected == Init => Collected
<1> SUFFICES ASSUME Init PROVE Collected
  OBVIOUS
<1>1. Treated = {} /\ Visited = {} /\ phase \notin Decided /\ ~hadError
  BY DEF Init, Treated, Visited, Decided
<1>2. NamedOf(references, {}) /\ FirstOf(diagnostics, {})
  BY DEF Init, NamedOf, FirstOf
<1> QED
  BY <1>1, <1>2 DEF Collected, HasError

(* The file does not change, so its facts can be stated of the next lists. *)
LEMMA CollectedNext ==
  ASSUME request' = request,
         Untouched' =>
           /\ NamedOf(references', Visited')
           /\ FirstOf(diagnostics', Treated')
           /\ phase' \notin {"writing", "done"} => (hadError' <=> HasError(Treated'))
           /\ phase' \in Decided => (checksSIL' <=> ~HasError(TypeChecked))
  PROVE  Collected'
<1>1. NamedOf(references', Visited') => NamedOf(references, Visited)'
  BY DEF NamedOf, IsNamed
<1>2. FirstOf(diagnostics', Treated') => FirstOf(diagnostics, Treated)'
  <2>1. \A i : Diagnosis(i)' = Diagnosis(i)
    BY DEF Diagnosis
  <2>2. \A i, j : Precedes(i, j)' <=> Precedes(i, j)
    BY DEF Precedes, Stage
  <2> QED
    BY <2>1, <2>2 DEF FirstOf
<1>3. HasError(Treated') <=> HasError(Treated)'
  BY DEF HasError, Diagnosis
<1>4. HasError(TypeChecked) <=> HasError(TypeChecked)'
  BY DEF HasError, Diagnosis, TypeChecked, OnDemand, Places
<1> QED
  BY <1>1, <1>2, <1>3, <1>4 DEF Collected, Decided

(* A step that collects nothing and treats no more.                        *)
LEMMA CollectedStays ==
  ASSUME Collected, request' = request, references' = references, diagnostics' = diagnostics,
         hadError' = hadError, Untouched' => Untouched,
         Visited' = Visited, Treated' = Treated,
         phase' \in Decided => (checksSIL' <=> ~HasError(TypeChecked)),
         phase' \notin {"writing", "done"} => phase \notin {"writing", "done"}
  PROVE  Collected'
<1>1. Untouched' => /\ NamedOf(references', Visited')
                    /\ FirstOf(diagnostics', Treated')
  BY DEF Collected
<1>2. Untouched' /\ phase' \notin {"writing", "done"} => (hadError' <=> HasError(Treated'))
  BY DEF Collected
<1> QED
  BY <1>1, <1>2, CollectedNext

(* The compiler has said everything of a place that comes after the others. *)
LEMMA CollectedMore ==
  ASSUME TypeOK, Collected, Untouched, NEW i \in Places,
         NEW S \in SUBSET Places, \A j \in S : Precedes(j, i), Treated = S,
         phase \in {"checking", "walking", "lowering"}, Report(request.code[i].diagnosis, i)
  PROVE  /\ FirstOf(diagnostics', S \union {i})
         /\ hadError' <=> HasError(S \union {i})
<1>1. FirstOf(diagnostics, S) /\ (hadError <=> HasError(S))
  BY DEF Collected
<1>2. Diagnosis(i) = request.code[i].diagnosis
  BY RequestParts DEF Diagnosis
<1>3. FirstOf(diagnostics', S \union {i})
  BY <1>1, <1>2, CollectFirst
<1>4. hadError' <=> (hadError \/ Diagnosis(i) = "error")
  BY <1>2 DEF Report, TypeOK
<1> QED
  BY <1>1, <1>3, <1>4 DEF HasError

LEMMA NextCollected ==
  ASSUME IInv, [Next]_vars, TypeOK'
  PROVE  Collected'
<1> USE DEF IInv
<1>p. TypeOK /\ InSourceOrder /\ Control /\ Collected
  OBVIOUS
<1>r. request' = request
  BY DEF Next, Advance, vars, Cancel, RejectArguments, FailSetup, RejectPrimary, StopCancelled,
         WriteDocument, Finish, Prepare, SetUp, StartWalk, SkipSIL, StartSIL, StartPasses, GoOn,
         Enter, CheckExpression, CheckLateExpression, AbandonExpression, MissExpression,
         VisitExpression, LowerOnDemand, Treat, RunPasses, Returned
<1>w. /\ Places' = Places /\ EagerPlaces' = EagerPlaces /\ LatePlaces' = LatePlaces
      /\ OnDemand' = OnDemand /\ TypeChecked' = TypeChecked
  BY <1>r DEF Places, EagerPlaces, LatePlaces, OnDemand, TypeChecked
<1>x. HasError(TypeChecked)' <=> HasError(TypeChecked)
  BY <1>r, <1>w DEF HasError, Diagnosis
<1>1. CASE UNCHANGED vars
  BY <1>1, <1>w, CollectedStays
     DEF vars, reports, cancellation, Untouched, Visited, Treated, Collected, Decided
<1>2. CASE Cancel
  BY <1>2, <1>w, CollectedStays DEF Cancel, reports, Untouched, Visited, Treated, Collected, Decided
<1>3. CASE RejectArguments \/ FailSetup \/ RejectPrimary \/ StopCancelled
  <2>1. PICK status \in {"failure", "cancelled"} : Finish(status)
    BY <1>3 DEF RejectArguments, FailSetup, RejectPrimary, StopCancelled
  <2>2. ~Untouched'
    BY <2>1 DEF Finish, Untouched
  <2> QED
    BY <1>r, <2>2, CollectedNext
<1>4. CASE WriteDocument
  BY <1>4, <1>r, <1>w, CollectedStays
     DEF WriteDocument, Finish, cancellation, reports, Untouched, Visited, Treated, Collected, Decided
<1>5. CASE Prepare
  BY <1>5, <1>r, <1>w, CollectedStays
     DEF Prepare, GoOn, Enter, cancellation, reports, Untouched, Visited, Treated, Collected, Decided
<1>6. CASE SetUp
  BY <1>6, <1>r, <1>w, CollectedStays
     DEF SetUp, GoOn, Enter, cancellation, reports, Untouched, Visited, Treated, Collected, Decided
<1>7. CASE StartWalk
  <2>1. Treated' = Treated /\ Visited' = Visited
    BY <1>7, <1>w DEF StartWalk, GoOn, Enter, Treated, Visited, LatePlaces
  <2> QED
    BY <1>7, <1>r, <2>1, CollectedStays
       DEF StartWalk, GoOn, Enter, Checks, cancellation, reports, Untouched, Decided
<1>8. CASE SkipSIL
  <2>1. Treated = TypeChecked /\ Visited = Places
    BY <1>8, RequestParts DEF SkipSIL, GoOn, Treated, Visited
  <2>2. Treated' = TypeChecked /\ Visited' = Places
    BY <1>8, <1>w DEF SkipSIL, GoOn, Enter, Treated, Visited
  <2>3. Untouched /\ hadError
    BY <1>8 DEF SkipSIL, GoOn, Checks, Untouched
  <2>4. HasError(TypeChecked)
    BY <1>8, <2>1, <2>3 DEF SkipSIL, GoOn, Collected
  <2> QED
    BY <1>8, <1>r, <2>1, <2>2, <2>3, <2>4, CollectedStays DEF SkipSIL, GoOn, Enter, reports
<1>9. CASE StartSIL
  <2>1. Treated = TypeChecked /\ Visited = Places
    BY <1>9, RequestParts DEF StartSIL, GoOn, Treated, Visited
  <2>2. Treated' = TypeChecked /\ Visited' = Places
    BY <1>9, <1>w DEF StartSIL, GoOn, Enter, Treated, Visited
  <2>3. Untouched /\ ~hadError /\ checksSIL'
    BY <1>9 DEF StartSIL, GoOn, Checks, Untouched
  <2>4. ~HasError(TypeChecked)
    BY <1>9, <2>1, <2>3 DEF StartSIL, GoOn, Collected
  <2> QED
    BY <1>9, <1>r, <2>1, <2>2, <2>3, <2>4, CollectedStays DEF StartSIL, GoOn, Enter, reports
<1>10. CASE StartPasses
  <2>1. Treated = Places /\ Visited = Places /\ Treated' = Places /\ Visited' = Places
    BY <1>10, <1>w, RequestParts DEF StartPasses, GoOn, Enter, Treated, Visited, TypeChecked
  <2>2. Untouched /\ checksSIL' = checksSIL /\ phase = "lowering"
    BY <1>10 DEF StartPasses, GoOn, Untouched
  <2>3. checksSIL <=> ~HasError(TypeChecked)
    BY <2>2 DEF Collected, Decided
  <2> QED
    BY <1>10, <1>r, <2>1, <2>2, <2>3, CollectedStays DEF StartPasses, GoOn, Enter, reports
<1>11. ASSUME NEW i \in todo, CheckExpression(i) PROVE Collected'
  <2>1. Treat("checking", i) /\ phase = "checking" /\ phase' = "checking" /\ flag' = flag
        /\ i \in todo /\ todo' = todo \ {i}
    BY <1>11 DEF CheckExpression, Treat, cancellation
  <2>2. i \in Places /\ i \in EagerPlaces /\ \A j \in EagerPlaces \ todo : j < i
    BY <2>1, <1>p, TreatTypes DEF Work
  <2>3. Treated = EagerPlaces \ todo /\ Treated' = (EagerPlaces \ todo) \union {i}
        /\ Visited' = Visited
    BY <2>1, <2>2, <1>w DEF Treated, Visited
  <2>4. \A j \in EagerPlaces \ todo : Precedes(j, i)
    BY <2>2, RequestParts DEF Precedes, Stage, EagerPlaces
  <2>5. EagerPlaces \ todo \in SUBSET Places
    BY DEF EagerPlaces
  <2> SUFFICES ASSUME Untouched PROVE Collected'
    BY <2>1, <1>r, CollectedNext DEF Untouched
  <2>6. /\ FirstOf(diagnostics', (EagerPlaces \ todo) \union {i})
        /\ hadError' <=> HasError((EagerPlaces \ todo) \union {i})
    BY <1>11, <2>1, <2>2, <2>3, <2>4, <2>5, CollectedMore DEF CheckExpression, Solve
  <2>7. NamedOf(references', Visited')
    BY <1>11, <2>3 DEF CheckExpression, Collected
  <2> QED
    BY <1>r, <2>1, <2>3, <2>6, <2>7, CollectedNext DEF Decided
<1>12. ASSUME NEW i \in todo, CheckLateExpression(i) \/ VisitExpression(i) PROVE Collected'
  <2>1. Treat("walking", i) /\ phase = "walking" /\ phase' = "walking" /\ flag' = flag
        /\ i \in todo /\ todo' = todo \ {i} /\ Record(i)
    BY <1>12 DEF CheckLateExpression, VisitExpression, Treat, cancellation
  <2>2. i \in Places /\ \A j \in Places \ todo : j < i
    BY <2>1, <1>p, TreatTypes DEF Work
  <2>3. Visited = Places \ todo /\ Visited' = (Places \ todo) \union {i}
    BY <2>1, <2>2, <1>w DEF Visited
  <2> SUFFICES ASSUME Untouched PROVE Collected'
    BY <2>1, <1>r, CollectedNext DEF Untouched
  <2>4. NamedOf(references', Visited')
    <3>1. NamedOf(references, Places \ todo)
      BY <2>3 DEF Collected
    <3>2. NamedOf(references', (Places \ todo) \union {i})
      BY <3>1, <2>1, <2>2, RecordNamed
    <3> QED
      BY <3>2, <2>3
  <2> DEFINE S == EagerPlaces \union (LatePlaces \ todo)
  <2>5. Treated = S /\ S \in SUBSET Places
    BY <2>1, RequestParts DEF Treated
  <2>6. CASE VisitExpression(i)
    <3>1. i \notin LatePlaces
      BY <2>6 DEF VisitExpression
    <3>2. Treated' = S
      BY <2>1, <3>1, <1>w DEF Treated
    <3>3. FirstOf(diagnostics, S) /\ (hadError <=> HasError(S))
      BY <2>1, <2>5 DEF Collected
    <3>4. diagnostics' = diagnostics /\ hadError' = hadError
      BY <2>6 DEF VisitExpression, reports
    <3> HIDE DEF S
    <3> QED
      BY <1>r, <2>1, <2>4, <3>2, <3>3, <3>4, CollectedNext DEF Decided
  <2>7. CASE CheckLateExpression(i)
    <3>1. \A j \in S : Precedes(j, i)
      BY <2>2, <2>7, RequestParts
         DEF CheckLateExpression, Precedes, Stage, EagerPlaces, LatePlaces
    <3>3. Treated' = S \union {i}
      BY <2>1, <2>7, <1>w DEF Treated, CheckLateExpression
    <3> HIDE DEF S
    <3>2. FirstOf(diagnostics', S \union {i}) /\ (hadError' <=> HasError(S \union {i}))
      BY <2>1, <2>2, <2>5, <2>7, <3>1, CollectedMore DEF CheckLateExpression, Solve
    <3> QED
      BY <1>r, <2>1, <2>4, <3>2, <3>3, CollectedNext DEF Decided
  <2> QED
    BY <1>12, <2>6, <2>7
<1>13. ASSUME NEW i \in todo, AbandonExpression(i) \/ MissExpression(i) PROVE Collected'
  <2>1. phase' \in {"checking", "walking"} /\ flag'
    BY <1>13 DEF AbandonExpression, MissExpression, Treat, GiveUp, SolverGivesUp, cancellation
  <2>2. ~Untouched'
    BY <2>1 DEF Untouched
  <2> QED
    BY <1>r, <2>2, CollectedNext
<1>14. ASSUME NEW i \in todo, LowerOnDemand(i) PROVE Collected'
  <2>1. /\ Treat("lowering", i) /\ phase = "lowering" /\ phase' = "lowering"
        /\ i \in todo /\ todo' = todo \ {i} /\ references' = references /\ checksSIL' = checksSIL
    BY <1>14 DEF LowerOnDemand, Treat
  <2>2. i \in Places /\ i \in OnDemand /\ \A j \in OnDemand \ todo : j < i
    BY <2>1, <1>p, TreatTypes DEF Work
  <2> DEFINE S == TypeChecked \union (OnDemand \ todo)
  <2>3. Treated = S /\ S \in SUBSET Places /\ Treated' = S \union {i} /\ Visited' = Visited
    BY <2>1, <2>2, <1>w DEF Treated, Visited, TypeChecked, OnDemand
  <2>4. \A j \in S : Precedes(j, i)
    BY <2>2, RequestParts DEF Precedes, Stage, EagerPlaces, LatePlaces, OnDemand
  <2>5. Untouched /\ Report(request.code[i].diagnosis, i)
    BY <1>14, <2>1 DEF Untouched, LowerOnDemand, Solve, GiveUp, SolverGivesUp, Control
  <2>6. NamedOf(references, Visited) /\ (checksSIL <=> ~HasError(TypeChecked))
    BY <2>1, <2>5 DEF Collected, Decided
  <2> HIDE DEF S
  <2>7. FirstOf(diagnostics', S \union {i}) /\ (hadError' <=> HasError(S \union {i}))
    BY <2>1, <2>2, <2>3, <2>4, <2>5, CollectedMore
  <2> QED
    BY <1>r, <2>1, <2>3, <2>6, <2>7, CollectedNext
<1>15. CASE RunPasses
  <2>1. phase = "passes" /\ phase' = "writing" /\ Report(request.sil, 0) /\ checksSIL /\ checksSIL'
    BY <1>15 DEF RunPasses, Control
  <2>2. Treated = Places /\ Treated' = Places \union {0} /\ Visited' = Visited
    BY <2>1, <1>w DEF Treated, Visited
  <2>3. FirstOf(diagnostics, Places) /\ NamedOf(references, Visited) /\ ~HasError(TypeChecked)
    BY <2>1, <2>2 DEF Collected, Untouched, Decided
  <2>4. \A j \in Places : Precedes(j, 0)
    <3>1. \A j \in Places : Stage(j) \in {0, 1, 2} /\ Stage(0) = 3
      BY RequestParts DEF Stage, Expressions, Times
    <3> QED
      BY <3>1 DEF Precedes
  <2>5. Report(Diagnosis(0), 0)
    BY <2>1 DEF Diagnosis
  <2>6. FirstOf(diagnostics', Places \union {0})
    BY <2>3, <2>4, <2>5, CollectFirst
  <2>7. references' = references
    BY <1>15 DEF RunPasses
  <2> QED
    BY <1>r, <2>1, <2>2, <2>3, <2>6, <2>7, CollectedNext
<1> QED
  BY <1>1, <1>2, <1>3, <1>4, <1>5, <1>6, <1>7, <1>8, <1>9, <1>10, <1>11, <1>12, <1>13, <1>14,
     <1>15 DEF Next, Advance, Returned

-----------------------------------------------------------------------------
(* The theorems.                                                           *)

(* The inductive invariant holds always.                                   *)
THEOREM AnnotationInvariant == Spec => []IInv
<1>1. Init => IInv
  BY InitTypes, InitControl, InitCollected DEF IInv
<1>2. IInv /\ [Next]_vars => IInv'
  BY NextTypes, NextControl, NextCollected DEF IInv
<1> QED
  BY <1>1, <1>2, PTL DEF Spec

(* The collector never exceeds its limit (lines 52-63).                    *)
THEOREM AnnotationTypes == Spec => []TypeOK
<1>1. IInv => TypeOK
  BY DEF IInv
<1> QED
  BY <1>1, AnnotationInvariant, PTL

(* No document holds partial references (lines 191, 206-207).              *)
THEOREM ReferencesAreComplete == Spec => []CompleteReferences
<1>1. IInv => CompleteReferences
  BY DEF IInv, Collected, CompleteReferences, Succeeded, Untouched, Visited
<1> QED
  BY <1>1, AnnotationInvariant, PTL

(* A document's diagnostics are the first of what the compiler has to      *)
(* report of the code, and SIL is left out exactly when the type check or  *)
(* the walk met an error in it (lines 52-63, 215).                         *)
THEOREM DiagnosticsAreFirst == Spec => []FirstDiagnostics
<1>1. IInv => FirstDiagnostics
  <2> SUFFICES ASSUME IInv, Succeeded PROVE FirstDiagnostics
    BY DEF FirstDiagnostics
  <2>1. Untouched /\ phase = "done"
    BY DEF Succeeded, Untouched
  <2>2. Treated = IF checksSIL THEN Places \union {0} ELSE TypeChecked
    BY <2>1 DEF Treated
  <2>3. FirstOf(diagnostics, Treated) /\ (checksSIL <=> ~HasError(TypeChecked))
    BY <2>1 DEF IInv, Collected, Decided
  <2> QED
    BY <2>2, <2>3 DEF FirstDiagnostics, HasError
<1> QED
  BY <1>1, AnnotationInvariant, PTL

(* SILGen and the passes meet nothing that a cancellation failed; the only *)
(* errors before the passes are those of what SILGen type-checked itself   *)
(* (lines 212-231).                                                        *)
THEOREM LoweringStaysSound == Spec => []LoweringIsSound
<1>1. IInv => LoweringIsSound
  <2> SUFFICES ASSUME IInv, phase \in {"lowering", "passes"} PROVE LoweringIsSound
    BY DEF LoweringIsSound
  <2>1. Untouched /\ unsolved = {} /\ ~SolverGivesUp /\ checksSIL
    BY DEF IInv, Untouched, Control, SolverGivesUp
  <2>2. ~HasError(TypeChecked) /\ (hadError <=> HasError(Treated))
    BY <2>1 DEF IInv, Collected, Decided
  <2>3. Treated = TypeChecked \union (OnDemand \ todo)
    <3>1. phase = "passes" => todo = {}
      BY DEF IInv, InSourceOrder
    <3> QED
      BY <3>1, RequestParts DEF Treated, IInv, TypeChecked
  <2> QED
    BY <2>1, <2>2, <2>3 DEF LoweringIsSound, HasError
<1> QED
  BY <1>1, AnnotationInvariant, PTL

(* Only a cancellation during the passes or later is too late (lines 170,  *)
(* 192, 208, 228).                                                         *)
THEOREM CancellationIsHonoured == Spec => []HonoursCancellation
<1>1. IInv => HonoursCancellation
  BY DEF IInv, Control, HonoursCancellation
<1> QED
  BY <1>1, AnnotationInvariant, PTL

(* The request is a cancellable backend (CompilerBackend.h 60-92).         *)
THEOREM AnnotationIsBackend == Spec => ImplementsBackend
<1>1. Init => Backend!Init
  BY DEF Init, Backend!Init
<1>2. IInv /\ [Next]_vars => [Backend!Next]_<<flag, result>>
  <2> SUFFICES ASSUME IInv, [Next]_vars
               PROVE  Backend!Next \/ UNCHANGED <<flag, result>>
    OBVIOUS
  <2>1. CASE Cancel
    BY <2>1 DEF Cancel, Backend!Next, Backend!Cancel
  <2>2. ASSUME NEW status \in {"success", "failure", "cancelled"}, Finish(status), phase # "done",
               status = "cancelled" => flag
        PROVE  Backend!Next
    <3>1. result = NoResult /\ UNCHANGED flag
      BY <2>2 DEF IInv, Control, Finish, cancellation
    <3>2. result' \in Backend!Results /\ result'.status = status
      BY <2>2, FinishTypes DEF IInv, Backend!Results, Backend!Statuses
    <3> QED
      BY <2>2, <3>1, <3>2 DEF Backend!Next, Backend!End
  <2>3. CASE RejectArguments \/ FailSetup \/ RejectPrimary \/ StopCancelled \/ WriteDocument
    BY <2>2, <2>3 DEF RejectArguments, FailSetup, RejectPrimary, StopCancelled, WriteDocument, Checks
  <2>4. CASE Prepare \/ SetUp \/ StartWalk \/ SkipSIL \/ StartSIL \/ StartPasses
    BY <2>4 DEF Prepare, SetUp, StartWalk, SkipSIL, StartSIL, StartPasses, GoOn, Enter, cancellation
  <2>5. CASE RunPasses \/ UNCHANGED vars
    BY <2>5 DEF RunPasses, vars, cancellation
  <2>6. ASSUME NEW i \in todo, \/ CheckExpression(i) \/ CheckLateExpression(i)
                               \/ AbandonExpression(i) \/ VisitExpression(i)
                               \/ MissExpression(i) \/ LowerOnDemand(i)
        PROVE  UNCHANGED <<flag, result>>
    BY <2>6 DEF CheckExpression, CheckLateExpression, AbandonExpression, VisitExpression,
                MissExpression, LowerOnDemand, Treat, cancellation
  <2> QED
    BY <2>1, <2>3, <2>4, <2>5, <2>6 DEF Next, Advance, Returned
<1> QED
  BY <1>1, <1>2, AnnotationInvariant, PTL DEF Spec, ImplementsBackend, Backend!Spec
-----------------------------------------------------------------------------
(* Why a cancelled type check or walk comes to an end.                     *)

CheckCancelled == flag /\ phase \in {"checking", "walking"}

(* Every nonempty set of natural numbers has a least one.                  *)
LEMMA Least ==
  ASSUME NEW T, T \subseteq Nat, T # {}
  PROVE  \E x \in T : \A y \in T : x <= y
<1> DEFINE D == { 0..k : k \in T }
<1>1. \A k \in T : 0..k \in FiniteSubsetsOf(Nat)
  <2>1. ASSUME NEW k \in T PROVE IsFiniteSet(0..k) /\ 0..k \subseteq Nat
    <3>1. 0 \in Int /\ k \in Int /\ k \in Nat
      OBVIOUS
    <3>2. IsFiniteSet(0..k)
      BY <3>1, FS_Interval, Zenon
    <3> QED
      BY <3>1, <3>2
  <2> QED
    BY <2>1 DEF FiniteSubsetsOf
<1>2. D \subseteq FiniteSubsetsOf(Nat) /\ D # {}
  BY <1>1
<1>3. IsWellFoundedOn(StrictSubsetOrdering(Nat), FiniteSubsetsOf(Nat))
  BY FS_StrictSubsetOrderingWellFounded, Zenon
<1> HIDE DEF D
<1>4. \E d \in D : \A e \in D : ~(<<e, d>> \in StrictSubsetOrdering(Nat))
  BY <1>2, <1>3, WFMin, Zenon
<1>5. PICK x \in T : \A e \in D : ~(<<e, 0..x>> \in StrictSubsetOrdering(Nat))
  BY <1>4 DEF D
<1>6. ASSUME NEW y \in T, y < x PROVE <<0..y, 0..x>> \in StrictSubsetOrdering(Nat)
  <2>1. x \in Nat /\ y \in Nat /\ 0..y \subseteq 0..x /\ 0..y # 0..x /\ 0..x \subseteq Nat
    BY <1>6
  <2> QED
    BY <2>1 DEF StrictSubsetOrdering
<1>7. \A y \in T : 0..y \in D
  BY DEF D
<1>8. \A y \in T : ~(y < x)
  BY <1>5, <1>6, <1>7, Zenon
<1> QED
  BY <1>8

(* While it checks and walks, the compiler has the flag.                   *)
FlagAttached == phase \in {"checking", "walking"} => attached

LEMMA NextFlagAttached == FlagAttached /\ [Next]_vars => FlagAttached'
<1> SUFFICES ASSUME FlagAttached, [Next]_vars PROVE FlagAttached'
  OBVIOUS
<1> USE DEF FlagAttached
<1>1. CASE Cancel \/ RunPasses \/ UNCHANGED vars
  BY <1>1 DEF Cancel, RunPasses, vars
<1>2. ASSUME NEW status, Finish(status) PROVE FlagAttached'
  BY <1>2 DEF Finish
<1>3. CASE RejectArguments \/ FailSetup \/ RejectPrimary \/ StopCancelled \/ WriteDocument
  BY <1>2, <1>3 DEF RejectArguments, FailSetup, RejectPrimary, StopCancelled, WriteDocument
<1>4. CASE SetUp
  BY <1>4 DEF SetUp, Attach
<1>5. CASE StartWalk
  BY <1>5 DEF StartWalk, GoOn
<1>6. CASE Prepare \/ SkipSIL \/ StartSIL \/ StartPasses
  BY <1>6 DEF Prepare, SkipSIL, StartSIL, StartPasses, GoOn, Enter
<1>7. ASSUME NEW i \in todo, \/ CheckExpression(i) \/ CheckLateExpression(i)
                             \/ AbandonExpression(i) \/ VisitExpression(i)
                             \/ MissExpression(i) \/ LowerOnDemand(i)
      PROVE  FlagAttached'
  BY <1>7 DEF CheckExpression, CheckLateExpression, AbandonExpression, VisitExpression,
              MissExpression, LowerOnDemand, Treat
<1> QED
  BY <1>1, <1>3, <1>4, <1>5, <1>6, <1>7 DEF Next, Advance, Returned

(* The first expression of those that are left is the one to treat, and    *)
(* the solver gives it up, for the flag it polls is the one that was set.  *)
CanStop ==
  CheckCancelled =>
    /\ SolverGivesUp
    /\ IsFiniteSet(todo)
    /\ todo # {} => \E i \in todo : \A j \in todo : i <= j

(* From the moment of its cancellation a type check or a walk has a next   *)
(* step that needs no answer from the solver: the compiler has the flag    *)
(* from line 184 until line 222.                                           *)
THEOREM CancelledCheckCanStop == Spec => []CanStop
<1>1. Init => FlagAttached
  BY DEF Init, FlagAttached
<1>2. IInv /\ FlagAttached => CanStop
  <2> SUFFICES ASSUME IInv, FlagAttached, CheckCancelled
               PROVE  /\ SolverGivesUp
                      /\ IsFiniteSet(todo)
                      /\ todo # {} => \E i \in todo : \A j \in todo : i <= j
    BY DEF CanStop
  <2>1. SolverGivesUp
    BY DEF FlagAttached, CheckCancelled, SolverGivesUp
  <2>2. todo \in SUBSET (0..Len(request.code)) /\ Len(request.code) \in Nat
    BY RequestParts DEF IInv, TypeOK
  <2>3. IsFiniteSet(0..Len(request.code))
    <3>1. 0 \in Int /\ Len(request.code) \in Int
      BY <2>2
    <3> QED
      BY <3>1, FS_Interval, Zenon
  <2>4. IsFiniteSet(todo)
    BY <2>2, <2>3, FS_Subset, Zenon
  <2>5. todo \subseteq Nat
    BY <2>2
  <2> QED
    BY <2>1, <2>4, <2>5, Least
<1> QED
  BY <1>1, <1>2, NextFlagAttached, AnnotationInvariant, PTL DEF Spec

(* A cancelled check treats one expression less, or has none left and ends *)
(* as cancelled; it begins no other phase and solves nothing any more.     *)
StopsShort ==
  CheckCancelled =>
    \/ /\ CheckCancelled' /\ phase' = phase
       /\ Cardinality(todo') = Cardinality(todo) - 1
    \/ todo = {} /\ phase' = "done" /\ result'.status = "cancelled"

(* A request that is cancelled while it checks or walks n expressions      *)
(* returns "cancelled" after at most n + 1 further steps, none of them an  *)
(* answer of the solver (lines 191-192 and 206-208): what remains of       *)
(* CancellationEndsTypeCheck is fairness alone.                            *)
THEOREM CancelledCheckShrinks == Spec => [][StopsShort]_vars
<1>1. IInv /\ FlagAttached /\ [Next]_vars => [StopsShort]_vars
  <2> SUFFICES ASSUME IInv, FlagAttached, Next, CheckCancelled
               PROVE  StopsShort \/ UNCHANGED vars
    BY DEF StopsShort
  <2> USE DEF CheckCancelled
  <2>1. SolverGivesUp /\ flag /\ phase \in {"checking", "walking"} /\ phase \in Checks
    BY DEF FlagAttached, SolverGivesUp, Checks
  <2>2. CASE StopCancelled
    BY <2>2 DEF StopCancelled, Finish, StopsShort
  <2>3. ASSUME NEW i \in todo, AbandonExpression(i) \/ VisitExpression(i) \/ MissExpression(i)
        PROVE  StopsShort
    <3>1. todo' = todo \ {i} /\ phase' = phase /\ flag' = flag
      BY <2>3 DEF AbandonExpression, VisitExpression, MissExpression, Treat, cancellation
    <3>2. IsFiniteSet(todo)
      <4>1. 0 \in Int /\ Len(request.code) \in Int /\ todo \in SUBSET (0..Len(request.code))
        <5>1. todo \subseteq Places /\ Places \subseteq 0..Len(request.code) /\ Len(request.code) \in Nat
          BY RequestParts DEF IInv, TypeOK
        <5> QED
          BY <5>1
      <4>2. IsFiniteSet(0..Len(request.code))
        BY <4>1, FS_Interval, Zenon
      <4> QED
        BY <4>1, <4>2, FS_Subset, Zenon
    <3>3. Cardinality(todo \ {i}) = Cardinality(todo) - 1
      BY <3>2, FS_RemoveElement, Zenon
    <3> QED
      BY <3>1, <3>3 DEF StopsShort
  <2>4. ASSUME NEW i \in todo, CheckExpression(i) \/ CheckLateExpression(i) \/ LowerOnDemand(i)
        PROVE  FALSE
    BY <2>1, <2>4 DEF CheckExpression, CheckLateExpression, LowerOnDemand, Solve, Treat
  <2>5. ~(Prepare \/ SetUp \/ StartWalk \/ SkipSIL \/ StartSIL \/ StartPasses)
    BY <2>1 DEF Prepare, SetUp, StartWalk, SkipSIL, StartSIL, StartPasses, GoOn
  <2>6. ~(Cancel \/ RejectArguments \/ FailSetup \/ RejectPrimary \/ RunPasses \/ WriteDocument)
    BY <2>1 DEF Cancel, RejectArguments, FailSetup, RejectPrimary, RunPasses, WriteDocument
  <2> QED
    BY <2>2, <2>3, <2>4, <2>5, <2>6 DEF Next, Advance, Returned
<1>2. Init => FlagAttached
  BY DEF Init, FlagAttached
<1> QED
  BY <1>1, <1>2, NextFlagAttached, AnnotationInvariant, PTL DEF Spec
=============================================================================
