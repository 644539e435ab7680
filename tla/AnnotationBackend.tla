-------------------------- MODULE AnnotationBackend --------------------------
(***************************************************************************)
(* One annotation request, runAnnotation in AnnotationBackend.cpp.  The    *)
(* request type-checks the primary file, walks it for references, and,     *)
(* when no errors were reported, lowers it to SIL and runs the SIL         *)
(* diagnostic passes.  Another thread may set the cancellation flag at any *)
(* moment.  While the flag is attached to the compiler instance, the       *)
(* expression solver polls it and gives up; the request itself looks at it *)
(* between the phases only:                                                *)
(*                                                                         *)
(*   preparing -> prepared -> checking -> walking -> lowering -> passes    *)
(*             -> writing -> done                                          *)
(***************************************************************************)
EXTENDS Naturals, Sequences

CONSTANTS
  MaximumDiagnostics,   (* maximumDiagnostics, 100 in the code              *)
  Requests,             (* the requests to consider, a subset of AnyRequest *)
  NoResult              (* the request has not returned                     *)

(* How an expression appears to the walk: a named reference, a reference   *)
(* to an initializer through its type's name, or one that the walk does    *)
(* not see or visitDeclReference leaves out (implicit, unavailable, self,  *)
(* nil, an operator, in the buffer of a macro expansion or another input). *)
Kinds == {"name", "initializer", "hidden"}

(* What the compiler says of an expression; "note" stands for notes,       *)
(* remarks and for nothing at all.                                         *)
Diagnoses == {"note", "warning", "error"}

(* When code is type-checked: with the file, when the walk first reaches   *)
(* it, or when SILGen needs it, as synthesized bodies and stored           *)
(* properties of other inputs are.                                         *)
Times == {"check", "walk", "lowering"}

(* The compiler also reports what it finds when it parses the other        *)
(* inputs: their code counts as hidden expressions of the type check.      *)
Expressions ==
  { e \in [kind : Kinds, diagnosis : Diagnoses, when : Times] :
      e.when = "lowering" => e.kind = "hidden" }

(* problem: the arguments do not parse, the compiler instance does not     *)
(* start, or the frontend has no primary file.  sil: what the passes       *)
(* report.                                                                 *)
AnyRequest ==
  [problem : {"none", "arguments", "setup", "primary"},
   code : Seq(Expressions), sil : Diagnoses]

ASSUME AnnotationAssumption ==
  /\ MaximumDiagnostics \in Nat
  /\ Requests \subseteq AnyRequest
  /\ NoResult \notin [status : {"success", "failure", "cancelled"}, canRunAgain : {TRUE}]

VARIABLES
  request,
  phase,
  todo,          (* the expressions, by place, that the phase has yet to treat *)
  flag,          (* the atomic flag that the bridge shares with the request    *)
  attached,      (* context.CancellationFlag points to the flag                *)
  unsolved,      (* the expressions that the solver gave up                    *)
  hadError,      (* context.hadError()                                         *)
  diagnostics,   (* collector.diagnostics                                      *)
  references,    (* references.references                                      *)
  checksSIL,
  result,
  cancelledIn    (* history: the phase in which the flag was set               *)

reports == <<unsolved, hadError, diagnostics>>
cancellation == <<flag, cancelledIn>>
vars == <<request, phase, todo, cancellation, attached, reports, references, checksSIL, result>>

Phases == {"preparing", "prepared", "checking", "walking", "lowering", "passes",
           "writing", "done"}

Init ==
  /\ request \in Requests
  /\ phase = "preparing"
  /\ todo = {}
  /\ flag = FALSE /\ cancelledIn = "never"
  /\ attached = FALSE
  /\ unsolved = {} /\ hadError = FALSE /\ diagnostics = <<>>
  /\ references = <<>>
  /\ checksSIL = FALSE
  /\ result = NoResult

-----------------------------------------------------------------------------
Places == 1..Len(request.code)

(* What performSema checks, what the walk checks, and what SILGen checks.  *)
EagerPlaces == { i \in Places : request.code[i].when = "check" }
LatePlaces == { i \in Places : request.code[i].when = "walk" }
OnDemand == { i \in Places : request.code[i].when = "lowering" }

(* The solver of an instance with an attached flag gives up once it is set. *)
SolverGivesUp == attached /\ flag

(* Mutant: the limit is tested after the diagnostic was added.             *)
HasRoomForOneMore(list) == Len(list) <= MaximumDiagnostics

HasRoom(list) == Len(list) < MaximumDiagnostics

(* DiagnosticCollector::handleDiagnostic                                   *)
Collect(list, d, i) ==
  IF d # "note" /\ HasRoom(list) THEN Append(list, [severity |-> d, at |-> i]) ELSE list

Report(d, i) ==
  /\ hadError' = (hadError \/ d = "error")
  /\ diagnostics' = Collect(diagnostics, d, i)

(* The type checker resolves no declaration in an expression with an error. *)
IsNamed(i) == request.code[i].kind # "hidden" /\ request.code[i].diagnosis # "error"

(* visitDeclReference                                                      *)
Record(i) ==
  references' =
    IF ~IsNamed(i) THEN references
    ELSE Append(references,
           [at |-> i, kind |-> IF request.code[i].kind = "initializer" THEN "type" ELSE "name"])

(* The solver finishes an expression, and the collector gets its diagnosis. *)
Solve(i) ==
  /\ ~SolverGivesUp
  /\ Report(request.code[i].diagnosis, i)
  /\ UNCHANGED unsolved

(* The solver gives up; it may or may not leave an error behind.           *)
GiveUp(i) ==
  /\ SolverGivesUp
  /\ unsolved' = unsolved \union {i}
  /\ \E d \in {"note", "error"} : Report(d, i)

(* swift_compiler_cancel_completion on another thread.                     *)
Cancel ==
  /\ ~flag
  /\ phase # "done"
  /\ flag' = TRUE
  /\ cancelledIn' = phase
  /\ UNCHANGED <<request, phase, todo, attached, reports, references, checksSIL, result>>

-----------------------------------------------------------------------------
(* How a phase works and ends.                                             *)

(* The phase treats its next expression.                                   *)
Treat(p, i) ==
  /\ phase = p
  /\ i \in todo /\ \A j \in todo : i <= j
  /\ todo' = todo \ {i}
  /\ UNCHANGED <<request, phase, cancellation, attached, checksSIL, result>>

(* Mutants: no check after the walk, or none after SILGen.                 *)
ChecksBeforeWalk == {"prepared", "checking", "lowering"}
ChecksBeforeLowering == {"prepared", "checking", "walking"}

(* The phases at whose end the request looks at the flag.                  *)
Checks == {"prepared", "checking", "walking", "lowering"}

Enter(p, work) ==
  /\ phase' = p
  /\ todo' = work
  /\ UNCHANGED <<request, cancellation, reports, references, result>>

(* Phase p is over and the request goes on.                                *)
GoOn(p, next, work) ==
  /\ phase = p /\ todo = {}
  /\ ~(p \in Checks /\ flag)
  /\ Enter(next, work)

(* Mutant: a cancelled compiler is given up for good.                      *)
IsReusable(status) == status # "cancelled"

(* Every result leaves the session usable.                                 *)
CanRunAgain(status) == TRUE

(* The request returns at the end of a phase.                              *)
Finish(status) ==
  /\ todo = {}
  /\ phase' = "done"
  /\ result' = [status |-> status, canRunAgain |-> CanRunAgain(status)]
  /\ UNCHANGED <<request, todo, cancellation, attached, reports, references, checksSIL>>

(* cancelledResult: what the flag failed is never looked at.               *)
StopCancelled == phase \in Checks /\ flag /\ Finish("cancelled")

-----------------------------------------------------------------------------
(* The phases of the request.                                              *)

(* prepareSemanticInvocation rejects the arguments or the path.            *)
RejectArguments ==
  /\ phase = "preparing"
  /\ request.problem = "arguments"
  /\ Finish("failure")

Prepare ==
  /\ request.problem # "arguments"
  /\ GoOn("preparing", "prepared", {})
  /\ UNCHANGED <<attached, checksSIL>>

FailSetup ==
  /\ phase = "prepared" /\ ~flag
  /\ request.problem = "setup"
  /\ Finish("failure")

(* Mutant: the instance does not get the flag.                             *)
AttachNothing == UNCHANGED attached

Attach == attached' = TRUE

(* instance.setup succeeds.                                                *)
SetUp ==
  /\ request.problem # "setup"
  /\ GoOn("prepared", "checking", EagerPlaces)
  /\ Attach
  /\ UNCHANGED checksSIL

(* instance.performSema, one expression at a time.                         *)
CheckExpression(i) == Treat("checking", i) /\ Solve(i) /\ UNCHANGED references

AbandonExpression(i) == Treat("checking", i) /\ GiveUp(i) /\ UNCHANGED references

RejectPrimary ==
  /\ phase = "checking" /\ ~flag
  /\ request.problem = "primary"
  /\ Finish("failure")

StartWalk ==
  /\ request.problem # "primary"
  /\ GoOn("checking", "walking", Places)
  /\ UNCHANGED <<attached, checksSIL>>

(* The walk reaches an expression that it need not type-check.             *)
VisitExpression(i) ==
  /\ Treat("walking", i)
  /\ i \notin LatePlaces
  /\ Record(i)
  /\ UNCHANGED reports

(* The walk type-checks a late declaration on demand and then visits it.   *)
CheckLateExpression(i) ==
  Treat("walking", i) /\ i \in LatePlaces /\ Solve(i) /\ Record(i)

(* A cancellation during the walk fails a late declaration.                *)
MissExpression(i) ==
  Treat("walking", i) /\ i \in LatePlaces /\ GiveUp(i) /\ UNCHANGED references

(* A failed type check reports only its own diagnostics.                   *)
SkipSIL ==
  /\ hadError
  /\ GoOn("walking", "writing", {})
  /\ checksSIL' = FALSE
  /\ UNCHANGED attached

(* Mutant: the flag stays attached during SILGen.                          *)
DetachNothing == UNCHANGED attached

Detach == attached' = FALSE

StartSIL ==
  /\ ~hadError
  /\ GoOn("walking", "lowering", OnDemand)
  /\ checksSIL' = TRUE
  /\ Detach

(* performASTLowering type-checks code on demand, and the collector gets   *)
(* what that reports.  The solver of an attached, cancelled instance would *)
(* give SILGen a failed expression.                                        *)
LowerOnDemand(i) ==
  Treat("lowering", i) /\ (Solve(i) \/ GiveUp(i)) /\ UNCHANGED references

(* Nothing looks at hadError again: the passes run also after an error     *)
(* that SILGen's own type check reported.                                  *)
StartPasses == GoOn("lowering", "passes", {}) /\ UNCHANGED <<attached, checksSIL>>

(* runSILDiagnosticPasses, which nothing stops.                            *)
RunPasses ==
  /\ phase = "passes" /\ phase' = "writing"
  /\ Report(request.sil, 0)
  /\ UNCHANGED <<request, todo, cancellation, attached, unsolved, references, checksSIL, result>>

WriteDocument == phase = "writing" /\ Finish("success")

(* The backend has returned; its instance is gone.                         *)
Returned == phase = "done" /\ UNCHANGED vars

(* Everything the request's thread does, but for an expression that the    *)
(* solver may work on for as long as it likes.                             *)
Advance ==
  \/ RejectArguments \/ Prepare \/ FailSetup \/ SetUp \/ RejectPrimary \/ StartWalk
  \/ SkipSIL \/ StartSIL \/ StartPasses \/ RunPasses \/ WriteDocument \/ StopCancelled
  \/ \E i \in todo :
       AbandonExpression(i) \/ VisitExpression(i) \/ MissExpression(i)

Next ==
  \/ Cancel \/ Advance \/ Returned
  \/ \E i \in todo : CheckExpression(i) \/ CheckLateExpression(i) \/ LowerOnDemand(i)

Spec == Init /\ [][Next]_vars

(* A phase always goes on, and a solver that gives up does so promptly; a  *)
(* solver that does not give up need not come to an end.                   *)
FairSpec == Spec /\ WF_vars(Advance)

-----------------------------------------------------------------------------
(* Properties.                                                             *)

(* The variables hold what the C++ types allow, and the collector never    *)
(* holds more than its limit.                                              *)
TypeOK ==
  /\ request \in Requests
  /\ phase \in Phases
  /\ todo \subseteq Places
  /\ flag \in BOOLEAN
  /\ attached \in BOOLEAN
  /\ unsolved \subseteq Places
  /\ hadError \in BOOLEAN
  /\ diagnostics \in Seq([severity : {"warning", "error"}, at : 0..Len(request.code)])
  /\ Len(diagnostics) <= MaximumDiagnostics
  /\ references \in Seq([at : Places, kind : {"name", "type"}])
  /\ checksSIL \in BOOLEAN
  /\ result \in {NoResult} \union [status : {"success", "failure", "cancelled"},
                                   canRunAgain : {TRUE}]
  /\ cancelledIn \in Phases \union {"never"}

Succeeded == phase = "done" /\ result.status = "success"

(* The references of the named expressions of a set, in source order.      *)
NamedOf(list, S) ==
  /\ { list[n].at : n \in 1..Len(list) } = { i \in S : IsNamed(i) }
  /\ \A m, n \in 1..Len(list) : m < n => list[m].at < list[n].at
  /\ \A n \in 1..Len(list) :
       list[n].kind = "type" <=> request.code[list[n].at].kind = "initializer"

(* A document never holds partial references: whenever the request         *)
(* succeeds, however late it was cancelled, the references are those of    *)
(* every named expression without an error, in source order (lines 191,    *)
(* 206-207 and Docs/CompilerBridge.md: "instead of partial references").   *)
CompleteReferences == Succeeded => NamedOf(references, Places)

Diagnosis(i) == IF i = 0 THEN request.sil ELSE request.code[i].diagnosis

(* The type check comes before the walk, the walk before SILGen, and the   *)
(* passes, whose place is 0, come last.                                    *)
Stage(i) ==
  IF i = 0 THEN 3
  ELSE CASE request.code[i].when = "check" -> 0
         [] request.code[i].when = "walk" -> 1
         [] request.code[i].when = "lowering" -> 2

Precedes(i, j) == Stage(i) < Stage(j) \/ (Stage(i) = Stage(j) /\ i < j)

(* The first of the diagnostics that a set of places has.                  *)
FirstOf(list, S) ==
  LET listed == { list[n].at : n \in 1..Len(list) }
      own == { i \in S : Diagnosis(i) # "note" }
  IN /\ listed \subseteq own
     /\ \A m, n \in 1..Len(list) : m < n => Precedes(list[m].at, list[n].at)
     /\ \A n \in 1..Len(list) : list[n].severity = Diagnosis(list[n].at)
     /\ \A i \in own \ listed : /\ Len(list) = MaximumDiagnostics
                                /\ \A j \in listed : Precedes(j, i)

(* What is type-checked before the request decides on SIL.                 *)
TypeChecked == Places \ OnDemand

(* A document's diagnostics are the first of those that the compiler has   *)
(* to report of the request: of the type check, the other inputs included, *)
(* then of SILGen's own type checks, then of the passes.  None of them     *)
(* comes from a cancellation (lines 42-63 and 212-214).  SIL is left out   *)
(* exactly when the type check or the walk met an error that is in the     *)
(* code: a solver that a cancellation failed is never taken for one (line  *)
(* 215).                                                                   *)
FirstDiagnostics ==
  Succeeded =>
    /\ checksSIL <=> \A i \in TypeChecked : Diagnosis(i) # "error"
    /\ FirstOf(diagnostics, IF checksSIL THEN Places \union {0} ELSE TypeChecked)

(* SILGen begins only when the AST has no error and nothing in it was      *)
(* given up, and a cancellation cannot fail what SILGen type-checks on     *)
(* demand: an error that the passes meet is one of that code itself        *)
(* (lines 212-231).                                                        *)
LoweringIsSound ==
  phase \in {"lowering", "passes"} =>
    /\ unsolved = {} /\ ~SolverGivesUp
    /\ \A i \in TypeChecked : Diagnosis(i) # "error"
    /\ hadError <=> \E i \in OnDemand \ todo : Diagnosis(i) = "error"

(* A request succeeds despite its cancellation only when that came during  *)
(* the passes or later, and it is cancelled only when it was asked to be   *)
(* (lines 170, 192, 208, 228; Docs/CompilerBridge.md, Annotation).         *)
HonoursCancellation ==
  phase = "done" =>
    /\ result.status = "success" => cancelledIn \in {"never", "passes", "writing"}
    /\ result.status = "cancelled" => cancelledIn # "never"

(* The bridge's assumption about this backend.                             *)
Backend == INSTANCE CancellableBackend

(* The annotation is a cancellable backend as the bridge expects it.       *)
ImplementsBackend == Backend!Spec

(* A cancellation ends a type check or a walk, even one that would never   *)
(* come to an end (line 184).                                              *)
CancellationEndsTypeCheck ==
  (flag /\ phase \in {"checking", "walking"}) ~> (phase = "done")
=============================================================================
