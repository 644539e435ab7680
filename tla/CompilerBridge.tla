--------------------------- MODULE CompilerBridge ---------------------------
(***************************************************************************)
(* The C ABI of the compiler bridge, SwiftCompilerBridge.cpp.  Threads of  *)
(* the embedding application call the compiler's entry points at the same  *)
(* time; one mutex puts the operations in sequence, a sticky flag says     *)
(* whether the process's compiler session can still be used, and a second  *)
(* mutex guards the table through which any thread cancels a completion or *)
(* an annotation that runs, or that still waits for its turn.              *)
(*                                                                         *)
(* A request passes through these steps, one value of pc each:             *)
(*   idle -> waiting -> entered -> [beginning] -> calling -> running       *)
(*        -> [ending] -> copying -> returning -> idle                      *)
(* The bracketed steps are those of a completion or an annotation.  Each   *)
(* critical section of cancellationMutex is one step: nothing it reads or  *)
(* writes is touched outside such a section.                               *)
(***************************************************************************)
EXTENDS Naturals, Sequences, FiniteSets

CONSTANTS
  Threads,      (* the threads of the embedding application                *)
  NoThread,     (* no thread: a free mutex, a null cancellation pointer    *)
  Ids,          (* the nonzero request identifiers the application uses    *)
  Remembered,   (* rememberedCancellations, 64 in the code                 *)
  Operations    (* the entry points that the application uses              *)

NativeOperations == {"frontend", "autolink", "link"}
CancellableOperations == {"complete", "annotate"}

(* The operations that may leave the session unusable: the linker returns  *)
(* what LLD says, and the frontend and autolink return TRUE.               *)
Poisoning == {"link"}

ASSUME BridgeAssumption ==
  /\ NoThread \notin Threads
  /\ 0 \notin Ids
  /\ Remembered \in Nat \ {0}
  /\ Operations \subseteq NativeOperations \union CancellableOperations \union {"reset"}

VARIABLES
  pc,                   (* where each thread is in its call                *)
  call,                 (* the request each thread has submitted           *)
  outcome,              (* the BackendResult a thread is about to copy     *)
  result,               (* the SwiftCompilerResult a thread returns         *)
  operationMutex,       (* the thread that holds the operation lock        *)
  sessionReusable,
  runningRequest,       (* an identifier, or 0                             *)
  runningCancellation,  (* the thread whose request's flag it points to    *)
  flag,                 (* the cancellation flag of each thread's request  *)
  pendingCancellations, (* identifiers, oldest first                       *)
  completionState,      (* whether the cached completion context exists    *)
  used,                 (* history: identifiers submitted so far           *)
  requested,            (* history: identifiers cancelled so far           *)
  forgotten             (* history: identifiers whose last cancellation    *)
                        (* was pushed out of pendingCancellations          *)

callVars    == <<pc, call, outcome, result, operationMutex>>
cancelVars  == <<runningRequest, runningCancellation, flag, pendingCancellations>>
historyVars == <<used, requested, forgotten>>
vars == <<callVars, sessionReusable, cancelVars, completionState, historyVars>>

-----------------------------------------------------------------------------
(* Requests and results.                                                   *)

(* A request whose pointers and numbers pass validation has valid = TRUE.  *)
(* Only a cancellable request carries an identifier; an incomplete one may *)
(* carry identifier zero or a good one.                                    *)
Calls ==
  { c \in [op : Operations, id : Ids \union {0}, valid : BOOLEAN] :
      /\ c.op \in NativeOperations => c.id = 0
      /\ c.op \in CancellableOperations /\ c.valid => c.id # 0
      /\ c.op = "reset" => c.id = 0 /\ c.valid }

(* The arguments and locals of a thread outside a call.                    *)
NoCall == [op |-> "none", id |-> 0, valid |-> FALSE]
NoOutcome == [status |-> "failure", canRunAgain |-> TRUE]
NoResult == [status |-> "none", canRunAgain |-> TRUE]

Statuses == {"success", "failure", "cancelled"}

(* BackendResult: status stands for the exit code and the message.         *)
BackendResults == [status : Statuses, canRunAgain : BOOLEAN]

(* "none" is the result without a message that follows a failed malloc.    *)
Results == [status : Statuses \union {"none"}, canRunAgain : BOOLEAN]

Steps == {"idle", "waiting", "entered", "beginning", "calling", "running",
          "ending", "copying", "returning"}

(* The steps of a thread that holds the operation lock.                    *)
InsideSteps == Steps \ {"idle", "waiting"}

(* The steps between beginCancellable and endCancellable.                  *)
RegisteredSteps == {"calling", "running", "ending"}

IsCancellable(t) == call[t].op \in CancellableOperations

Pending == { pendingCancellations[i] : i \in 1..Len(pendingCancellations) }

(* pendingCancellations.erase of the element at position i.                *)
Erase(s, i) == [j \in 1..(Len(s) - 1) |-> IF j < i THEN s[j] ELSE s[j + 1]]

Goto(t, from, to) ==
  /\ pc[t] = from
  /\ pc' = [pc EXCEPT ![t] = to]

Init ==
  /\ pc = [t \in Threads |-> "idle"]
  /\ call = [t \in Threads |-> NoCall]
  /\ outcome = [t \in Threads |-> NoOutcome]
  /\ result = [t \in Threads |-> NoResult]
  /\ operationMutex = NoThread
  /\ sessionReusable = TRUE
  /\ runningRequest = 0
  /\ runningCancellation = NoThread
  /\ flag = [t \in Threads |-> FALSE]
  /\ pendingCancellations = <<>>
  /\ completionState = FALSE
  /\ used = {}
  /\ requested = {}
  /\ forgotten = {}

-----------------------------------------------------------------------------
(* The steps of a call.                                                    *)

(* The application calls an entry point.  Identifiers stay unique for the  *)
(* process, which is the header's contract with the application.           *)
Submit(t, c) ==
  /\ Goto(t, "idle", "waiting")
  /\ c.id \notin used
  /\ call' = [call EXCEPT ![t] = c]
  /\ used' = IF c.id = 0 THEN used ELSE used \union {c.id}
  /\ UNCHANGED <<outcome, result, operationMutex, sessionReusable, cancelVars,
                 completionState, requested, forgotten>>

(* Mutant: the lock is not waited for.                                     *)
IsFreeAnyway == TRUE

IsFree == operationMutex = NoThread

(* std::lock_guard<std::mutex> lock(operationMutex)                        *)
Acquire(t) ==
  /\ Goto(t, "waiting", "entered")
  /\ IsFree
  /\ operationMutex' = t
  /\ UNCHANGED <<call, outcome, result, sessionReusable, cancelVars,
                 completionState, historyVars>>

(* A call that the bridge answers itself, without its backend.             *)
AnswerEarly(t, status, canRunAgain) ==
  /\ Goto(t, "entered", "copying")
  /\ outcome' = [outcome EXCEPT ![t] = [status |-> status, canRunAgain |-> canRunAgain]]
  /\ UNCHANGED <<call, result, operationMutex, sessionReusable, cancelVars,
                 completionState, historyVars>>

(* Mutant: the session is not looked at.                                   *)
RunsAnyway == TRUE

CanRun == sessionReusable

RejectSession(t) ==
  /\ call[t].op # "reset"
  /\ ~CanRun
  /\ AnswerEarly(t, "failure", FALSE)

RejectArguments(t) ==
  /\ call[t].op # "reset"
  /\ CanRun
  /\ ~call[t].valid
  /\ AnswerEarly(t, "failure", TRUE)

Accept(t) ==
  /\ call[t].op # "reset"
  /\ CanRun
  /\ call[t].valid
  /\ Goto(t, "entered", IF IsCancellable(t) THEN "beginning" ELSE "calling")
  /\ UNCHANGED <<call, outcome, result, operationMutex, sessionReusable,
                 cancelVars, completionState, historyVars>>

(* beginCancellable finds an early cancellation and consumes it.           *)
BeginCancelled(t) ==
  /\ Goto(t, "beginning", "copying")
  /\ \E i \in 1..Len(pendingCancellations) :
       /\ pendingCancellations[i] = call[t].id
       /\ \A j \in 1..(i - 1) : pendingCancellations[j] # call[t].id
       /\ pendingCancellations' = Erase(pendingCancellations, i)
  /\ outcome' = [outcome EXCEPT ![t] = [status |-> "cancelled", canRunAgain |-> TRUE]]
  /\ UNCHANGED <<call, result, operationMutex, sessionReusable, runningRequest,
                 runningCancellation, flag, completionState, historyVars>>

(* Mutant: early cancellations are not looked up.                          *)
FindsNone(id) == FALSE

FindsPending(id) == id \in Pending

(* beginCancellable registers the request with a fresh flag.               *)
BeginRegistered(t) ==
  /\ Goto(t, "beginning", "calling")
  /\ ~FindsPending(call[t].id)
  /\ runningRequest' = call[t].id
  /\ runningCancellation' = t
  /\ flag' = [flag EXCEPT ![t] = FALSE]
  /\ UNCHANGED <<call, outcome, result, operationMutex, sessionReusable,
                 pendingCancellations, completionState, historyVars>>

(* The bridge calls the backend.  runCompletion first makes sure that a    *)
(* context exists, whatever happens to the request afterwards.             *)
EnterBackend(t) ==
  /\ Goto(t, "calling", "running")
  /\ completionState' = (completionState \/ call[t].op = "complete")
  /\ UNCHANGED <<call, outcome, result, operationMutex, sessionReusable,
                 cancelVars, historyVars>>

(* The backend returns.  It answers "cancelled" only after it has seen its *)
(* flag set, and it may also finish without looking again.                 *)
BackendReturns(t, r) ==
  /\ Goto(t, "running", IF IsCancellable(t) THEN "ending" ELSE "copying")
  /\ r.status = "cancelled" => IsCancellable(t) /\ flag[t]
  /\ ~r.canRunAgain => call[t].op \in Poisoning
  /\ outcome' = [outcome EXCEPT ![t] = r]
  /\ UNCHANGED <<call, result, operationMutex, sessionReusable, cancelVars,
                 completionState, historyVars>>

EndCancellable(t) ==
  /\ Goto(t, "ending", "copying")
  /\ runningRequest' = 0
  /\ runningCancellation' = NoThread
  /\ UNCHANGED <<call, outcome, result, operationMutex, sessionReusable, flag,
                 pendingCancellations, completionState, historyVars>>

(* copyResult, whose allocation succeeds.                                  *)
CopyResult(t) ==
  LET reusable == sessionReusable /\ outcome[t].canRunAgain IN
  /\ Goto(t, "copying", "returning")
  /\ sessionReusable' = reusable
  /\ result' = [result EXCEPT ![t] = [status |-> outcome[t].status, canRunAgain |-> reusable]]
  /\ UNCHANGED <<call, outcome, operationMutex, cancelVars, completionState, historyVars>>

(* Mutant: a failed allocation does not reach the session.                 *)
UsableAsBefore == sessionReusable

UsableWithoutCopy == FALSE

(* copyResult, whose malloc fails.                                         *)
CopyFails(t) ==
  /\ Goto(t, "copying", "returning")
  /\ sessionReusable' = UsableWithoutCopy
  /\ result' = [result EXCEPT ![t] = [status |-> "none", canRunAgain |-> FALSE]]
  /\ UNCHANGED <<call, outcome, operationMutex, cancelVars, completionState, historyVars>>

(* Mutant: a reset does not take the operation lock.                       *)
ResetWithoutLock(t) ==
  /\ call[t].op = "reset"
  /\ Goto(t, "waiting", "idle")
  /\ completionState' = FALSE
  /\ call' = [call EXCEPT ![t] = NoCall]
  /\ UNCHANGED <<outcome, result, operationMutex, sessionReusable,
                 cancelVars, historyVars>>

(* swift_compiler_reset_completion drops the context, without looking at   *)
(* the session, and returns nothing.                                       *)
ResetCompletion(t) ==
  /\ call[t].op = "reset"
  /\ Goto(t, "entered", "returning")
  /\ completionState' = FALSE
  /\ UNCHANGED <<call, outcome, result, operationMutex, sessionReusable,
                 cancelVars, historyVars>>

(* Mutant: the lock is never given back.                                   *)
StillLocked == operationMutex

Unlocked == NoThread

(* The call returns: the lock guard and the other locals are destroyed,    *)
(* and the caller takes the result away.                                   *)
Return(t) ==
  /\ Goto(t, "returning", "idle")
  /\ operationMutex' = Unlocked
  /\ call' = [call EXCEPT ![t] = NoCall]
  /\ outcome' = [outcome EXCEPT ![t] = NoOutcome]
  /\ result' = [result EXCEPT ![t] = NoResult]
  /\ flag' = [flag EXCEPT ![t] = FALSE]
  /\ UNCHANGED <<sessionReusable, runningRequest, runningCancellation,
                 pendingCancellations, completionState, historyVars>>

-----------------------------------------------------------------------------
(* swift_compiler_cancel_completion, which any thread may call at any time *)
(* and which never waits for the operation lock.  It runs in one critical  *)
(* section.  (Identifier zero returns at once.)                            *)

(* Mutant: the identifier of the running request is not compared.          *)
RunsAny(id) == runningCancellation # NoThread

(* The request with this identifier runs.                                  *)
Runs(id) == id = runningRequest /\ runningCancellation # NoThread

(* Mutant: the flag of the running request is not set.                     *)
NotStored == flag

Stored == [flag EXCEPT ![runningCancellation] = TRUE]

CancelRunning(id) ==
  /\ Runs(id)
  /\ flag' = Stored
  /\ requested' = requested \union {id}
  /\ UNCHANGED <<callVars, sessionReusable, runningRequest, runningCancellation,
                 pendingCancellations, completionState, used, forgotten>>

CancelAgain(id) ==
  /\ ~Runs(id)
  /\ id \in Pending
  /\ requested' = requested \union {id}
  /\ UNCHANGED <<callVars, sessionReusable, cancelVars, completionState, used, forgotten>>

(* Mutant: one more than the bound is remembered.                          *)
IsFullLate(list) == Len(list) > Remembered + 1

IsFull(list) == Len(list) > Remembered

(* Mutant: the newest stands in front, where the next one is dropped.      *)
PushFront(list, id) == <<id>> \o list

PushBack(list, id) == Append(list, id)

(* push_back, and pop_front of the oldest when too many are held then.     *)
CancelEarly(id) ==
  LET pushed == PushBack(pendingCancellations, id) IN
  /\ ~Runs(id)
  /\ id \notin Pending
  /\ pendingCancellations' = IF IsFull(pushed) THEN Tail(pushed) ELSE pushed
  /\ requested' = requested \union {id}
  /\ forgotten' = (forgotten \ {id}) \union (IF IsFull(pushed) THEN {Head(pushed)} ELSE {})
  /\ UNCHANGED <<callVars, sessionReusable, runningRequest, runningCancellation,
                 flag, completionState, used>>

Cancel(id) == CancelRunning(id) \/ CancelAgain(id) \/ CancelEarly(id)

-----------------------------------------------------------------------------
(* What a thread does once it has the operation lock.                      *)
Proceed(t) ==
  \/ RejectSession(t)
  \/ RejectArguments(t)
  \/ Accept(t)
  \/ BeginCancelled(t)
  \/ BeginRegistered(t)
  \/ EnterBackend(t)
  \/ \E r \in BackendResults : BackendReturns(t, r)
  \/ EndCancellable(t)
  \/ CopyResult(t)
  \/ CopyFails(t)
  \/ ResetCompletion(t)
  \/ Return(t)

Next ==
  \/ \E t \in Threads : \E c \in Calls : Submit(t, c)
  \/ \E t \in Threads : Acquire(t)
  \/ \E t \in Threads : Proceed(t)
  \/ \E id \in Ids : Cancel(id)

Spec == Init /\ [][Next]_vars

(* The steps of the lock's holder outside of its backend.                  *)
HolderProceeds == \E t \in Threads : pc[t] # "running" /\ Proceed(t)

(* A backend that cannot be cancelled finishes.  A completion or an        *)
(* annotation is only promised to end once its flag is set.                *)
MustEnd(t) == pc[t] = "running" /\ (IsCancellable(t) => flag[t])

BackendEnds ==
  \E t \in Threads : MustEnd(t) /\ \E r \in BackendResults : BackendReturns(t, r)

LockGranted == \E t \in Threads : Acquire(t)

(* The thread that holds the lock keeps going, and the lock is granted     *)
(* while somebody waits for it; which waiter gets it is not promised.      *)
Fairness ==
  /\ WF_vars(LockGranted)
  /\ WF_vars(HolderProceeds)
  /\ WF_vars(BackendEnds)

FairSpec == Spec /\ Fairness

-----------------------------------------------------------------------------
(* Properties.                                                             *)

(* Every variable has its type.                                            *)
TypeOK ==
  /\ pc \in [Threads -> Steps]
  /\ call \in [Threads -> Calls \union {NoCall}]
  /\ outcome \in [Threads -> BackendResults]
  /\ result \in [Threads -> Results]
  /\ operationMutex \in Threads \union {NoThread}
  /\ sessionReusable \in BOOLEAN
  /\ runningRequest \in Ids \union {0}
  /\ runningCancellation \in Threads \union {NoThread}
  /\ flag \in [Threads -> BOOLEAN]
  /\ pendingCancellations \in Seq(Ids)
  /\ completionState \in BOOLEAN
  /\ used \in SUBSET Ids
  /\ requested \in SUBSET Ids
  /\ forgotten \in SUBSET Ids

(* Compiler operations execute in sequence: a thread is between lock and   *)
(* unlock exactly when it is the one recorded in the mutex, so no two      *)
(* threads are ever inside the backends together.                          *)
OneOperation ==
  \A t \in Threads : pc[t] \in InsideSteps <=> operationMutex = t

(* The cancellation table names the completion or annotation that runs,    *)
(* and its flag, exactly while one runs: a cancellation can reach neither  *)
(* the request that just ended nor the one that has not begun.             *)
RegisteredRequest ==
  /\ runningRequest = 0 <=> runningCancellation = NoThread
  /\ \A t \in Threads :
       /\ runningCancellation = t <=> IsCancellable(t) /\ pc[t] \in RegisteredSteps
       /\ runningCancellation = t => runningRequest = call[t].id

(* The list of early cancellations stays within its bound, holds no        *)
(* identifier twice, never holds the running request, and holds only what  *)
(* was cancelled and not pushed out.                                       *)
CancellationTable ==
  /\ Len(pendingCancellations) <= Remembered
  /\ \A i, j \in 1..Len(pendingCancellations) :
       pendingCancellations[i] = pendingCancellations[j] => i = j
  /\ runningRequest \notin Pending
  /\ Pending \subseteq requested \ forgotten

(* No cancellation is lost: a request whose identifier was cancelled, at   *)
(* any time before or during the run, and not pushed out of the list,      *)
(* is not in its backend with a flag that is still clear.                  *)
NoLostCancellation ==
  \A t \in Threads :
    /\ IsCancellable(t)
    /\ pc[t] \in RegisteredSteps
    /\ call[t].id \in requested \ forgotten
    => flag[t]

(* A request only stops, and only answers "cancelled", when its own        *)
(* identifier was cancelled; another request's cancellation never hits it. *)
CancelledOnlyOnRequest ==
  \A t \in Threads :
    \/ pc[t] \in RegisteredSteps /\ IsCancellable(t) /\ flag[t]
    \/ pc[t] \in {"ending", "copying"} /\ outcome[t].status = "cancelled"
    => call[t].id \in requested

(* While a completion runs, the context it works in exists: no reset from  *)
(* another thread deletes it underneath.                                   *)
ContextInUse ==
  \A t \in Threads :
    pc[t] = "running" /\ call[t].op = "complete" => completionState

(* The parts that make the invariants above inductive.                     *)

(* Identifiers belong to one call, and only a call of its own kind reaches *)
(* a step.                                                                 *)
CallsFit ==
  \A t \in Threads :
    /\ pc[t] = "idle" => call[t] = NoCall
    /\ pc[t] # "idle" => call[t] \in Calls
    /\ pc[t] \in {"beginning", "ending"} => IsCancellable(t)
    /\ pc[t] \in {"beginning", "calling", "running", "ending"} => call[t].valid
    /\ pc[t] \in {"beginning", "calling", "running", "ending", "copying"} => call[t].op # "reset"
    /\ call[t].id # 0 => call[t].id \in used
    /\ \A u \in Threads : call[t].id # 0 /\ call[u].id = call[t].id => u = t

(* A cancellation that was not pushed out still waits in the list for a    *)
(* request that has not begun.                                             *)
StillWaits ==
  \A id \in requested \ forgotten :
    \/ id \notin used
    \/ \E t \in Threads : call[t].id = id /\ pc[t] \in {"waiting", "entered", "beginning"}
    => id \in Pending

(* The answer that is about to be copied fits the session, which only the  *)
(* thread inside can have changed since it looked.                         *)
OutcomeFits ==
  \A t \in Threads :
    /\ pc[t] \in {"beginning", "calling", "running", "ending"} => sessionReusable
    /\ pc[t] \in {"ending", "copying"} =>
         /\ ~sessionReusable => outcome[t] = [status |-> "failure", canRunAgain |-> FALSE]
         /\ ~call[t].valid => outcome[t].status = "failure"
         /\ outcome[t].status = "cancelled" => IsCancellable(t)
         /\ sessionReusable /\ ~outcome[t].canRunAgain => call[t].op \in Poisoning

Inv ==
  /\ TypeOK
  /\ OneOperation
  /\ RegisteredRequest
  /\ CancellationTable
  /\ NoLostCancellation
  /\ CancelledOnlyOnRequest
  /\ ContextInUse
  /\ CallsFit
  /\ StillWaits
  /\ OutcomeFits

(* Once the session is not reusable it stays so, and no call enters a      *)
(* backend any more.                                                       *)
PoisonIsFinal ==
  [][ ~sessionReusable =>
        /\ ~sessionReusable'
        /\ \A t \in Threads : pc'[t] = "running" => pc[t] = "running" ]_vars

Precedes(list, a, b) ==
  \E i, j \in 1..Len(list) : i < j /\ list[i] = a /\ list[j] = b

InOrder ==
  /\ \A a, b \in Pending \intersect Pending' :
       Precedes(pendingCancellations', a, b) <=> Precedes(pendingCancellations, a, b)
  /\ \A a \in Pending \intersect Pending', b \in Pending' \ Pending :
       Precedes(pendingCancellations', a, b)
  /\ \A a \in forgotten' \ forgotten :
       a \in Pending /\ \A b \in Pending \ {a} : Precedes(pendingCancellations, a, b)

(* The table is first in, first out, whoever cancels and whoever consumes  *)
(* a cancellation in between: those that stay keep their order, a new one  *)
(* is last, and what a full table drops is the cancellation that has       *)
(* waited longest, however often it was repeated since (lines 49-52 and    *)
(* 197-203).                                                               *)
FirstInFirstOut == [][InOrder]_vars

(* A request that holds the lock and whose cancellation is not pushed out  *)
(* comes back, even when its backend would never have finished by itself.  *)
CancelledRequestReturns ==
  \A t \in Threads :
    (IsCancellable(t) /\ pc[t] \in InsideSteps /\ call[t].id \in requested \ forgotten)
      ~> (pc[t] = "idle" \/ call[t].id \in forgotten)

(* Cancelling the request that holds the lock lets a waiting call in.      *)
CancellationUnblocks ==
  ( /\ \E t \in Threads : pc[t] = "running" /\ IsCancellable(t) /\ flag[t]
    /\ \E t \in Threads : pc[t] = "waiting" )
  ~> \E t \in Threads : pc[t] = "entered"

-----------------------------------------------------------------------------
(* The bridge implements the serial session.  A call takes effect when its *)
(* result is copied, or when a reset drops the context.                    *)
AbstractStage(step) ==
  CASE step = "idle" -> "away"
    [] step = "returning" -> "answered"
    [] OTHER -> "asked"

Session == INSTANCE SerialSession WITH
  Cancellable <- CancellableOperations,
  NoAnswer <- NoResult,
  stage    <- [t \in Threads |-> AbstractStage(pc[t])],
  answer   <- result,
  reusable <- sessionReusable

(* Every behaviour of the bridge is one of the serial session.             *)
ImplementsSession == Session!Spec

(* The bridge's side of the contract with the backends: the flag and the   *)
(* result of the request that is registered.                               *)
Backend == INSTANCE CancellableBackend WITH
  flag <- IF runningCancellation = NoThread THEN FALSE ELSE flag[runningCancellation],
  result <- IF runningCancellation # NoThread /\ pc[runningCancellation] = "ending"
            THEN outcome[runningCancellation] ELSE NoResult

(* Completions and annotations run one after another, each with a fresh    *)
(* flag that only cancellations change and that nobody takes away before   *)
(* the backend has returned.                                               *)
ServesBackend == Backend!ServiceSpec
=============================================================================
