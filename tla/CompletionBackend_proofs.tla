------------------------ MODULE CompletionBackend_proofs ------------------------
(***************************************************************************)
(* For every number of directories, paths, modules, requests, resets and   *)
(* launches: a reused context fits its request and is of this launch, and  *)
(* the module results of a directory are in that directory and no other.   *)
(***************************************************************************)
EXTENDS CompletionBackend, TLAPS

(* A request that has opened its state works in the state of its directory *)
(* (lines 398-404).                                                        *)
OwnState ==
  phase \in {"preparing", "completing"} =>
    completionState.cacheDirectory = running.cacheDirectory

(* A context is found again by what it was made for, and is of this launch *)
(* and no older than the last reset (lines 388-391, 430-432).              *)
FitsIdentity(context) ==
  /\ context.identity = [arguments |-> context.arguments, target |-> context.file]
  /\ context.epoch = epoch

ContextFits ==
  completionState # NoState /\ completionState.context # NoContext =>
    FitsIdentity(completionState.context)

(* The inductive invariant.                                                *)
IInv ==
  /\ TypeOK
  /\ OwnState
  /\ ContextFits
  /\ CacheIsOnDisk
  /\ ReuseMatchesRequest
  /\ ReuseIsCurrent

(* What the assumption says of the values that stand for nothing.          *)
LEMMA Nothing ==
  /\ NoRequest \notin Requests
  /\ \A s \in AnyState : s # NoState
  /\ \A c \in AnyContext : c # NoContext
BY CompletionAssumption

(* A request's directory and identity are what the state may hold.         *)
LEMMA RequestParts ==
  ASSUME NEW r \in Requests
  PROVE  /\ r.cacheDirectory \in Directories \union {InMemory}
         /\ r.inputs \in SUBSET Paths
         /\ r.imports \in SUBSET Modules
         /\ RealPath[r.path] \in Files
<1>1. r \in AnyRequest
  BY CompletionAssumption
<1>2. r.path \in Paths
  BY <1>1 DEF AnyRequest
<1> QED
  BY <1>1, <1>2, CompletionAssumption DEF AnyRequest

(* A new state is of its directory, empty and without a context.           *)
LEMMA FreshParts ==
  ASSUME NEW d \in Directories \union {InMemory}
  PROVE  /\ FreshState(d) \in AnyState
         /\ FreshState(d).cacheDirectory = d
         /\ FreshState(d).cache = {}
         /\ FreshState(d).context = NoContext
BY DEF FreshState, AnyState

(* The state that a request opens is of its directory; it is the old one   *)
(* or a new one.                                                           *)
LEMMA OpenedParts ==
  ASSUME NEW s \in AnyState \union {NoState}, NEW d \in Directories \union {InMemory}
  PROVE  /\ Opened(s, d) \in AnyState
         /\ Opened(s, d).cacheDirectory = d
         /\ Opened(s, d) = s \/ Opened(s, d) = FreshState(d)
BY FreshParts DEF Opened

(* A state with more results or another context is a state.                *)
LEMMA StateWithContext ==
  ASSUME NEW s \in AnyState, NEW c \in AnyContext \union {NoContext}
  PROVE  /\ [s EXCEPT !.context = c] \in AnyState
         /\ [s EXCEPT !.context = c].context = c
         /\ [s EXCEPT !.context = c].cache = s.cache
         /\ [s EXCEPT !.context = c].cacheDirectory = s.cacheDirectory
BY DEF AnyState

LEMMA StateWithModule ==
  ASSUME NEW s \in AnyState, NEW m \in Modules
  PROVE  /\ [s EXCEPT !.cache = @ \union {m}] \in AnyState
         /\ [s EXCEPT !.cache = @ \union {m}].context = s.context
         /\ [s EXCEPT !.cache = @ \union {m}].cache = s.cache \union {m}
         /\ [s EXCEPT !.cache = @ \union {m}].cacheDirectory = s.cacheDirectory
BY DEF AnyState

(* The part of TypeOK about the last answer.                               *)
LastType ==
  last \in [status : {"none", "success", "failure", "cancelled"}, reused : BOOLEAN,
            request : Requests \union {NoRequest}, builtBy : AnyContext \union {NoContext},
            epoch : 0..MaxEpoch]

(* No answer is an answer of a good type.                                  *)
LEMMA NoAnswerType == last' = NoAnswer => LastType'
BY CompletionAssumption DEF NoAnswer, LastType

LEMMA NoAnswerTypeNow == last = NoAnswer => LastType
BY CompletionAssumption DEF NoAnswer, LastType

(* An answer of a good type leaves no request running.                     *)
LEMMA AnswerType ==
  ASSUME TypeOK, NEW status \in {"success", "failure", "cancelled"}, NEW reused \in BOOLEAN,
         NEW builtBy \in AnyContext \union {NoContext}, Answer(status, reused, builtBy)
  PROVE  /\ LastType'
         /\ last'.reused = reused
         /\ last'.request = running
         /\ last'.builtBy = builtBy
         /\ last'.epoch = epoch
         /\ running' = NoRequest /\ phase' = "idle" /\ flag' = flag
         /\ consulted' = {} /\ unwritten = {} /\ unwritten' = {}
BY DEF TypeOK, Answer, LastType

-----------------------------------------------------------------------------
(* The first state, and what leaves the last answer and the context alone. *)
LEMMA InitIInv == Init => IInv
<1> SUFFICES ASSUME Init PROVE IInv
  OBVIOUS
<1>1. TypeOK
  <2>1. LastType
    BY NoAnswerTypeNow DEF Init
  <2>2. epoch \in 0..MaxEpoch /\ disk \in [Directories -> SUBSET Modules]
    BY CompletionAssumption DEF Init
  <2> QED
    BY <2>1, <2>2 DEF Init, TypeOK, LastType
<1>2. OwnState /\ ContextFits /\ CacheIsOnDisk
  BY DEF Init, OwnState, ContextFits, CacheIsOnDisk
<1>3. ReuseMatchesRequest /\ ReuseIsCurrent
  BY DEF Init, NoAnswer, ReuseMatchesRequest, ReuseIsCurrent
<1> QED
  BY <1>1, <1>2, <1>3 DEF IInv

(* A new run of the process, or a reset, leaves no context.                *)
LEMMA WithoutState ==
  ASSUME completionState' = NoState, phase' = "idle"
  PROVE  OwnState' /\ ContextFits' /\ CacheIsOnDisk'
BY DEF OwnState, ContextFits, CacheIsOnDisk

(* The last answer stays true as long as it is the last one, and an answer *)
(* that reused nothing claims nothing.                                     *)
LEMMA LastStays ==
  ASSUME ReuseMatchesRequest, ReuseIsCurrent, last' = last \/ last'.reused = FALSE
  PROVE  ReuseMatchesRequest' /\ ReuseIsCurrent'
BY DEF ReuseMatchesRequest, ReuseIsCurrent

LEMMA StepStart == ASSUME IInv, NEW r \in Requests, Start(r) PROVE IInv'
<1> USE DEF lookups
<1>1. TypeOK'
  BY Nothing, NoAnswerType DEF IInv, TypeOK, LastType, Start
<1>2. OwnState' /\ ContextFits' /\ CacheIsOnDisk'
  BY DEF IInv, OwnState, ContextFits, CacheIsOnDisk, FitsIdentity, Start
<1>3. ReuseMatchesRequest' /\ ReuseIsCurrent'
  BY LastStays DEF IInv, Start, NoAnswer
<1> QED
  BY <1>1, <1>2, <1>3 DEF IInv

LEMMA StepCancel == ASSUME IInv, Cancel PROVE IInv'
<1> USE DEF lookups
<1>1. TypeOK'
  BY DEF IInv, TypeOK, Cancel
<1>2. OwnState' /\ ContextFits' /\ CacheIsOnDisk'
  BY DEF IInv, OwnState, ContextFits, CacheIsOnDisk, FitsIdentity, Cancel
<1>3. ReuseMatchesRequest' /\ ReuseIsCurrent'
  BY LastStays DEF IInv, Cancel
<1> QED
  BY <1>1, <1>2, <1>3 DEF IInv

LEMMA StepPrepare == ASSUME IInv, Prepare PROVE IInv'
<1> USE DEF lookups
<1>1. TypeOK'
  BY DEF IInv, TypeOK, Prepare
<1>2. OwnState' /\ ContextFits' /\ CacheIsOnDisk'
  BY DEF IInv, OwnState, ContextFits, CacheIsOnDisk, FitsIdentity, Prepare
<1>3. ReuseMatchesRequest' /\ ReuseIsCurrent'
  BY LastStays DEF IInv, Prepare
<1> QED
  BY <1>1, <1>2, <1>3 DEF IInv

LEMMA StepOpenState == ASSUME IInv, OpenState PROVE IInv'
<1> USE DEF lookups
<1> DEFINE d == running.cacheDirectory
<1>1. running \in Requests /\ completionState \in AnyState \union {NoState}
  BY DEF IInv, TypeOK, OpenState
<1>2. d \in Directories \union {InMemory}
  BY <1>1, RequestParts
<1>3. /\ completionState' \in AnyState
      /\ completionState'.cacheDirectory = d
      /\ completionState' = completionState \/ completionState' = FreshState(d)
  BY <1>1, <1>2, OpenedParts DEF OpenState
<1>4. TypeOK'
  BY <1>3, Nothing DEF IInv, TypeOK, OpenState
<1>5. OwnState'
  BY <1>3 DEF OpenState, OwnState
<1>6. ContextFits' /\ CacheIsOnDisk'
  <2>1. CASE completionState' = completionState
    BY <2>1 DEF IInv, OpenState, ContextFits, FitsIdentity, CacheIsOnDisk
  <2>2. CASE completionState' = FreshState(d)
    BY <1>2, <2>2, FreshParts DEF ContextFits, CacheIsOnDisk
  <2> QED
    BY <1>3, <2>1, <2>2
<1>7. ReuseMatchesRequest' /\ ReuseIsCurrent'
  BY LastStays DEF IInv, OpenState
<1> QED
  BY <1>4, <1>5, <1>6, <1>7 DEF IInv

LEMMA StepReject == ASSUME IInv, Reject PROVE IInv'
<1>1. Answer("failure", FALSE, NoContext) /\ TypeOK
  BY DEF IInv, Reject
<1>2. /\ LastType' /\ last'.reused = FALSE /\ running' = NoRequest /\ phase' = "idle"
      /\ flag' = flag /\ consulted' = {} /\ unwritten = {} /\ unwritten' = {}
  BY <1>1, AnswerType
<1>3. TypeOK'
  BY <1>2 DEF IInv, TypeOK, LastType, Reject
<1>4. OwnState' /\ ContextFits' /\ CacheIsOnDisk'
  BY <1>2 DEF IInv, OwnState, ContextFits, CacheIsOnDisk, FitsIdentity, Reject
<1>5. ReuseMatchesRequest' /\ ReuseIsCurrent'
  BY <1>2, LastStays DEF IInv
<1> QED
  BY <1>3, <1>4, <1>5 DEF IInv

LEMMA StepConsultModule == ASSUME IInv, NEW m \in Modules, ConsultModule(m) PROVE IInv'
<1> DEFINE d == completionState.cacheDirectory
<1>1. completionState \in AnyState /\ completionState # NoState /\ disk \in [Directories -> SUBSET Modules]
  BY DEF IInv, TypeOK, ConsultModule
<1>2. /\ completionState' \in AnyState
      /\ completionState'.context = completionState.context
      /\ completionState'.cache = completionState.cache \union {m}
      /\ completionState'.cacheDirectory = d
  BY <1>1, StateWithModule DEF ConsultModule
<1>3. /\ disk' = disk /\ unwritten = {}
      /\ unwritten' = IF d \in Directories
                      THEN {m} \ (completionState.cache \union disk[d]) ELSE {}
  BY DEF ConsultModule
<1>4. TypeOK'
  BY <1>2, <1>3, Nothing DEF IInv, TypeOK, ConsultModule
<1>5. OwnState' /\ ContextFits'
  BY <1>1, <1>2 DEF IInv, OwnState, ContextFits, FitsIdentity, ConsultModule
<1>6. CacheIsOnDisk'
  <2> SUFFICES ASSUME d \in Directories
               PROVE  (completionState.cache \union {m}) \ unwritten' \subseteq disk[d]
    BY <1>2, <1>3 DEF CacheIsOnDisk
  <2>1. completionState.cache \subseteq disk[d]
    BY <1>1, <1>3 DEF IInv, CacheIsOnDisk
  <2> QED
    BY <1>3, <2>1
<1>7. ReuseMatchesRequest' /\ ReuseIsCurrent'
  BY LastStays DEF IInv, ConsultModule
<1> QED
  BY <1>4, <1>5, <1>6, <1>7 DEF IInv

LEMMA StepWriteModule == ASSUME IInv, WriteModule PROVE IInv'
<1> DEFINE d == completionState.cacheDirectory
<1>1. /\ completionState # NoState /\ d \in Directories /\ unwritten \subseteq Modules
      /\ disk \in [Directories -> SUBSET Modules]
  BY DEF IInv, TypeOK, WriteModule
<1>2. disk' = [disk EXCEPT ![d] = @ \union unwritten] /\ unwritten' = {}
      /\ completionState' = completionState
  BY DEF WriteModule
<1>3. disk' \in [Directories -> SUBSET Modules] /\ disk'[d] = disk[d] \union unwritten
  BY <1>1, <1>2
<1>4. TypeOK'
  BY <1>2, <1>3 DEF IInv, TypeOK, WriteModule
<1>5. OwnState' /\ ContextFits'
  BY DEF IInv, OwnState, ContextFits, FitsIdentity, WriteModule
<1>6. CacheIsOnDisk'
  <2>1. completionState.cache \ unwritten \subseteq disk[d]
    BY <1>1 DEF IInv, CacheIsOnDisk
  <2> QED
    BY <1>2, <1>3, <2>1 DEF CacheIsOnDisk
<1>7. ReuseMatchesRequest' /\ ReuseIsCurrent'
  BY LastStays DEF IInv, WriteModule
<1> QED
  BY <1>4, <1>5, <1>6, <1>7 DEF IInv

(* An answer that leaves a context that fits, or none.                     *)
LEMMA StepAnswer ==
  ASSUME IInv, phase = "completing",
         NEW status \in {"success", "failure", "cancelled"}, NEW reused \in BOOLEAN,
         NEW builtBy \in AnyContext \union {NoContext}, Answer(status, reused, builtBy),
         reused => /\ builtBy.arguments = running.inputs
                   /\ builtBy.file = RealPath[running.path]
                   /\ builtBy.epoch = epoch,
         NEW kept \in AnyContext \union {NoContext}, kept # NoContext => FitsIdentity(kept),
         completionState' = [completionState EXCEPT !.context = kept],
         UNCHANGED <<disk, epoch>>
  PROVE  IInv'
<1>1. completionState \in AnyState /\ completionState # NoState
  BY DEF IInv, TypeOK
<1>2. /\ LastType' /\ last'.reused = reused /\ last'.request = running /\ last'.builtBy = builtBy
      /\ last'.epoch = epoch /\ running' = NoRequest /\ phase' = "idle" /\ flag' = flag
      /\ consulted' = {} /\ unwritten = {} /\ unwritten' = {}
  BY AnswerType DEF IInv
<1>3. /\ completionState' \in AnyState
      /\ completionState'.context = kept
      /\ completionState'.cache = completionState.cache
      /\ completionState'.cacheDirectory = completionState.cacheDirectory
  BY <1>1, StateWithContext
<1>4. TypeOK'
  BY <1>2, <1>3 DEF IInv, TypeOK, LastType
<1>5. OwnState' /\ ContextFits' /\ CacheIsOnDisk'
  BY <1>1, <1>2, <1>3 DEF IInv, OwnState, ContextFits, CacheIsOnDisk, FitsIdentity
<1>6. ReuseMatchesRequest' /\ ReuseIsCurrent'
  BY <1>2 DEF ReuseMatchesRequest, ReuseIsCurrent
<1> QED
  BY <1>4, <1>5, <1>6 DEF IInv

(* A record of the state's own context is the state.                       *)
LEMMA SameContext ==
  ASSUME NEW s \in AnyState
  PROVE  s = [s EXCEPT !.context = s.context]
BY DEF AnyState

LEMMA StepSucceed == ASSUME IInv, Succeed PROVE IInv'
<1> DEFINE old == completionState.context
           new == [identity |-> Identity(running), arguments |-> running.inputs,
                   file |-> RealPath[running.path], epoch |-> epoch]
<1>1. /\ phase = "completing" /\ UNCHANGED <<disk, epoch>>
      /\ completionState \in AnyState /\ completionState # NoState /\ running \in Requests
      /\ epoch \in Nat
  BY CompletionAssumption DEF IInv, TypeOK, Succeed
<1>2. old \in AnyContext \union {NoContext}
  BY <1>1 DEF AnyState
<1>3. new \in AnyContext /\ FitsIdentity(new)
  BY <1>1, RequestParts DEF AnyContext, Identity, FitsIdentity
<1>4. CASE Matches(old, running) /\ Answer("success", TRUE, old) /\ UNCHANGED completionState
  <2>1. old # NoContext /\ FitsIdentity(old) /\ old.identity = Identity(running)
    BY <1>1, <1>4 DEF IInv, ContextFits, Matches
  <2>2. old.arguments = running.inputs /\ old.file = RealPath[running.path] /\ old.epoch = epoch
    BY <2>1 DEF FitsIdentity, Identity
  <2>3. completionState' = [completionState EXCEPT !.context = old]
    BY <1>1, <1>4, SameContext
  <2> QED
    BY <1>1, <1>2, <1>4, <2>1, <2>2, <2>3, StepAnswer
<1>5. CASE /\ Answer("success", FALSE, new)
           /\ \E kept \in {new, NoContext} :
                completionState' = [completionState EXCEPT !.context = kept]
  <2>1. PICK kept \in {new, NoContext} :
          completionState' = [completionState EXCEPT !.context = kept]
    BY <1>5
  <2> HIDE DEF new
  <2>2. kept \in AnyContext \union {NoContext} /\ (kept # NoContext => FitsIdentity(kept))
    BY <1>3
  <2> QED
    BY <1>1, <1>3, <1>5, <2>1, <2>2, StepAnswer
<1> QED
  BY <1>4, <1>5 DEF Succeed

LEMMA StepGiveUp ==
  ASSUME IInv, NEW status \in {"failure", "cancelled"}, GiveUp(status)
  PROVE  IInv'
<1>1. /\ phase = "completing" /\ UNCHANGED <<disk, epoch>>
      /\ completionState \in AnyState /\ completionState # NoState
      /\ Answer(status, FALSE, NoContext)
  BY DEF IInv, TypeOK, GiveUp
<1>2. completionState.context \in AnyContext \union {NoContext}
  BY <1>1 DEF AnyState
<1>3. PICK kept \in {completionState.context, NoContext} :
        completionState' = [completionState EXCEPT !.context = kept]
  BY DEF GiveUp
<1>4. kept \in AnyContext \union {NoContext} /\ (kept # NoContext => FitsIdentity(kept))
  BY <1>1, <1>2 DEF IInv, ContextFits
<1> QED
  BY <1>1, <1>3, <1>4, StepAnswer

LEMMA StepResetCompletion == ASSUME IInv, ResetCompletion PROVE IInv'
<1> USE DEF lookups
<1>1. TypeOK'
  BY CompletionAssumption DEF IInv, TypeOK, ResetCompletion, ResetState
<1>2. OwnState' /\ ContextFits' /\ CacheIsOnDisk'
  BY WithoutState DEF ResetCompletion, ResetState
<1>3. ReuseMatchesRequest' /\ ReuseIsCurrent'
  BY LastStays DEF IInv, ResetCompletion
<1> QED
  BY <1>1, <1>2, <1>3 DEF IInv

LEMMA StepRelaunch == ASSUME IInv, Relaunch PROVE IInv'
<1>1. TypeOK'
  <2>1. LastType'
    BY NoAnswerType DEF Relaunch
  <2>2. epoch' \in 0..MaxEpoch /\ disk' \in [Directories -> SUBSET Modules]
    BY CompletionAssumption DEF IInv, TypeOK, Relaunch
  <2> QED
    BY <2>1, <2>2 DEF TypeOK, LastType, Relaunch
<1>2. OwnState' /\ ContextFits' /\ CacheIsOnDisk'
  BY WithoutState DEF Relaunch
<1>3. ReuseMatchesRequest' /\ ReuseIsCurrent'
  BY LastStays DEF IInv, Relaunch, NoAnswer
<1> QED
  BY <1>1, <1>2, <1>3 DEF IInv

(* Every step keeps the inductive invariant.                               *)
LEMMA NextIInv == IInv /\ [Next]_vars => IInv'
<1> SUFFICES ASSUME IInv, [Next]_vars PROVE IInv'
  OBVIOUS
<1>1. CASE UNCHANGED vars
  BY <1>1 DEF IInv, vars, lookups, TypeOK, OwnState, ContextFits, FitsIdentity, CacheIsOnDisk,
              ReuseMatchesRequest, ReuseIsCurrent
<1>2. CASE Next
  BY <1>2, StepStart, StepCancel, StepOpenState, StepReject, StepPrepare, StepConsultModule,
     StepWriteModule, StepSucceed, StepGiveUp, StepResetCompletion, StepRelaunch DEF Next
<1> QED
  BY <1>1, <1>2

(* The inductive invariant holds always.                                   *)
THEOREM CompletionInvariant == Spec => []IInv
BY InitIInv, NextIInv, PTL DEF Spec

(* A running request always has a state to work in (lines 398-404).        *)
THEOREM CompletionTypes == Spec => []TypeOK
<1>1. IInv => TypeOK
  BY DEF IInv
<1> QED
  BY <1>1, CompletionInvariant, PTL

(* A list that was made from a reused context was made from one for the    *)
(* same arguments and the same file (lines 430-432).                       *)
THEOREM ReusedContextMatches == Spec => []ReuseMatchesRequest
<1>1. IInv => ReuseMatchesRequest
  BY DEF IInv
<1> QED
  BY <1>1, CompletionInvariant, PTL

(* No context survives a reset or a launch (lines 388-391).                *)
THEOREM ReusedContextIsCurrent == Spec => []ReuseIsCurrent
<1>1. IInv => ReuseIsCurrent
  BY DEF IInv
<1> QED
  BY <1>1, CompletionInvariant, PTL

(* What memory holds for a directory is in the directory, but for what is  *)
(* just being written there (lines 41-46).                                 *)
THEOREM CacheStaysOnDisk == Spec => []CacheIsOnDisk
<1>1. IInv => CacheIsOnDisk
  BY DEF IInv
<1> QED
  BY <1>1, CompletionInvariant, PTL

(* Only a request that names a directory changes it, and only adds to it   *)
(* (lines 398-404).                                                        *)
THEOREM DiskOnlyForRequests == Spec => DiskOnlyForItsRequests
<1> DEFINE Grows ==
      \A d \in Directories : disk'[d] # disk[d] => /\ running # NoRequest
                                                   /\ running.cacheDirectory = d
                                                   /\ disk[d] \subseteq disk'[d]
<1>1. IInv /\ [Next]_vars => [Grows]_vars
  <2> SUFFICES ASSUME IInv, [Next]_vars PROVE Grows \/ UNCHANGED vars
    OBVIOUS
  <2>1. CASE UNCHANGED disk
    BY <2>1
  <2>2. CASE WriteModule
    <3>1. /\ disk \in [Directories -> SUBSET Modules]
          /\ running # NoRequest
          /\ completionState.cacheDirectory = running.cacheDirectory
      BY <2>2 DEF IInv, TypeOK, OwnState, WriteModule
    <3> QED
      BY <2>2, <3>1 DEF WriteModule
  <2> QED
    BY <2>1, <2>2 DEF Next, vars, Start, Cancel, OpenState, Reject, Prepare, ConsultModule, Succeed,
                      GiveUp, ResetCompletion, Relaunch
<1> QED
  BY <1>1, CompletionInvariant, PTL DEF Spec, DiskOnlyForItsRequests
=============================================================================
