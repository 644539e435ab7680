-------------------------- MODULE CompletionBackend --------------------------
(***************************************************************************)
(* The completion context that CompletionBackend.cpp keeps between         *)
(* requests: one inspection instance with a type-checked context, and the  *)
(* results of imported modules, in memory and, when a request names a      *)
(* cache directory, on disk.  The bridge's operation lock puts requests    *)
(* and resets in sequence; the process may end at any moment and start     *)
(* again, and then only the directories remain.                            *)
(***************************************************************************)
EXTENDS Naturals, FiniteSets

CONSTANTS
  Directories,   (* the cache directories that requests name                *)
  Paths,         (* the paths of inputs, some of which may be links         *)
  Files,         (* the files behind the paths                              *)
  RealPath,      (* getRealPath: the file behind each path                  *)
  Modules,       (* the modules that the project imports                    *)
  Requests,      (* the requests to consider, a subset of AnyRequest        *)
  NoRequest, NoState, NoContext,
  MaxEpoch       (* bound: how many resets and launches are considered      *)

(* The empty string that stands for results in memory only.                *)
InMemory == "memory"

(* inputs: the input paths among the frontend arguments, which for this    *)
(* model are the arguments.  sound: the arguments parse.  imports: the     *)
(* modules whose results the list needs.                                   *)
AnyRequest ==
  [inputs : SUBSET Paths, sound : BOOLEAN, path : Paths,
   cacheDirectory : Directories \union {InMemory}, imports : SUBSET Modules]

(* What a type-checked context was in fact made for, and what it is found  *)
(* again by.                                                               *)
AnyContext ==
  [identity : [arguments : SUBSET Paths, target : Files], arguments : SUBSET Paths,
   file : Files, epoch : Nat]

(* CompletionState.                                                        *)
AnyState == [cacheDirectory : Directories \union {InMemory}, cache : SUBSET Modules,
             context : AnyContext \union {NoContext}]

ASSUME CompletionAssumption ==
  /\ InMemory \notin Directories
  /\ RealPath \in [Paths -> Files]
  /\ Requests \subseteq AnyRequest
  /\ MaxEpoch \in Nat
  /\ NoRequest \notin Requests /\ NoState \notin AnyState /\ NoContext \notin AnyContext

VARIABLES
  running,          (* the request that runCompletion works on             *)
  phase,
  flag,             (* its cancellation flag                               *)
  completionState,  (* the object, or NoState for the null pointer         *)
  disk,             (* the module results in each directory                *)
  consulted,        (* the modules that the running request has looked up  *)
  unwritten,        (* those of them in memory that the disk is to get now  *)
  last,             (* history: the last answer, and the request it answers *)
  epoch             (* history: how many resets and launches there were    *)

lookups == <<consulted, unwritten>>
vars == <<running, phase, flag, completionState, disk, lookups, last, epoch>>

NoAnswer == [status |-> "none", reused |-> FALSE, request |-> NoRequest, builtBy |-> NoContext,
             epoch |-> 0]

(* Mutant: the frontend arguments alone decide.                            *)
IdentityWithoutPath(r) ==
  [arguments |-> r.inputs, target |-> CHOOSE f \in Files : TRUE]

(* What decides the reuse of a context: the arguments and the real path of *)
(* the primary input.                                                      *)
Identity(r) == [arguments |-> r.inputs, target |-> RealPath[r.path]]

(* CompletionState::CompletionState: the directory's results are found     *)
(* through the cache in memory when a module is first needed.              *)
FreshState(directory) ==
  [cacheDirectory |-> directory, cache |-> {}, context |-> NoContext]

Init ==
  /\ running = NoRequest
  /\ phase = "idle"
  /\ flag = FALSE
  /\ completionState = NoState
  /\ disk = [d \in Directories |-> {}]
  /\ consulted = {} /\ unwritten = {}
  /\ last = NoAnswer
  /\ epoch = 0

-----------------------------------------------------------------------------
(* One request.                                                            *)

(* The bridge made a flag for this request alone.                          *)
Start(r) ==
  /\ phase = "idle"
  /\ running' = r
  /\ phase' = "opening"
  /\ flag' = FALSE
  /\ last' = NoAnswer
  /\ UNCHANGED <<completionState, disk, lookups, epoch>>

(* The bridge sets the flag from another thread.                           *)
Cancel ==
  /\ phase # "idle"
  /\ ~flag
  /\ flag' = TRUE
  /\ UNCHANGED <<running, phase, completionState, disk, lookups, last, epoch>>

(* Mutant: an existing state serves every directory.                       *)
OpenedAny(state, directory) == IF state # NoState THEN state ELSE FreshState(directory)

(* Mutant: the existing state only takes the request's directory over.     *)
OpenedRenamed(state, directory) ==
  IF state # NoState THEN [state EXCEPT !.cacheDirectory = directory] ELSE FreshState(directory)

(* Mutant: the old state is deleted and no new one is made.                *)
OpenedOrDropped(state, directory) ==
  IF state = NoState THEN FreshState(directory)
  ELSE IF state.cacheDirectory = directory THEN state ELSE NoState

(* A different directory starts a new state.                               *)
Opened(state, directory) ==
  IF state # NoState /\ state.cacheDirectory = directory THEN state ELSE FreshState(directory)

(* Before the request's arguments are looked at.                           *)
OpenState ==
  /\ phase = "opening"
  /\ phase' = "preparing"
  /\ completionState' = Opened(completionState, running.cacheDirectory)
  /\ UNCHANGED <<running, flag, disk, lookups, last, epoch>>

Answer(status, reused, builtBy) ==
  /\ last' = [status |-> status, reused |-> reused, request |-> running,
              builtBy |-> builtBy, epoch |-> epoch]
  /\ running' = NoRequest
  /\ phase' = "idle"
  /\ unwritten = {}
  /\ consulted' = {}
  /\ UNCHANGED <<flag, unwritten>>

(* The request's path is one of the frontend inputs.                       *)
FindsTarget(r) == \E p \in r.inputs : RealPath[p] = RealPath[r.path]

Reject ==
  /\ phase = "preparing"
  /\ ~(running.sound /\ FindsTarget(running))
  /\ Answer("failure", FALSE, NoContext)
  /\ UNCHANGED <<completionState, disk, epoch>>

Prepare ==
  /\ phase = "preparing"
  /\ running.sound /\ FindsTarget(running)
  /\ phase' = "completing"
  /\ UNCHANGED <<running, flag, completionState, disk, lookups, last, epoch>>

(* The completion needs a module's results.  They come from memory, else   *)
(* from the directory, else they are computed, and memory keeps them.      *)
ConsultModule(m) ==
  /\ phase = "completing"
  /\ unwritten = {}
  /\ m \in running.imports \ consulted
  /\ consulted' = consulted \union {m}
  /\ completionState' = [completionState EXCEPT !.cache = @ \union {m}]
  /\ LET directory == completionState.cacheDirectory
     IN unwritten' = IF directory \in Directories
                     THEN {m} \ (completionState.cache \union disk[directory])
                     ELSE {}
  /\ UNCHANGED <<running, phase, flag, disk, last, epoch>>

(* What was computed is written to the directory before the completion     *)
(* goes on; the process may end in between.                                *)
WriteModule ==
  /\ phase = "completing"
  /\ unwritten # {}
  /\ disk' = [disk EXCEPT ![completionState.cacheDirectory] = @ \union unwritten]
  /\ unwritten' = {}
  /\ UNCHANGED <<running, phase, flag, completionState, consulted, last, epoch>>

(* The inspection instance may reuse its context for the same identity.    *)
Matches(context, r) == context # NoContext /\ context.identity = Identity(r)

(* The inspection instance works with its context, when the edit stays     *)
(* inside one body, or with a new one, which it may keep.                  *)
Succeed ==
  /\ phase = "completing"
  /\ running.imports = consulted
  /\ LET old == completionState.context
         new == [identity |-> Identity(running), arguments |-> running.inputs,
                 file |-> RealPath[running.path], epoch |-> epoch]
     IN \/ /\ Matches(old, running)
           /\ Answer("success", TRUE, old)
           /\ UNCHANGED completionState
        \/ /\ Answer("success", FALSE, new)
           /\ \E kept \in {new, NoContext} :
                completionState' = [completionState EXCEPT !.context = kept]
  /\ UNCHANGED <<disk, epoch>>

(* A failed or cancelled completion may lose the context, and never        *)
(* replaces it by one that was not completely type-checked.                *)
GiveUp(status) ==
  /\ phase = "completing"
  /\ status = "cancelled" => flag
  /\ Answer(status, FALSE, NoContext)
  /\ \E kept \in {completionState.context, NoContext} :
       completionState' = [completionState EXCEPT !.context = kept]
  /\ UNCHANGED <<disk, epoch>>

-----------------------------------------------------------------------------
(* Mutant: the reset empties the module results and keeps the instance.    *)
EmptiedState(state) == IF state = NoState THEN NoState ELSE [state EXCEPT !.cache = {}]

ResetState(state) == NoState

(* resetCompletion; the operation lock keeps it out of a request.          *)
ResetCompletion ==
  /\ phase = "idle"
  /\ epoch < MaxEpoch
  /\ completionState' = ResetState(completionState)
  /\ epoch' = epoch + 1
  /\ UNCHANGED <<running, phase, flag, disk, lookups, last>>

(* The process ends, perhaps in the middle of a request, and starts again. *)
Relaunch ==
  /\ epoch < MaxEpoch
  /\ completionState' = NoState
  /\ epoch' = epoch + 1
  /\ running' = NoRequest
  /\ phase' = "idle"
  /\ flag' = FALSE
  /\ consulted' = {} /\ unwritten' = {}
  /\ last' = NoAnswer
  /\ UNCHANGED disk

Next ==
  \/ \E r \in Requests : Start(r)
  \/ Cancel
  \/ OpenState
  \/ Reject
  \/ Prepare
  \/ \E m \in Modules : ConsultModule(m)
  \/ WriteModule
  \/ Succeed
  \/ \E status \in {"failure", "cancelled"} : GiveUp(status)
  \/ ResetCompletion
  \/ Relaunch

Spec == Init /\ [][Next]_vars

-----------------------------------------------------------------------------
(* Properties.                                                             *)

(* A running request has a state to work in from the moment it is prepared.*)
TypeOK ==
  /\ running \in Requests \union {NoRequest}
  /\ phase \in {"idle", "opening", "preparing", "completing"}
  /\ (phase = "idle") = (running = NoRequest)
  /\ flag \in BOOLEAN
  /\ completionState \in AnyState \union {NoState}
  /\ phase \in {"preparing", "completing"} => completionState # NoState
  /\ disk \in [Directories -> SUBSET Modules]
  /\ consulted \subseteq Modules
  /\ unwritten # {} => /\ unwritten \subseteq Modules /\ phase = "completing"
                       /\ completionState.cacheDirectory \in Directories
  /\ last \in [status : {"none", "success", "failure", "cancelled"}, reused : BOOLEAN,
               request : Requests \union {NoRequest}, builtBy : AnyContext \union {NoContext},
               epoch : 0..MaxEpoch]
  /\ epoch \in 0..MaxEpoch

(* A list that says it reused the context was made from one that was type- *)
(* checked for the same arguments and the same file (lines 430-432).       *)
ReuseMatchesRequest ==
  last.reused =>
    /\ last.builtBy.arguments = last.request.inputs
    /\ last.builtBy.file = RealPath[last.request.path]

(* The reused context was made in this process and after the last reset    *)
(* (lines 388-391 and Docs/CompilerBridge.md: a reset "drops the context").*)
ReuseIsCurrent == last.reused => last.builtBy.epoch = last.epoch

(* What a state with a directory has in memory is also in that directory,  *)
(* but for what is being written: a process that ends, at any point of a   *)
(* request, loses no more than the one module it is working on (41-46).    *)
CacheIsOnDisk ==
  completionState # NoState /\ completionState.cacheDirectory \in Directories =>
    completionState.cache \ unwritten \subseteq disk[completionState.cacheDirectory]

(* A directory only grows, and only through a request that names it; a     *)
(* request that names none writes nowhere.                                 *)
DiskOnlyForItsRequests ==
  [][\A d \in Directories :
       disk'[d] # disk[d] => /\ running # NoRequest
                             /\ running.cacheDirectory = d
                             /\ disk[d] \subseteq disk'[d]]_vars
=============================================================================
