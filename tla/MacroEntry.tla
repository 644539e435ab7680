----------------------------- MODULE MacroEntry -----------------------------
(***************************************************************************)
(* Bundled macros (Sources/MacroBridge/MacroEntry.cpp).  A compiler        *)
(* operation, which holds the bridge's operation lock, sends messages to   *)
(* the macro server.  The server is isolated to the main actor, so the     *)
(* adapter runs its handler on the main queue: directly when the caller    *)
(* already is there, else through dispatch_sync, which blocks the caller.  *)
(***************************************************************************)
EXTENDS Naturals, Sequences, FiniteSets

CONSTANTS
  Workers,       (* threads that call the compiler                          *)
  Main,          (* the application's own work on the main queue            *)
  Nobody,
  MaxMessages,   (* bound: messages of one operation                        *)
  MaxDepth       (* bound: how deep a handler sends messages itself         *)

ASSUME MacroAssumption ==
  /\ Main \notin Workers
  /\ Nobody \notin Workers \union {Main}
  /\ MaxMessages \in Nat
  /\ MaxDepth \in Nat \ {0}

Callers == Workers \union {Main}

VARIABLES
  pc,          (* where each caller is                                     *)
  frames,      (* for each caller, how each handler that it is in was      *)
               (* entered: "direct" or through the "queue"                 *)
  messages,    (* how many messages the caller's operation has sent        *)
  operation,   (* who holds the operation lock                             *)
  queue,       (* what waits for the main queue: Main, or a worker whose   *)
               (* request waits in dispatch_sync                           *)
  onMain,      (* whose code the main queue runs                           *)
  mainThread,  (* the main thread runs main(), drains the main queue in a  *)
               (* run loop, or has been released by dispatch_main          *)
  marker       (* the main queue has its marker                            *)

vars == <<pc, frames, messages, operation, queue, onMain, mainThread, marker>>

(* The process starts in main(), which belongs to the main queue.          *)
Init ==
  /\ pc = [c \in Callers |-> "idle"]
  /\ frames = [c \in Callers |-> <<>>]
  /\ messages = [c \in Callers |-> 0]
  /\ operation = Nobody
  /\ queue = <<>>
  /\ onMain = Main
  /\ mainThread = "main"
  /\ marker = FALSE

-----------------------------------------------------------------------------
(* A compiler operation (SwiftCompilerBridge.cpp).                         *)

(* The application may also call from the main queue, which the            *)
(* documentation advises against.                                          *)
Submit(c) ==
  /\ pc[c] = "idle"
  /\ c = Main => onMain = Main
  /\ pc' = [pc EXCEPT ![c] = "waiting"]
  /\ UNCHANGED <<frames, messages, operation, queue, onMain, mainThread, marker>>

Acquire(c) ==
  /\ pc[c] = "waiting"
  /\ operation = Nobody
  /\ operation' = c
  /\ pc' = [pc EXCEPT ![c] = "compiling"]
  /\ messages' = [messages EXCEPT ![c] = 0]
  /\ UNCHANGED <<frames, queue, onMain, mainThread, marker>>

Return(c) ==
  /\ pc[c] = "compiling"
  /\ operation' = Nobody
  /\ pc' = [pc EXCEPT ![c] = "idle"]
  /\ messages' = [messages EXCEPT ![c] = 0]
  /\ UNCHANGED <<frames, queue, onMain, mainThread, marker>>

-----------------------------------------------------------------------------
(* swift_inproc_plugins_handle_message.                                    *)

(* The compiler, or a handler, sends a message.  The first one installs    *)
(* the marker (dispatch_once).                                             *)
Send(c) ==
  /\ pc[c] \in {"compiling", "handling"}
  /\ messages[c] < MaxMessages
  /\ Len(frames[c]) < MaxDepth
  /\ pc' = [pc EXCEPT ![c] = "sending"]
  /\ messages' = [messages EXCEPT ![c] = @ + 1]
  /\ marker' = TRUE
  /\ UNCHANGED <<frames, operation, queue, onMain, mainThread>>

(* pthread_main_np: the main queue runs on the main thread until           *)
(* dispatch_main releases that thread.                                     *)
IsMainThread(c) == onMain = c /\ mainThread # "released"

(* Mutant: the physical thread decides alone.                              *)
RunsOnMainThread(c) == IsMainThread(c)

(* Mutant: every caller counts as being on the main queue.                 *)
RunsAnywhere(c) == TRUE

(* The thread or the marker tells that the caller is on the main queue.    *)
RunsOnMainQueue(c) == IsMainThread(c) \/ (marker /\ onMain = c)

HandleDirectly(c) ==
  /\ pc[c] = "sending"
  /\ RunsOnMainQueue(c)
  /\ pc' = [pc EXCEPT ![c] = "handling"]
  /\ frames' = [frames EXCEPT ![c] = Append(@, "direct")]
  /\ UNCHANGED <<messages, operation, queue, onMain, mainThread, marker>>

(* Mutant: the block goes to the main thread's run loop, if there is one.  *)
PostToRunLoop(c) ==
  /\ pc[c] = "sending"
  /\ ~RunsOnMainQueue(c)
  /\ pc' = [pc EXCEPT ![c] = "posted"]
  /\ queue' = IF mainThread = "released" THEN queue ELSE Append(queue, c)
  /\ UNCHANGED <<frames, messages, operation, onMain, mainThread, marker>>

(* Mutant: dispatch_async, after which the caller goes on.                 *)
PostAndGoOn(c) ==
  /\ pc[c] = "sending"
  /\ ~RunsOnMainQueue(c)
  /\ pc' = [pc EXCEPT ![c] = "compiling"]
  /\ queue' = Append(queue, c)
  /\ UNCHANGED <<frames, messages, operation, onMain, mainThread, marker>>

(* dispatch_sync blocks the caller, on whose stack the request lies.       *)
Post(c) ==
  /\ pc[c] = "sending"
  /\ ~RunsOnMainQueue(c)
  /\ pc' = [pc EXCEPT ![c] = "posted"]
  /\ queue' = Append(queue, c)
  /\ UNCHANGED <<frames, messages, operation, onMain, mainThread, marker>>

(* The handler ends and the adapter returns.                               *)
EndHandler(c) ==
  /\ pc[c] = "handling"
  /\ LET depth == Len(frames[c])
     IN /\ pc' = [pc EXCEPT ![c] = IF depth = 1 THEN "compiling" ELSE "handling"]
        /\ frames' = [frames EXCEPT ![c] = SubSeq(@, 1, depth - 1)]
        /\ onMain' = IF frames[c][depth] = "queue" THEN Nobody ELSE onMain
  /\ UNCHANGED <<messages, operation, queue, mainThread, marker>>

-----------------------------------------------------------------------------
(* The main queue, first in first out.                                     *)

(* main() ends in a run loop or in dispatch_main; a later block of the     *)
(* application just ends.                                                  *)
LeaveMain ==
  /\ onMain = Main
  /\ pc[Main] = "idle"
  /\ onMain' = Nobody
  /\ mainThread' \in IF mainThread = "main" THEN {"runLoop", "released"} ELSE {mainThread}
  /\ UNCHANGED <<pc, frames, messages, operation, queue, marker>>

(* The application submits a block of its own.                             *)
PostOwnWork ==
  /\ onMain # Main
  /\ \A n \in 1..Len(queue) : queue[n] # Main
  /\ queue' = Append(queue, Main)
  /\ UNCHANGED <<pc, frames, messages, operation, onMain, mainThread, marker>>

ServeOwnWork ==
  /\ onMain = Nobody
  /\ queue # <<>>
  /\ Head(queue) = Main
  /\ onMain' = Main
  /\ queue' = Tail(queue)
  /\ UNCHANGED <<pc, frames, messages, operation, mainThread, marker>>

Serve(c) ==
  /\ onMain = Nobody
  /\ queue # <<>>
  /\ Head(queue) = c
  /\ onMain' = c
  /\ queue' = Tail(queue)
  /\ pc' = [pc EXCEPT ![c] = "handling"]
  /\ frames' = [frames EXCEPT ![c] = Append(@, "queue")]
  /\ UNCHANGED <<messages, operation, mainThread, marker>>

Adapter(c) == HandleDirectly(c) \/ Post(c) \/ EndHandler(c)

Next ==
  \/ \E c \in Callers :
       Submit(c) \/ Acquire(c) \/ Return(c) \/ Send(c) \/ Adapter(c)
  \/ \E c \in Workers : Serve(c)
  \/ LeaveMain
  \/ PostOwnWork
  \/ ServeOwnWork

Spec == Init /\ [][Next]_vars

(* A thread that can run does, the main queue serves its blocks, its own   *)
(* work ends, and the lock goes to some waiting caller.                    *)
FairSpec ==
  /\ Spec
  /\ \A c \in Callers : WF_vars(Adapter(c)) /\ WF_vars(Return(c))
  /\ WF_vars(\E c \in Callers : Acquire(c))
  /\ WF_vars(\E c \in Workers : Serve(c))
  /\ WF_vars(ServeOwnWork)
  /\ WF_vars(LeaveMain)

-----------------------------------------------------------------------------
(* Properties.                                                             *)

(* Handlers are entered and left in order, and only an operation enters one. *)
TypeOK ==
  /\ pc \in [Callers -> {"idle", "waiting", "compiling", "sending", "posted", "handling"}]
  /\ frames \in [Callers -> Seq({"direct", "queue"})]
  /\ \A c \in Callers :
       /\ Len(frames[c]) <= MaxDepth
       /\ pc[c] \in {"idle", "waiting", "compiling"} => frames[c] = <<>>
  /\ messages \in [Callers -> 0..MaxMessages]
  /\ operation \in Callers \union {Nobody}
  /\ queue \in Seq(Callers)
  /\ onMain \in Callers \union {Nobody}
  /\ mainThread \in {"main", "runLoop", "released"}
  /\ marker \in BOOLEAN

(* The handler is actor-isolated: every handler, nested ones too, runs on  *)
(* the main queue, so two callers are never inside it (lines 38-43).       *)
ActorIsolated ==
  \A c \in Callers : frames[c] # <<>> /\ pc[c] = "handling" => onMain = c

(* The main queue refers to a request only while its caller is blocked,    *)
(* since the fields lie on that caller's stack (line 24), and only once.   *)
BorrowedFieldsLive ==
  \A n \in 1..Len(queue) :
    queue[n] # Main =>
      /\ pc[queue[n]] = "posted"
      /\ \A m \in 1..Len(queue) : queue[m] = queue[n] => m = n

(* A thread has a step of its own to take, whatever the others do.         *)
Runnable(c) ==
  \/ pc[c] \in {"compiling", "sending", "handling"}
  \/ pc[c] = "waiting" /\ operation = Nobody

(* The main queue has a block to take up, or one of the application's own  *)
(* to finish.                                                              *)
MainQueueRuns ==
  \/ onMain = Nobody /\ queue # <<>>
  \/ onMain = Main /\ pc[Main] = "idle"

(* Somebody is in a call and nothing that has begun can go on: only a new  *)
(* call, or new work for the main queue, could still happen.               *)
Stuck ==
  /\ \E c \in Callers : pc[c] # "idle"
  /\ \A c \in Callers : ~Runnable(c)
  /\ ~MainQueueRuns

(* Calls only get stuck in the documented way: the main queue waits for    *)
(* the operation lock, and the operation waits for the main queue          *)
(* (Docs/CompilerBridge.md 31-34).                                         *)
OnlyMainGetsStuck ==
  Stuck =>
    /\ onMain = Main /\ pc[Main] = "waiting"
    /\ operation \in Workers /\ pc[operation] = "posted"

MainWaits == onMain = Main /\ pc[Main] = "waiting"

(* Every operation that got the lock returns, however many macros it       *)
(* expands and however they nest, unless the application blocks the main   *)
(* queue in a call of its own meanwhile.                                   *)
OperationsEnd ==
  \A c \in Callers : pc[c] = "compiling" ~> (pc[c] = "idle" \/ MainWaits)
=============================================================================
