--------------------------- MODULE MacroEntry_proofs ---------------------------
(***************************************************************************)
(* Proofs about MacroEntry for every set of calling threads, every number  *)
(* of messages and every depth of nested handlers.                         *)
(***************************************************************************)
EXTENDS MacroEntry, SequenceTheorems, TLAPS

(* The main queue runs the code of every caller that is in a handler, also *)
(* while that handler sends a message itself.                              *)
FramesOnMain == \A c \in Callers : frames[c] # <<>> => onMain = c

(* Only the outermost handler can have come through the queue: a nested    *)
(* one is entered on the main queue already.                               *)
QueueEntersFirst ==
  \A c \in Callers : \A i \in 1..Len(frames[c]) : frames[c][i] = "queue" => i = 1

(* A caller in a handler has entered one; a caller about to enter one has  *)
(* room for it, has installed the marker, and, when it is blocked in       *)
(* dispatch_sync, is in no other handler.                                  *)
StepsFit ==
  \A c \in Callers :
    /\ pc[c] = "handling" => frames[c] # <<>>
    /\ pc[c] \in {"sending", "posted"} => marker /\ Len(frames[c]) < MaxDepth
    /\ pc[c] = "posted" => frames[c] = <<>>

MacroInv ==
  /\ TypeOK
  /\ FramesOnMain
  /\ QueueEntersFirst
  /\ StepsFit
  /\ BorrowedFieldsLive

(* The operation lock is held from the first step inside of an operation   *)
(* to the last, so one operation runs at a time.                           *)
OperationHeld ==
  \A c \in Callers : operation = c <=> pc[c] \in {"compiling", "sending", "posted", "handling"}

(* A caller blocked in dispatch_sync is in the queue: it will be served.   *)
PostedIsQueued ==
  \A c \in Callers : pc[c] = "posted" => \E n \in 1..Len(queue) : queue[n] = c

(* The application calls from the main queue, stays there and never has to *)
(* be dispatched to it; a worker is there for its handlers only.           *)
MainQueueOwned ==
  /\ pc[Main] # "idle" => onMain = Main
  /\ pc[Main] # "posted"
  /\ \A c \in Workers : onMain = c => frames[c] # <<>>

(* A worker's outermost handler came through the queue, which gives the    *)
(* main queue back when it ends; the main queue's own caller enters every  *)
(* handler directly.                                                       *)
HandlersEntered ==
  /\ \A c \in Workers : frames[c] # <<>> => frames[c][1] = "queue"
  /\ \A i \in 1..Len(frames[Main]) : frames[Main][i] = "direct"

ProgressInv ==
  /\ MacroInv
  /\ OperationHeld
  /\ PostedIsQueued
  /\ MainQueueOwned
  /\ HandlersEntered

Lists == Seq({"direct", "queue"})

-----------------------------------------------------------------------------
(* The process starts outside of every handler, with an empty queue.       *)
LEMMA InitInv == Init => MacroInv
<1> SUFFICES ASSUME Init PROVE MacroInv
  OBVIOUS
<1> USE MacroAssumption DEF Init, Callers
<1>1. TypeOK
  <2>1. <<>> \in Seq({"direct", "queue"}) /\ Len(<<>>) = 0 /\ <<>> \in Seq(Callers)
    BY EmptySeq
  <2>2. /\ pc \in [Callers -> {"idle", "waiting", "compiling", "sending", "posted", "handling"}]
        /\ frames \in [Callers -> Seq({"direct", "queue"})]
        /\ messages \in [Callers -> 0..MaxMessages]
    BY <2>1
  <2>3. \A c \in Callers : Len(frames[c]) <= MaxDepth /\ frames[c] = <<>>
    BY <2>1
  <2> QED BY <2>1, <2>2, <2>3 DEF TypeOK
<1>2. FramesOnMain /\ QueueEntersFirst
  BY DEF FramesOnMain, QueueEntersFirst
<1>3. StepsFit /\ BorrowedFieldsLive
  BY DEF StepsFit, BorrowedFieldsLive
<1> QED BY <1>1, <1>2, <1>3 DEF MacroInv

(* Appending a way of entry to the stack of handlers, and removing the     *)
(* last one.                                                               *)
LEMMA PushFrame ==
  ASSUME NEW s \in Lists, NEW e \in {"direct", "queue"}
  PROVE  /\ Append(s, e) \in Lists
         /\ Append(s, e) # <<>>
         /\ Len(Append(s, e)) = Len(s) + 1
         /\ \A i \in 1..Len(s) : Append(s, e)[i] = s[i]
         /\ Append(s, e)[Len(s) + 1] = e
  BY DEF Lists

LEMMA PopFrame ==
  ASSUME NEW s \in Lists, s # <<>>
  PROVE  LET t == SubSeq(s, 1, Len(s) - 1)
         IN /\ t \in Lists
            /\ Len(t) = Len(s) - 1
            /\ \A i \in 1..Len(t) : t[i] = s[i]
            /\ t = <<>> <=> Len(s) = 1
<1> DEFINE t == SubSeq(s, 1, Len(s) - 1)
<1>1. Len(s) \in Nat \ {0} /\ \A i \in 1..Len(s) : s[i] \in {"direct", "queue"}
  BY EmptySeq, ElementOfSeq DEF Lists
<1>2. t \in Lists /\ Len(t) = Len(s) - 1 /\ \A i \in 1..Len(t) : t[i] = s[i]
  <2>1. \A i \in 1..(Len(s) - 1) : s[i] \in {"direct", "queue"}
    BY <1>1
  <2>2. /\ t \in Lists
        /\ Len(t) = IF 1 <= Len(s) - 1 THEN (Len(s) - 1) - 1 + 1 ELSE 0
        /\ \A i \in 1..((Len(s) - 1) - 1 + 1) : t[i] = s[1 + i - 1]
    BY <2>1, <1>1, SubSeqProperties DEF Lists
  <2>3. \A n \in Nat \ {0} :
          /\ (IF 1 <= n - 1 THEN (n - 1) - 1 + 1 ELSE 0) = n - 1
          /\ (n - 1) - 1 + 1 = n - 1
          /\ \A i \in 1..(n - 1) : 1 + i - 1 = i
    OBVIOUS
  <2> QED BY <2>2, <2>3, <1>1
<1>3. t = <<>> <=> Len(t) = 0
  BY <1>2, EmptySeq DEF Lists
<1> HIDE DEF t
<1>4. t = <<>> <=> Len(s) = 1
  BY <1>1, <1>2, <1>3
<1> QED BY <1>2, <1>4 DEF t

(* A queue loses its first element.                                        *)
LEMMA TailElements ==
  ASSUME NEW S, NEW s \in Seq(S), s # <<>>
  PROVE  /\ Tail(s) \in Seq(S)
         /\ Len(Tail(s)) = Len(s) - 1
         /\ \A n \in 1..Len(Tail(s)) : Tail(s)[n] = s[n + 1]
         /\ Head(s) = s[1] /\ 1 \in 1..Len(s)
  OBVIOUS

(* A step that keeps the queue, and every blocked caller blocked, keeps    *)
(* the requests that the queue refers to.                                  *)
LEMMA QueueKept ==
  ASSUME TypeOK, BorrowedFieldsLive, queue' = queue,
         \A d \in Callers : pc[d] = "posted" => pc'[d] = "posted"
  PROVE  BorrowedFieldsLive'
<1>1. \A n \in 1..Len(queue) : queue[n] \in Callers
  BY ElementOfSeq DEF TypeOK
<1> QED BY <1>1 DEF BorrowedFieldsLive

-----------------------------------------------------------------------------
(* Steps that leave the handlers' stacks, the queue and the marker alone   *)
(* and do not lead a caller into or out of the adapter.                    *)
LEMMA SubmitInv ==
  ASSUME MacroInv, NEW c \in Callers, Submit(c)
  PROVE  MacroInv'
<1> USE DEF MacroInv, Submit
<1>1. TypeOK'
  BY DEF TypeOK
<1>2. FramesOnMain' /\ QueueEntersFirst'
  BY DEF FramesOnMain, QueueEntersFirst
<1>3. StepsFit'
  BY DEF StepsFit, TypeOK
<1>4. BorrowedFieldsLive'
  <2>1. queue' = queue /\ \A d \in Callers : pc[d] = "posted" => pc'[d] = "posted"
    BY DEF TypeOK
  <2> QED BY <2>1, QueueKept
<1> QED BY <1>1, <1>2, <1>3, <1>4

LEMMA AcquireInv ==
  ASSUME MacroInv, NEW c \in Callers, Acquire(c)
  PROVE  MacroInv'
<1> USE MacroAssumption DEF MacroInv, Acquire
<1>1. TypeOK'
  BY DEF TypeOK
<1>2. FramesOnMain' /\ QueueEntersFirst'
  BY DEF FramesOnMain, QueueEntersFirst
<1>3. StepsFit'
  BY DEF StepsFit, TypeOK
<1>4. BorrowedFieldsLive'
  <2>1. queue' = queue /\ \A d \in Callers : pc[d] = "posted" => pc'[d] = "posted"
    BY DEF TypeOK
  <2> QED BY <2>1, QueueKept
<1> QED BY <1>1, <1>2, <1>3, <1>4

LEMMA ReturnInv ==
  ASSUME MacroInv, NEW c \in Callers, Return(c)
  PROVE  MacroInv'
<1> USE MacroAssumption DEF MacroInv, Return
<1>1. TypeOK'
  BY DEF TypeOK
<1>2. FramesOnMain' /\ QueueEntersFirst'
  BY DEF FramesOnMain, QueueEntersFirst
<1>3. StepsFit'
  BY DEF StepsFit, TypeOK
<1>4. BorrowedFieldsLive'
  <2>1. queue' = queue /\ \A d \in Callers : pc[d] = "posted" => pc'[d] = "posted"
    BY DEF TypeOK
  <2> QED BY <2>1, QueueKept
<1> QED BY <1>1, <1>2, <1>3, <1>4

(* A message is sent with room for one more handler.                       *)
LEMMA SendInv ==
  ASSUME MacroInv, NEW c \in Callers, Send(c)
  PROVE  MacroInv'
<1> USE MacroAssumption DEF MacroInv, Send
<1>1. TypeOK'
  <2>1. messages' \in [Callers -> 0..MaxMessages]
    BY DEF TypeOK
  <2> QED BY <2>1 DEF TypeOK
<1>2. FramesOnMain' /\ QueueEntersFirst'
  BY DEF FramesOnMain, QueueEntersFirst
<1>3. StepsFit'
  BY DEF StepsFit, TypeOK
<1>4. BorrowedFieldsLive'
  <2>1. queue' = queue /\ \A d \in Callers : pc[d] = "posted" => pc'[d] = "posted"
    BY DEF TypeOK
  <2> QED BY <2>1, QueueKept
<1> QED BY <1>1, <1>2, <1>3, <1>4

(* A caller on the main queue enters the handler itself.                   *)
LEMMA HandleDirectlyInv ==
  ASSUME MacroInv, NEW c \in Callers, HandleDirectly(c)
  PROVE  MacroInv'
<1> USE DEF MacroInv, HandleDirectly
<1>1. onMain = c
  BY DEF RunsOnMainQueue, IsMainThread
<1>2. frames[c] \in Lists /\ frames' = [frames EXCEPT ![c] = Append(@, "direct")]
  BY DEF TypeOK, Lists
<1> DEFINE t == Append(frames[c], "direct")
<1>3. /\ t \in Lists /\ t # <<>> /\ Len(t) = Len(frames[c]) + 1
      /\ \A i \in 1..Len(frames[c]) : t[i] = frames[c][i]
      /\ t[Len(frames[c]) + 1] = "direct"
  BY <1>2, PushFrame
<1>4. frames' = [frames EXCEPT ![c] = t] /\ Len(frames[c]) \in Nat
  BY <1>2, LenProperties DEF Lists
<1> HIDE DEF t
<1>5. TypeOK'
  <2>1. frames' \in [Callers -> Seq({"direct", "queue"})]
    BY <1>3, <1>4 DEF TypeOK, Lists
  <2>2. \A d \in Callers : Len(frames'[d]) <= MaxDepth
    BY <1>3, <1>4, MacroAssumption DEF TypeOK, StepsFit
  <2>3. pc' \in [Callers -> {"idle", "waiting", "compiling", "sending", "posted", "handling"}]
    BY DEF TypeOK
  <2>4. \A d \in Callers : pc'[d] \in {"idle", "waiting", "compiling"} => frames'[d] = <<>>
    BY <1>4 DEF TypeOK
  <2> QED BY <2>1, <2>2, <2>3, <2>4 DEF TypeOK
<1>6. FramesOnMain'
  BY <1>1, <1>4 DEF FramesOnMain, TypeOK
<1>7. QueueEntersFirst'
  <2> SUFFICES ASSUME NEW d \in Callers, NEW i \in 1..Len(frames'[d]), frames'[d][i] = "queue"
               PROVE  i = 1
    BY DEF QueueEntersFirst
  <2>1. CASE d = c
    <3>1. frames'[d] = t
      BY <2>1, <1>4 DEF TypeOK
    <3>2. i \in 1..Len(frames[c]) /\ frames[c][i] = "queue"
      BY <3>1, <1>3, <1>4
    <3> QED BY <3>2 DEF QueueEntersFirst
  <2>2. CASE d # c
    BY <2>2, <1>4 DEF QueueEntersFirst, TypeOK
  <2> QED BY <2>1, <2>2
<1>8. StepsFit'
  BY <1>3, <1>4 DEF StepsFit, TypeOK
<1>9. BorrowedFieldsLive'
  <2>1. queue' = queue /\ \A d \in Callers : pc[d] = "posted" => pc'[d] = "posted"
    BY DEF TypeOK
  <2> QED BY <2>1, QueueKept
<1> QED BY <1>5, <1>6, <1>7, <1>8, <1>9

(* Another caller waits for the main queue.  It is in no handler, because  *)
(* its marker would have shown that it is on the main queue.               *)
LEMMA PostInv ==
  ASSUME MacroInv, NEW c \in Callers, Post(c)
  PROVE  MacroInv'
<1> USE DEF MacroInv, Post
<1>1. onMain # c /\ frames[c] = <<>>
  BY DEF RunsOnMainQueue, StepsFit, FramesOnMain
<1>2. queue' = Append(queue, c) /\ queue \in Seq(Callers)
  BY DEF TypeOK
<1>3. TypeOK'
  <2>1. queue' \in Seq(Callers)
    BY <1>2
  <2> QED BY <2>1 DEF TypeOK
<1>4. FramesOnMain' /\ QueueEntersFirst'
  BY DEF FramesOnMain, QueueEntersFirst
<1>5. StepsFit'
  BY <1>1 DEF StepsFit, TypeOK
<1>6. BorrowedFieldsLive'
  <2>1. /\ Len(queue) \in Nat
        /\ \A n \in 1..Len(queue) : queue[n] \in Callers
    BY <1>2, LenProperties, ElementOfSeq
  <2>2. /\ Len(queue') = Len(queue) + 1
        /\ \A n \in 1..Len(queue) : queue'[n] = queue[n]
        /\ queue'[Len(queue) + 1] = c
    BY <1>2
  <2>3. \A n \in 1..Len(queue) : queue[n] # Main => queue[n] # c
    BY DEF BorrowedFieldsLive
  <2>4. \A n \in 1..Len(queue) : queue'[n] # Main => pc'[queue'[n]] = "posted"
    BY <2>1, <2>2, <2>3 DEF BorrowedFieldsLive, TypeOK
  <2>5. pc'[c] = "posted"
    BY DEF TypeOK
  <2>6. \A n \in 1..Len(queue') : n \in 1..Len(queue) \/ n = Len(queue) + 1
    BY <2>1, <2>2
  <2>7. SUFFICES ASSUME NEW n \in 1..Len(queue'), queue'[n] # Main
                 PROVE  /\ pc'[queue'[n]] = "posted"
                        /\ \A m \in 1..Len(queue') : queue'[m] = queue'[n] => m = n
    BY DEF BorrowedFieldsLive
  <2>8. pc'[queue'[n]] = "posted"
    BY <2>2, <2>4, <2>5, <2>6, <2>7
  <2>9. ASSUME NEW m \in 1..Len(queue'), queue'[m] = queue'[n]
        PROVE  m = n
    BY <2>2, <2>3, <2>6, <2>7, <2>9 DEF BorrowedFieldsLive
  <2> QED BY <2>8, <2>9
<1> QED BY <1>3, <1>4, <1>5, <1>6

(* A handler ends.  When it came through the queue it was the outermost.   *)
LEMMA EndHandlerInv ==
  ASSUME MacroInv, NEW c \in Callers, EndHandler(c)
  PROVE  MacroInv'
<1> USE DEF MacroInv
<1> DEFINE depth == Len(frames[c])
           t == SubSeq(frames[c], 1, depth - 1)
<1>1. /\ pc[c] = "handling" /\ frames[c] # <<>> /\ onMain = c
      /\ frames[c] \in Lists
  BY DEF EndHandler, StepsFit, FramesOnMain, TypeOK, Lists
<1>2. /\ t \in Lists /\ Len(t) = depth - 1 /\ depth \in Nat \ {0}
      /\ \A i \in 1..Len(t) : t[i] = frames[c][i]
      /\ t = <<>> <=> depth = 1
  BY <1>1, PopFrame, EmptySeq DEF Lists
<1>3. /\ pc' = [pc EXCEPT ![c] = IF depth = 1 THEN "compiling" ELSE "handling"]
      /\ frames' = [frames EXCEPT ![c] = t]
      /\ onMain' = IF frames[c][depth] = "queue" THEN Nobody ELSE onMain
      /\ UNCHANGED <<messages, operation, queue, mainThread, marker>>
  BY DEF EndHandler
<1> HIDE DEF t, depth
<1>4. depth = Len(frames[c])
  BY DEF depth
<1>5. TypeOK'
  <2>1. frames' \in [Callers -> Seq({"direct", "queue"})]
    BY <1>2, <1>3 DEF TypeOK, Lists
  <2>2. \A d \in Callers : Len(frames'[d]) <= MaxDepth
    BY <1>2, <1>3, <1>4, MacroAssumption DEF TypeOK
  <2>3. pc' \in [Callers -> {"idle", "waiting", "compiling", "sending", "posted", "handling"}]
    BY <1>3 DEF TypeOK
  <2>4. \A d \in Callers : pc'[d] \in {"idle", "waiting", "compiling"} => frames'[d] = <<>>
    BY <1>2, <1>3 DEF TypeOK
  <2> QED BY <1>3, <2>1, <2>2, <2>3, <2>4 DEF TypeOK
<1>6. FramesOnMain'
  <2> SUFFICES ASSUME NEW d \in Callers, frames'[d] # <<>>
               PROVE  onMain' = d
    BY DEF FramesOnMain
  <2>1. d = c
    <3>1. CASE d # c
      BY <3>1, <1>1, <1>3 DEF FramesOnMain, TypeOK
    <3> QED BY <3>1
  <2>2. depth # 1
    BY <2>1, <1>2, <1>3 DEF TypeOK
  <2>3. frames[c][depth] # "queue"
    BY <2>2, <1>2, <1>4 DEF QueueEntersFirst
  <2> QED BY <2>1, <2>3, <1>1, <1>3
<1>7. QueueEntersFirst'
  <2> SUFFICES ASSUME NEW d \in Callers, NEW i \in 1..Len(frames'[d]), frames'[d][i] = "queue"
               PROVE  i = 1
    BY DEF QueueEntersFirst
  <2>1. CASE d = c
    <3>1. frames'[d] = t
      BY <2>1, <1>3 DEF TypeOK
    <3>2. i \in 1..Len(frames[c]) /\ frames[c][i] = "queue"
      BY <3>1, <1>2, <1>4
    <3> QED BY <3>2 DEF QueueEntersFirst
  <2>2. CASE d # c
    BY <2>2, <1>3 DEF QueueEntersFirst, TypeOK
  <2> QED BY <2>1, <2>2
<1>8. StepsFit'
  BY <1>1, <1>2, <1>3 DEF StepsFit, TypeOK
<1>9. BorrowedFieldsLive'
  <2>1. queue' = queue /\ \A d \in Callers : pc[d] = "posted" => pc'[d] = "posted"
    BY <1>1, <1>3 DEF TypeOK
  <2> QED BY <2>1, QueueKept
<1> QED BY <1>5, <1>6, <1>7, <1>8, <1>9

-----------------------------------------------------------------------------
(* Steps of the main queue.                                                *)

(* What the queue no longer refers to, or refers to one place earlier, is  *)
(* still right, as long as the remaining callers stay blocked.             *)
LEMMA QueueServed ==
  ASSUME TypeOK, BorrowedFieldsLive, queue # <<>>, queue' = Tail(queue),
         \A d \in Callers : pc[d] = "posted" /\ d # Head(queue) => pc'[d] = "posted"
  PROVE  /\ queue' \in Seq(Callers)
         /\ BorrowedFieldsLive'
<1>1. /\ queue' \in Seq(Callers)
      /\ Len(queue') = Len(queue) - 1
      /\ Len(queue) \in Nat \ {0}
      /\ \A n \in 1..Len(queue') : queue'[n] = queue[n + 1]
      /\ Head(queue) = queue[1]
  BY HeadTailProperties, EmptySeq DEF TypeOK
<1>2. \A n \in 1..Len(queue') : n + 1 \in 1..Len(queue) /\ n + 1 # 1
  BY <1>1
<1>3. 1 \in 1..Len(queue) /\ \A n \in 1..Len(queue) : queue[n] \in Callers
  BY <1>1, ElementOfSeq DEF TypeOK
<1>4. SUFFICES ASSUME NEW n \in 1..Len(queue'), queue'[n] # Main
               PROVE  /\ pc'[queue'[n]] = "posted"
                      /\ \A m \in 1..Len(queue') : queue'[m] = queue'[n] => m = n
  BY <1>1 DEF BorrowedFieldsLive
<1>5. /\ pc[queue[n + 1]] = "posted"
      /\ \A m \in 1..Len(queue) : queue[m] = queue[n + 1] => m = n + 1
  BY <1>1, <1>2, <1>4 DEF BorrowedFieldsLive
<1>6. pc'[queue'[n]] = "posted"
  BY <1>1, <1>2, <1>3, <1>4, <1>5
<1>7. ASSUME NEW m \in 1..Len(queue'), queue'[m] = queue'[n]
      PROVE  m = n
  <2>1. queue[m + 1] = queue[n + 1] /\ m + 1 \in 1..Len(queue)
    BY <1>1, <1>2, <1>7
  <2>2. m + 1 = n + 1
    BY <2>1, <1>5
  <2> QED BY <2>2, <1>1
<1> QED BY <1>6, <1>7

(* Nobody is in a handler while the main queue is free.                    *)
LEMMA NoFrames ==
  ASSUME MacroInv, onMain = Nobody
  PROVE  \A d \in Callers : frames[d] = <<>>
  BY MacroAssumption DEF MacroInv, FramesOnMain, Callers

LEMMA LeaveMainInv ==
  ASSUME MacroInv, LeaveMain
  PROVE  MacroInv'
<1> USE DEF MacroInv, LeaveMain
<1>1. \A d \in Callers : frames[d] = <<>>
  BY DEF TypeOK, FramesOnMain, Callers
<1>2. TypeOK'
  <2>1. mainThread' \in {"main", "runLoop", "released"}
    BY DEF TypeOK
  <2> QED BY <2>1 DEF TypeOK
<1>3. FramesOnMain' /\ QueueEntersFirst'
  BY <1>1 DEF FramesOnMain, QueueEntersFirst
<1>4. StepsFit'
  BY DEF StepsFit
<1>5. BorrowedFieldsLive'
  BY DEF BorrowedFieldsLive
<1> QED BY <1>2, <1>3, <1>4, <1>5

LEMMA PostOwnWorkInv ==
  ASSUME MacroInv, PostOwnWork
  PROVE  MacroInv'
<1> USE DEF MacroInv, PostOwnWork
<1>1. queue' = Append(queue, Main) /\ queue \in Seq(Callers) /\ Main \in Callers
  BY DEF TypeOK, Callers
<1>2. TypeOK'
  <2>1. queue' \in Seq(Callers)
    BY <1>1
  <2> QED BY <2>1 DEF TypeOK
<1>3. FramesOnMain' /\ QueueEntersFirst' /\ StepsFit'
  BY DEF FramesOnMain, QueueEntersFirst, StepsFit
<1>4. BorrowedFieldsLive'
  <2>1. /\ Len(queue) \in Nat
        /\ Len(queue') = Len(queue) + 1
        /\ \A n \in 1..Len(queue) : queue'[n] = queue[n]
        /\ queue'[Len(queue) + 1] = Main
    BY <1>1, LenProperties
  <2>2. \A n \in 1..Len(queue') : queue'[n] # Main => n \in 1..Len(queue)
    BY <2>1
  <2> QED BY <2>1, <2>2 DEF BorrowedFieldsLive
<1> QED BY <1>2, <1>3, <1>4

LEMMA ServeOwnWorkInv ==
  ASSUME MacroInv, ServeOwnWork
  PROVE  MacroInv'
<1> USE DEF MacroInv, ServeOwnWork
<1>1. queue' \in Seq(Callers) /\ BorrowedFieldsLive'
  BY QueueServed
<1>2. TypeOK'
  BY <1>1 DEF TypeOK, Callers
<1>3. FramesOnMain' /\ QueueEntersFirst' /\ StepsFit'
  BY NoFrames DEF FramesOnMain, QueueEntersFirst, StepsFit
<1> QED BY <1>1, <1>2, <1>3

(* The first caller in the queue, which is blocked in dispatch_sync, is    *)
(* handled.                                                                *)
LEMMA ServeInv ==
  ASSUME MacroInv, NEW c \in Workers, Serve(c)
  PROVE  MacroInv'
<1> USE DEF MacroInv, Serve
<1>1. c \in Callers /\ \A d \in Callers : frames[d] = <<>>
  BY NoFrames DEF Callers
<1> DEFINE t == Append(<<>>, "queue")
<1>2. /\ t \in Seq({"direct", "queue"}) /\ t # <<>> /\ Len(t) = 1
      /\ 1..Len(t) = {1}
  BY EmptySeq, PushFrame DEF Lists
<1>3. frames' = [frames EXCEPT ![c] = t]
  BY <1>1 DEF TypeOK
<1> HIDE DEF t
<1>4. queue' \in Seq(Callers) /\ BorrowedFieldsLive'
  <2>1. \A d \in Callers : pc[d] = "posted" /\ d # Head(queue) => pc'[d] = "posted"
    BY DEF TypeOK
  <2> QED BY <2>1, QueueServed
<1>5. TypeOK'
  <2>1. frames' \in [Callers -> Seq({"direct", "queue"})]
    BY <1>2, <1>3 DEF TypeOK
  <2>2. \A d \in Callers : Len(frames'[d]) <= MaxDepth
    BY <1>2, <1>3, MacroAssumption DEF TypeOK
  <2>3. pc' \in [Callers -> {"idle", "waiting", "compiling", "sending", "posted", "handling"}]
    BY DEF TypeOK
  <2>4. \A d \in Callers : pc'[d] \in {"idle", "waiting", "compiling"} => frames'[d] = <<>>
    BY <1>1, <1>3 DEF TypeOK
  <2> QED BY <1>1, <1>4, <2>1, <2>2, <2>3, <2>4 DEF TypeOK
<1>6. FramesOnMain'
  BY <1>1, <1>3 DEF FramesOnMain, TypeOK
<1>7. QueueEntersFirst'
  <2>1. \A d \in Callers : frames'[d] = t \/ frames'[d] = <<>>
    BY <1>1, <1>3 DEF TypeOK
  <2>2. 1..Len(<<>>) = {}
    BY EmptySeq
  <2> QED BY <2>1, <2>2, <1>2 DEF QueueEntersFirst
<1>8. StepsFit'
  BY <1>1, <1>2, <1>3 DEF StepsFit, TypeOK
<1> QED BY <1>4, <1>5, <1>6, <1>7, <1>8

-----------------------------------------------------------------------------
LEMMA NextInv == MacroInv /\ [Next]_vars => MacroInv'
<1> SUFFICES ASSUME MacroInv, [Next]_vars PROVE MacroInv'
  OBVIOUS
<1>1. CASE UNCHANGED vars
  BY <1>1 DEF vars, MacroInv, TypeOK, FramesOnMain, QueueEntersFirst, StepsFit,
              BorrowedFieldsLive
<1>2. ASSUME NEW c \in Callers,
             Submit(c) \/ Acquire(c) \/ Return(c) \/ Send(c) \/ Adapter(c)
      PROVE  MacroInv'
  BY <1>2, SubmitInv, AcquireInv, ReturnInv, SendInv, HandleDirectlyInv, PostInv,
     EndHandlerInv DEF Adapter
<1>3. ASSUME NEW c \in Workers, Serve(c) PROVE MacroInv'
  BY <1>3, ServeInv
<1>4. CASE LeaveMain
  BY <1>4, LeaveMainInv
<1>5. CASE PostOwnWork
  BY <1>5, PostOwnWorkInv
<1>6. CASE ServeOwnWork
  BY <1>6, ServeOwnWorkInv
<1> QED BY <1>1, <1>2, <1>3, <1>4, <1>5, <1>6 DEF Next

(* Every reachable state has its type, and handlers are entered and left   *)
(* in order (swift_inproc_plugins_handle_message).                         *)
THEOREM MacroTypes == Spec => []TypeOK
<1>1. MacroInv => TypeOK
  BY DEF MacroInv
<1> QED BY <1>1, InitInv, NextInv, PTL DEF Spec

(* The macro server only ever runs on the main queue, for every number of  *)
(* threads and however deep the handlers nest (MacroEntry.cpp 47-57).      *)
THEOREM HandlersRunOnMain == Spec => []ActorIsolated
<1>1. MacroInv => ActorIsolated
  BY DEF MacroInv, FramesOnMain, ActorIsolated
<1> QED BY <1>1, InitInv, NextInv, PTL DEF Spec

(* Two callers are never inside of the macro server together.              *)
THEOREM OneHandler ==
  Spec => [](\A c, d \in Callers : pc[c] = "handling" /\ pc[d] = "handling" => c = d)
<1>1. MacroInv => \A c, d \in Callers : pc[c] = "handling" /\ pc[d] = "handling" => c = d
  BY DEF MacroInv, FramesOnMain, StepsFit
<1> QED BY <1>1, InitInv, NextInv, PTL DEF Spec

(* The main queue never refers to a request whose caller has gone on, so   *)
(* the fields on that caller's stack are alive (MacroEntry.cpp 24-36).     *)
THEOREM RequestsStayAlive == Spec => []BorrowedFieldsLive
<1>1. MacroInv => BorrowedFieldsLive
  BY DEF MacroInv
<1> QED BY <1>1, InitInv, NextInv, PTL DEF Spec

-----------------------------------------------------------------------------
(* Why calls only get stuck in the documented way.  The first lemmas keep  *)
(* each further part of the invariant.                                     *)
LEMMA InitProgress == Init => ProgressInv
<1> SUFFICES ASSUME Init PROVE ProgressInv
  OBVIOUS
<1>1. MacroInv
  BY InitInv
<1>2. OperationHeld /\ PostedIsQueued /\ MainQueueOwned
  BY MacroAssumption DEF Init, Callers, OperationHeld, PostedIsQueued, MainQueueOwned
<1>3. HandlersEntered
  BY EmptySeq DEF Init, Callers, HandlersEntered
<1> QED BY <1>1, <1>2, <1>3 DEF ProgressInv

(* A caller posts only from outside of the main queue, so the main queue's *)
(* own caller never does.                                                  *)
LEMMA MainNeverPosts ==
  ASSUME MacroInv, MainQueueOwned, NEW c \in Callers, Post(c)
  PROVE  c \in Workers
<1>1. onMain # c /\ pc[c] # "idle"
  BY DEF Post, RunsOnMainQueue, MacroInv, StepsFit
<1> QED BY <1>1 DEF MainQueueOwned, Callers

LEMMA NextOperationHeld ==
  ASSUME ProgressInv, [Next]_vars
  PROVE  OperationHeld'
<1> USE MacroAssumption DEF ProgressInv, MacroInv, TypeOK, OperationHeld
<1>1. CASE UNCHANGED vars
  BY <1>1 DEF vars
<1>2. ASSUME NEW c \in Callers, Submit(c) PROVE OperationHeld'
  BY <1>2 DEF Submit
<1>3. ASSUME NEW c \in Callers, Acquire(c) PROVE OperationHeld'
  BY <1>3 DEF Acquire, Callers
<1>4. ASSUME NEW c \in Callers, Return(c) PROVE OperationHeld'
  BY <1>4 DEF Return, Callers
<1>5. ASSUME NEW c \in Callers, Send(c) PROVE OperationHeld'
  BY <1>5 DEF Send
<1>6. ASSUME NEW c \in Callers, Adapter(c) PROVE OperationHeld'
  <2>1. /\ pc[c] \in {"sending", "handling"}
        /\ \E step \in {"compiling", "posted", "handling"} : pc' = [pc EXCEPT ![c] = step]
        /\ operation' = operation
    <3>1. CASE HandleDirectly(c)
      BY <3>1 DEF HandleDirectly
    <3>2. CASE Post(c)
      BY <3>2 DEF Post
    <3>3. CASE EndHandler(c)
      BY <3>3 DEF EndHandler
    <3> QED BY <1>6, <3>1, <3>2, <3>3 DEF Adapter
  <2> QED BY <2>1
<1>7. ASSUME NEW c \in Workers, Serve(c) PROVE OperationHeld'
  <2>1. c \in Callers /\ pc[c] = "posted"
    <3>1. queue[1] = c /\ 1 \in 1..Len(queue)
      BY <1>7, TailElements DEF Serve
    <3> QED BY <3>1 DEF BorrowedFieldsLive, Callers
  <2> QED BY <1>7, <2>1 DEF Serve
<1>8. CASE LeaveMain \/ PostOwnWork \/ ServeOwnWork
  BY <1>8 DEF LeaveMain, PostOwnWork, ServeOwnWork
<1> QED BY <1>1, <1>2, <1>3, <1>4, <1>5, <1>6, <1>7, <1>8 DEF Next

(* A step that leaves the queue alone and blocks nobody.                   *)
LEMMA StillQueued ==
  ASSUME PostedIsQueued, queue' = queue,
         \A d \in Callers : pc'[d] = "posted" => pc[d] = "posted"
  PROVE  PostedIsQueued'
  BY DEF PostedIsQueued

(* A step that appends to the queue and blocks at most the caller that it  *)
(* appends.                                                                *)
LEMMA StillQueuedBehind ==
  ASSUME PostedIsQueued, queue \in Seq(Callers), NEW c \in Callers,
         queue' = Append(queue, c),
         \A d \in Callers : pc'[d] = "posted" => pc[d] = "posted" \/ d = c
  PROVE  PostedIsQueued'
<1>1. /\ Len(queue) \in Nat /\ Len(queue') = Len(queue) + 1
      /\ \A n \in 1..Len(queue) : queue'[n] = queue[n]
      /\ queue'[Len(queue) + 1] = c
  BY LenProperties
<1>2. /\ Len(queue) + 1 \in 1..Len(queue')
      /\ \A n \in 1..Len(queue) : n \in 1..Len(queue')
  BY <1>1
<1>3. SUFFICES ASSUME NEW d \in Callers, pc'[d] = "posted"
               PROVE  \E n \in 1..Len(queue') : queue'[n] = d
  BY DEF PostedIsQueued
<1>4. CASE d = c
  BY <1>1, <1>2, <1>4
<1>5. CASE d # c
  <2>1. PICK n \in 1..Len(queue) : queue[n] = d
    BY <1>3, <1>5 DEF PostedIsQueued
  <2> QED BY <2>1, <1>1, <1>2
<1> QED BY <1>4, <1>5

(* A step that serves the first of the queue, who is blocked no longer.    *)
LEMMA StillQueuedAhead ==
  ASSUME PostedIsQueued, queue \in Seq(Callers), queue # <<>>, queue' = Tail(queue),
         \A d \in Callers : pc'[d] = "posted" => pc[d] = "posted" /\ d # Head(queue)
  PROVE  PostedIsQueued'
<1>1. /\ Len(queue') = Len(queue) - 1 /\ Len(queue) \in Nat
      /\ \A n \in 1..Len(queue') : queue'[n] = queue[n + 1]
      /\ Head(queue) = queue[1]
  BY TailElements, LenProperties
<1>2. SUFFICES ASSUME NEW d \in Callers, pc'[d] = "posted"
               PROVE  \E n \in 1..Len(queue') : queue'[n] = d
  BY DEF PostedIsQueued
<1>3. PICK n \in 1..Len(queue) : queue[n] = d
  BY <1>2 DEF PostedIsQueued
<1>4. n # 1
  BY <1>1, <1>2, <1>3
<1>5. n - 1 \in 1..Len(queue') /\ (n - 1) + 1 = n
  BY <1>1, <1>4
<1> QED BY <1>1, <1>3, <1>5

LEMMA NextPostedIsQueued ==
  ASSUME ProgressInv, [Next]_vars
  PROVE  PostedIsQueued'
<1> USE MacroAssumption DEF ProgressInv, MacroInv, TypeOK
<1>1. CASE UNCHANGED vars
  BY <1>1, StillQueued DEF vars
<1>2. ASSUME NEW c \in Callers, Submit(c) \/ Acquire(c) \/ Return(c) \/ Send(c)
      PROVE  PostedIsQueued'
  <2>1. queue' = queue /\ \A d \in Callers : pc'[d] = "posted" => pc[d] = "posted"
    BY <1>2 DEF Submit, Acquire, Return, Send
  <2> QED BY <2>1, StillQueued
<1>3. ASSUME NEW c \in Callers, HandleDirectly(c) \/ EndHandler(c) PROVE PostedIsQueued'
  <2>1. queue' = queue /\ \A d \in Callers : pc'[d] = "posted" => pc[d] = "posted"
    BY <1>3 DEF HandleDirectly, EndHandler
  <2> QED BY <2>1, StillQueued
<1>4. ASSUME NEW c \in Callers, Post(c) PROVE PostedIsQueued'
  <2>1. /\ queue' = Append(queue, c)
        /\ \A d \in Callers : pc'[d] = "posted" => pc[d] = "posted" \/ d = c
    BY <1>4 DEF Post
  <2> QED BY <2>1, StillQueuedBehind
<1>5. ASSUME NEW c \in Workers, Serve(c) PROVE PostedIsQueued'
  <2>1. /\ queue' = Tail(queue) /\ queue # <<>> /\ Head(queue) = c
        /\ \A d \in Callers : pc'[d] = "posted" => pc[d] = "posted" /\ d # c
    BY <1>5 DEF Serve, Callers
  <2> QED BY <2>1, StillQueuedAhead
<1>6. CASE LeaveMain
  BY <1>6, StillQueued DEF LeaveMain
<1>7. CASE PostOwnWork
  <2>1. queue' = Append(queue, Main) /\ Main \in Callers /\ pc' = pc
    BY <1>7 DEF PostOwnWork, Callers
  <2> QED BY <2>1, StillQueuedBehind
<1>8. CASE ServeOwnWork
  <2>1. queue' = Tail(queue) /\ queue # <<>> /\ Head(queue) = Main /\ pc' = pc
    BY <1>8 DEF ServeOwnWork
  <2>2. pc[Main] # "posted"
    BY <1>8 DEF ServeOwnWork, MainQueueOwned, Callers
  <2> QED BY <2>1, <2>2, StillQueuedAhead
<1> QED BY <1>1, <1>2, <1>3, <1>4, <1>5, <1>6, <1>7, <1>8 DEF Next, Adapter

LEMMA NextMainQueueOwned ==
  ASSUME ProgressInv, [Next]_vars
  PROVE  MainQueueOwned'
<1> USE MacroAssumption DEF ProgressInv, MacroInv, TypeOK, MainQueueOwned, Callers
<1>1. CASE UNCHANGED vars
  BY <1>1 DEF vars
<1>2. ASSUME NEW c \in Callers, Submit(c) \/ Acquire(c) \/ Return(c) \/ Send(c)
      PROVE  MainQueueOwned'
  <2>1. /\ onMain' = onMain /\ frames' = frames
        /\ pc'[Main] # "idle" => onMain = Main
        /\ pc'[Main] # "posted"
    BY <1>2 DEF Submit, Acquire, Return, Send
  <2> QED BY <2>1
<1>3. ASSUME NEW c \in Callers, HandleDirectly(c) PROVE MainQueueOwned'
  <2>1. Append(frames[c], "direct") # <<>>
    BY PushFrame DEF Lists
  <2>2. \A d \in Workers : frames[d] # <<>> => frames'[d] # <<>>
    BY <1>3, <2>1 DEF HandleDirectly
  <2>3. onMain' = onMain /\ (pc'[Main] # "idle" => pc[Main] # "idle") /\ pc'[Main] # "posted"
    BY <1>3 DEF HandleDirectly
  <2> QED BY <2>2, <2>3
<1>4. ASSUME NEW c \in Callers, Post(c) PROVE MainQueueOwned'
  BY <1>4, MainNeverPosts DEF Post
<1>5. ASSUME NEW c \in Callers, EndHandler(c) PROVE MainQueueOwned'
  <2> DEFINE depth == Len(frames[c])
             t == SubSeq(frames[c], 1, depth - 1)
  <2>1. /\ pc[c] = "handling" /\ frames[c] # <<>> /\ onMain = c /\ frames[c] \in Lists
    BY <1>5 DEF EndHandler, StepsFit, FramesOnMain, Lists
  <2>2. /\ depth \in Nat \ {0} /\ (t = <<>> <=> depth = 1)
        /\ frames[c][depth] \in {"direct", "queue"}
    BY <2>1, PopFrame, EmptySeq, ElementOfSeq DEF Lists
  <2>3. /\ frames' = [frames EXCEPT ![c] = t]
        /\ onMain' = IF frames[c][depth] = "queue" THEN Nobody ELSE onMain
        /\ pc'[Main] # "idle" => pc[Main] # "idle"
        /\ pc'[Main] # "posted"
    BY <1>5 DEF EndHandler
  <2> HIDE DEF depth, t
  <2>4. CASE c = Main
    <3>1. frames[c][depth] = "direct"
      BY <2>2, <2>4 DEF HandlersEntered, depth
    <3> QED BY <3>1, <2>1, <2>3, <2>4
  <2>5. CASE c \in Workers /\ frames[c][depth] = "queue"
    BY <2>1, <2>3, <2>5
  <2>6. CASE c \in Workers /\ frames[c][depth] = "direct"
    BY <2>1, <2>2, <2>3, <2>6 DEF HandlersEntered, depth
  <2> QED BY <2>2, <2>4, <2>5, <2>6
<1>6. ASSUME NEW c \in Workers, Serve(c) PROVE MainQueueOwned'
  BY <1>6, NoFrames, PushFrame, EmptySeq DEF Serve, Lists
<1>7. CASE LeaveMain \/ PostOwnWork \/ ServeOwnWork
  BY <1>7 DEF LeaveMain, PostOwnWork, ServeOwnWork
<1> QED BY <1>1, <1>2, <1>3, <1>4, <1>5, <1>6, <1>7 DEF Next, Adapter

LEMMA NextHandlersEntered ==
  ASSUME ProgressInv, [Next]_vars
  PROVE  HandlersEntered'
<1> USE MacroAssumption DEF ProgressInv, MacroInv, TypeOK, HandlersEntered, Callers
<1>1. CASE UNCHANGED vars
  BY <1>1 DEF vars
<1>2. ASSUME NEW c \in Callers, Submit(c) \/ Acquire(c) \/ Return(c) \/ Send(c)
      PROVE  HandlersEntered'
  BY <1>2 DEF Submit, Acquire, Return, Send
<1>3. ASSUME NEW c \in Callers, HandleDirectly(c) PROVE HandlersEntered'
  <2> DEFINE t == Append(frames[c], "direct")
  <2>1. /\ frames' = [frames EXCEPT ![c] = t] /\ onMain = c
        /\ frames[c] \in Lists /\ Len(frames[c]) \in Nat
    BY <1>3, LenProperties DEF HandleDirectly, RunsOnMainQueue, IsMainThread, Lists
  <2>2. /\ Len(t) = Len(frames[c]) + 1 /\ t[Len(frames[c]) + 1] = "direct"
        /\ \A i \in 1..Len(frames[c]) : t[i] = frames[c][i]
    BY <2>1, PushFrame
  <2> HIDE DEF t
  <2>3. CASE c = Main
    <3>1. \A i \in 1..Len(t) : t[i] = "direct"
      <4>1. \A i \in 1..Len(frames[c]) : t[i] = "direct"
        BY <2>2, <2>3
      <4>2. \A i \in 1..Len(t) : i \in 1..Len(frames[c]) \/ i = Len(frames[c]) + 1
        BY <2>1, <2>2
      <4> QED BY <4>1, <4>2, <2>2
    <3> QED BY <3>1, <2>1, <2>3
  <2>4. CASE c \in Workers
    <3>1. frames[c] # <<>> /\ frames[c][1] = "queue"
      BY <2>1, <2>4 DEF MainQueueOwned
    <3>2. 1 \in 1..Len(frames[c])
      BY <3>1, <2>1, EmptySeq DEF Lists
    <3>3. t[1] = "queue" /\ frames'[Main] = frames[Main]
      BY <3>1, <3>2, <2>1, <2>2, <2>4
    <3> QED BY <3>3, <2>1
  <2> QED BY <2>3, <2>4
<1>4. ASSUME NEW c \in Callers, Post(c) PROVE HandlersEntered'
  BY <1>4 DEF Post
<1>5. ASSUME NEW c \in Callers, EndHandler(c) PROVE HandlersEntered'
  <2> DEFINE t == SubSeq(frames[c], 1, Len(frames[c]) - 1)
  <2>1. /\ frames[c] # <<>> /\ frames[c] \in Lists
        /\ frames' = [frames EXCEPT ![c] = t]
    BY <1>5 DEF EndHandler, StepsFit, Lists
  <2>2. /\ t \in Lists /\ Len(t) = Len(frames[c]) - 1 /\ Len(frames[c]) \in Nat
        /\ \A i \in 1..Len(t) : t[i] = frames[c][i]
    BY <2>1, PopFrame, LenProperties DEF Lists
  <2> HIDE DEF t
  <2>3. t # <<>> => t[1] = frames[c][1]
    BY <2>2, EmptySeq DEF Lists
  <2>4. \A i \in 1..Len(t) : i \in 1..Len(frames[c])
    BY <2>2
  <2>5. \A d \in Workers : frames'[d] # <<>> => frames'[d][1] = "queue"
    BY <2>1, <2>3
  <2>6. CASE c = Main
    <3>1. \A i \in 1..Len(t) : t[i] = "direct"
      BY <2>2, <2>4, <2>6
    <3> QED BY <3>1, <2>1, <2>5, <2>6
  <2>7. CASE c # Main
    BY <2>1, <2>5, <2>7
  <2> QED BY <2>6, <2>7
<1>6. ASSUME NEW c \in Workers, Serve(c) PROVE HandlersEntered'
  <2>1. /\ frames[c] = <<>> /\ frames' = [frames EXCEPT ![c] = Append(@, "queue")]
    BY <1>6, NoFrames DEF Serve
  <2>2. Append(<<>>, "queue")[1] = "queue"
    BY PushFrame, EmptySeq DEF Lists
  <2> QED BY <2>1, <2>2
<1>7. CASE LeaveMain \/ PostOwnWork \/ ServeOwnWork
  BY <1>7 DEF LeaveMain, PostOwnWork, ServeOwnWork
<1> QED BY <1>1, <1>2, <1>3, <1>4, <1>5, <1>6, <1>7 DEF Next, Adapter

LEMMA NextProgress == ProgressInv /\ [Next]_vars => ProgressInv'
<1> SUFFICES ASSUME ProgressInv, [Next]_vars PROVE ProgressInv'
  OBVIOUS
<1>1. MacroInv'
  BY NextInv DEF ProgressInv
<1> QED BY <1>1, NextOperationHeld, NextPostedIsQueued, NextMainQueueOwned,
           NextHandlersEntered DEF ProgressInv

(* One compiler operation runs at a time, with all of its handlers.        *)
THEOREM OneOperation ==
  Spec => [](\A c, d \in Callers :
               {pc[c], pc[d]} \subseteq {"compiling", "sending", "posted", "handling"} => c = d)
<1>1. ProgressInv => \A c, d \in Callers :
        {pc[c], pc[d]} \subseteq {"compiling", "sending", "posted", "handling"} => c = d
  BY DEF ProgressInv, OperationHeld
<1> QED BY <1>1, InitProgress, NextProgress, PTL DEF Spec

(* Who waits for whom: a waiting caller for the lock, whose holder is      *)
(* blocked in dispatch_sync, hence queued, hence kept waiting by whoever   *)
(* runs on the main queue.  That is no worker, which would be in a handler *)
(* of this one operation, so it is the application's own caller, itself    *)
(* waiting for the lock (Docs/CompilerBridge.md 31-34).                    *)
THEOREM OnlyDocumentedDeadlock == Spec => []OnlyMainGetsStuck
<1>1. ASSUME ProgressInv, Stuck
      PROVE  /\ onMain = Main /\ pc[Main] = "waiting"
             /\ operation \in Workers /\ pc[operation] = "posted"
  <2> USE MacroAssumption DEF ProgressInv, MacroInv
  <2>1. \A c \in Callers :
          /\ pc[c] \in {"idle", "waiting", "posted"}
          /\ pc[c] = "waiting" => operation # Nobody
    BY <1>1 DEF Stuck, Runnable, TypeOK
  <2>2. operation \in Callers /\ pc[operation] = "posted"
    <3>1. PICK c \in Callers : pc[c] # "idle"
      BY <1>1 DEF Stuck
    <3>2. operation # Nobody
      BY <3>1, <2>1, <1>1 DEF OperationHeld, Callers
    <3> QED BY <3>2, <2>1, <1>1 DEF TypeOK, OperationHeld
  <2>3. frames[operation] = <<>> /\ queue # <<>>
    BY <2>2, <1>1, EmptySeq DEF StepsFit, PostedIsQueued
  <2>4. onMain # Nobody
    BY <2>3, <1>1 DEF Stuck, MainQueueRuns
  <2>5. onMain = Main
    <3> SUFFICES ASSUME onMain \in Workers PROVE FALSE
      BY <2>4, <1>1 DEF TypeOK, Callers
    <3>1. frames[onMain] # <<>>
      BY <1>1 DEF MainQueueOwned
    <3>2. pc[onMain] = "posted"
      BY <3>1, <2>1, <1>1 DEF TypeOK, Callers
    <3> QED BY <3>1, <3>2, <1>1 DEF StepsFit, Callers
  <2>6. pc[Main] \in {"waiting", "posted"}
    BY <2>1, <2>5, <1>1 DEF Stuck, MainQueueRuns, Callers
  <2>7. pc[Main] # "posted"
    BY <1>1 DEF MainQueueOwned
  <2> QED BY <2>2, <2>5, <2>6, <2>7 DEF Callers
<1>2. ProgressInv => OnlyMainGetsStuck
  BY <1>1 DEF OnlyMainGetsStuck
<1> QED BY <1>2, InitProgress, NextProgress, PTL DEF Spec
-----------------------------------------------------------------------------
(* Why an operation cannot go on for ever.  What is left of it shrinks     *)
(* with every step of its own, and while it is blocked in dispatch_sync,   *)
(* its turn comes nearer with every step of the main queue.                *)

(* How many steps a message has left: to be handled or posted, to be       *)
(* served, and to end.                                                     *)
Left(step) == CASE step = "sending" -> 4 [] step = "posted" -> 3 [] OTHER -> 1

(* The messages to come, the handlers that have to end and the message     *)
(* that is on its way.                                                     *)
Work(c) == 4 * (MaxMessages - messages[c]) + Len(frames[c]) + Left(pc[c])

Place(c, line) == CHOOSE n \in 1..Len(line) : line[n] = c

(* The steps of the main queue until it has taken up the caller's block:   *)
(* each block before it is taken up and ends.                              *)
Turns(c) == 2 * Place(c, queue) + (IF onMain = Main THEN 1 ELSE 0)

(* An operation begins with a bounded amount of work and returns, or does  *)
(* some of that work, or leaves it alone; nothing adds to it.  While it is *)
(* blocked its turn is not put off, and whatever changes who runs on the   *)
(* main queue brings it nearer.                                            *)
WorkShrinks(c) ==
  /\ operation # c /\ operation' = c => Work(c)' = 4 * MaxMessages + 1
  /\ operation = c =>
       \/ operation' = Nobody
       \/ operation' = c /\ Work(c)' < Work(c)
       \/ /\ operation' = c /\ pc'[c] = pc[c] /\ Work(c)' = Work(c)
          /\ pc[c] = "posted" =>
               Turns(c)' <= Turns(c) /\ (onMain' # onMain => Turns(c)' < Turns(c))

LEMMA PlaceIs ==
  ASSUME NEW line, NEW c, NEW n \in 1..Len(line), line[n] = c,
         \A m \in 1..Len(line) : line[m] = c => m = n
  PROVE  Place(c, line) = n
BY DEF Place

(* The steps that an operation takes itself, or the main queue for it.     *)
LEMMA OwnStep ==
  ASSUME ProgressInv, NEW c \in Callers,
         Send(c) \/ HandleDirectly(c) \/ Post(c) \/ EndHandler(c) \/ (c \in Workers /\ Serve(c))
  PROVE  operation' = operation /\ Work(c)' < Work(c)
<1> USE DEF ProgressInv, MacroInv
<1>1. /\ MaxMessages \in Nat /\ messages[c] \in 0..MaxMessages
      /\ frames[c] \in Lists /\ Len(frames[c]) \in Nat
      /\ pc \in [Callers -> {"idle", "waiting", "compiling", "sending", "posted", "handling"}]
      /\ frames \in [Callers -> Lists]
      /\ messages \in [Callers -> 0..MaxMessages]
  BY MacroAssumption, LenProperties DEF TypeOK, Lists
<1>2. Work(c)' = 4 * (MaxMessages - messages'[c]) + Len(frames'[c]) + Left(pc'[c])
  BY DEF Work, Left
<1>3. CASE Send(c)
  <2>1. /\ pc[c] \in {"compiling", "handling"} /\ pc'[c] = "sending"
        /\ messages'[c] = messages[c] + 1 /\ frames' = frames /\ operation' = operation
    BY <1>1, <1>3 DEF Send
  <2> QED BY <1>1, <1>2, <2>1 DEF Work, Left
<1>4. CASE HandleDirectly(c)
  <2>1. /\ pc[c] = "sending" /\ pc'[c] = "handling" /\ messages' = messages
        /\ frames'[c] = Append(frames[c], "direct") /\ operation' = operation
    BY <1>1, <1>4 DEF HandleDirectly
  <2>2. Len(frames'[c]) = Len(frames[c]) + 1
    BY <1>1, <2>1, PushFrame
  <2> QED BY <1>1, <1>2, <2>1, <2>2 DEF Work, Left
<1>5. CASE Post(c)
  <2>1. /\ pc[c] = "sending" /\ pc'[c] = "posted" /\ messages' = messages
        /\ frames' = frames /\ operation' = operation
    BY <1>1, <1>5 DEF Post
  <2> QED BY <1>1, <1>2, <2>1 DEF Work, Left
<1>6. CASE EndHandler(c)
  <2>1. /\ pc[c] = "handling" /\ pc'[c] \in {"compiling", "handling"} /\ messages' = messages
        /\ frames'[c] = SubSeq(frames[c], 1, Len(frames[c]) - 1) /\ operation' = operation
    BY <1>1, <1>6 DEF EndHandler
  <2>2. frames[c] # <<>>
    BY <2>1 DEF StepsFit
  <2>3. Len(frames'[c]) = Len(frames[c]) - 1
    BY <1>1, <2>1, <2>2, PopFrame
  <2>4. Left(pc[c]) = 1 /\ Left(pc'[c]) = 1
    BY <2>1 DEF Left
  <2>5. Work(c) = 4 * (MaxMessages - messages[c]) + Len(frames[c]) + Left(pc[c])
    BY DEF Work
  <2>6. Work(c)' = 4 * (MaxMessages - messages[c]) + Len(frames'[c]) + 1
    BY <1>2, <2>1, <2>4
  <2>7. Work(c) = 4 * (MaxMessages - messages[c]) + Len(frames[c]) + 1
    BY <2>4, <2>5
  <2>8. 4 * (MaxMessages - messages[c]) \in Int
    BY <1>1
  <2> HIDE DEF ProgressInv, MacroInv
  <2>9. Work(c)' < Work(c)
    BY <1>1, <2>3, <2>6, <2>7, <2>8
  <2> QED BY <2>1, <2>9
<1>7. CASE c \in Workers /\ Serve(c)
  <2>1. /\ queue # <<>> /\ Head(queue) = c /\ c # Main /\ queue \in Seq(Callers)
        /\ pc'[c] = "handling" /\ messages' = messages
        /\ frames'[c] = Append(frames[c], "queue") /\ operation' = operation
    BY <1>1, <1>7, MacroAssumption DEF Serve, TypeOK
  <2>2. pc[c] = "posted"
    BY <2>1, TailElements DEF BorrowedFieldsLive
  <2>3. Len(frames'[c]) = Len(frames[c]) + 1
    BY <1>1, <2>1, PushFrame
  <2> QED BY <1>1, <1>2, <2>1, <2>2, <2>3 DEF Work, Left
<1> QED BY <1>3, <1>4, <1>5, <1>6, <1>7

(* The main queue's own steps leave the operation alone and bring a        *)
(* blocked caller nearer; new work for the main queue lines up behind it.  *)
LEMMA TurnComes ==
  ASSUME ProgressInv, ProgressInv', NEW c \in Callers, operation = c, pc'[c] = pc[c],
         pc[c] = "posted",
         LeaveMain \/ PostOwnWork \/ ServeOwnWork \/ (queue' = queue /\ onMain' = onMain)
  PROVE  Turns(c)' <= Turns(c) /\ (onMain' # onMain => Turns(c)' < Turns(c))
<1> USE DEF ProgressInv, MacroInv
<1>1. c # Main /\ queue \in Seq(Callers) /\ queue' \in Seq(Callers) /\ Nobody # Main
  BY MacroAssumption DEF MainQueueOwned, TypeOK
<1>2. PICK n \in 1..Len(queue) : queue[n] = c
  BY DEF PostedIsQueued
<1>3. Place(c, queue) = n
  <2>1. \A m \in 1..Len(queue) : queue[m] = c => m = n
    BY <1>1, <1>2 DEF BorrowedFieldsLive
  <2> QED BY <1>2, <2>1, PlaceIs
<1>4. ASSUME NEW k \in 1..Len(queue'), queue'[k] = c PROVE Place(c, queue') = k
  <2>1. \A m \in 1..Len(queue') : queue'[m] = c => m = k
    BY <1>1, <1>4 DEF BorrowedFieldsLive
  <2> QED BY <1>4, <2>1, PlaceIs
<1>5. /\ Turns(c) = 2 * n + (IF onMain = Main THEN 1 ELSE 0)
      /\ Turns(c)' = 2 * Place(c, queue') + (IF onMain' = Main THEN 1 ELSE 0)
  BY <1>3 DEF Turns, Place
<1>6. CASE LeaveMain
  <2>1. queue' = queue /\ onMain = Main /\ onMain' = Nobody
    BY <1>6 DEF LeaveMain
  <2> QED BY <1>1, <1>2, <1>4, <1>5, <2>1
<1>7. CASE PostOwnWork
  <2>1. queue' = Append(queue, Main) /\ onMain' = onMain
    BY <1>7 DEF PostOwnWork
  <2>2. n \in 1..Len(queue') /\ queue'[n] = c
    BY <1>1, <1>2, <2>1
  <2> QED BY <1>2, <1>4, <1>5, <2>1, <2>2
<1>8. CASE ServeOwnWork
  <2>1. queue' = Tail(queue) /\ queue # <<>> /\ Head(queue) = Main
        /\ onMain = Nobody /\ onMain' = Main
    BY <1>8 DEF ServeOwnWork
  <2>2. n # 1
    BY <1>1, <1>2, <2>1, TailElements
  <2>3. n - 1 \in 1..Len(queue') /\ queue'[n - 1] = c
    BY <1>1, <1>2, <2>1, <2>2
  <2>4. Place(c, queue') = n - 1
    BY <1>4, <2>3
  <2> QED BY <1>1, <1>2, <1>5, <2>1, <2>4
<1>9. CASE queue' = queue /\ onMain' = onMain
  BY <1>2, <1>4, <1>5, <1>9
<1> QED BY <1>6, <1>7, <1>8, <1>9

(* A step of another caller, which is in no operation, or of the main      *)
(* queue for itself.                                                       *)
LEMMA OthersStep ==
  ASSUME ProgressInv, ProgressInv', NEW c \in Callers, operation = c, operation' = c,
         pc'[c] = pc[c], frames'[c] = frames[c], messages'[c] = messages[c],
         LeaveMain \/ PostOwnWork \/ ServeOwnWork \/ (queue' = queue /\ onMain' = onMain)
  PROVE  WorkShrinks(c)
<1>1. Work(c)' = Work(c)
  BY DEF Work, Left
<1>2. pc[c] = "posted" =>
        Turns(c)' <= Turns(c) /\ (onMain' # onMain => Turns(c)' < Turns(c))
  BY TurnComes
<1> QED BY <1>1, <1>2 DEF WorkShrinks

LEMMA NextWork ==
  ASSUME ProgressInv, [Next]_vars, NEW c \in Callers
  PROVE  WorkShrinks(c)
<1> USE MacroAssumption DEF ProgressInv, MacroInv
<1>1. ProgressInv'
  BY NextProgress
<1>2. /\ pc \in [Callers -> {"idle", "waiting", "compiling", "sending", "posted", "handling"}]
      /\ frames \in [Callers -> Lists] /\ messages \in [Callers -> 0..MaxMessages]
      /\ Nobody # c /\ MaxMessages \in Nat
  BY DEF TypeOK, Lists, Callers
<1>3. CASE UNCHANGED vars
  <2>1. /\ operation' = operation /\ pc' = pc /\ frames' = frames /\ messages' = messages
        /\ queue' = queue /\ onMain' = onMain
    BY <1>3 DEF vars
  <2> QED BY <1>1, <2>1, OthersStep DEF WorkShrinks
<1>4. ASSUME NEW d \in Callers, Submit(d) PROVE WorkShrinks(c)
  <2>1. /\ pc[d] = "idle" /\ pc' = [pc EXCEPT ![d] = "waiting"]
        /\ operation' = operation /\ frames' = frames /\ messages' = messages
        /\ queue' = queue /\ onMain' = onMain
    BY <1>4 DEF Submit
  <2>2. operation = c => c # d
    BY <2>1 DEF OperationHeld
  <2> QED BY <1>1, <1>2, <2>1, <2>2, OthersStep DEF WorkShrinks
<1>5. ASSUME NEW d \in Callers, Acquire(d) PROVE WorkShrinks(c)
  <2>1. /\ operation = Nobody /\ operation' = d /\ pc[d] = "waiting"
        /\ pc'[d] = "compiling" /\ messages'[d] = 0 /\ frames' = frames
    BY <1>2, <1>5 DEF Acquire
  <2>2. CASE d = c
    <3>1. frames'[c] = <<>> /\ Len(frames'[c]) = 0
      BY <2>1, <2>2, EmptySeq DEF TypeOK
    <3>2. Work(c)' = 4 * (MaxMessages - 0) + 0 + 1
      BY <2>1, <2>2, <3>1 DEF Work, Left
    <3>3. Work(c)' = 4 * MaxMessages + 1
      BY <1>2, <3>2
    <3> QED BY <1>2, <2>1, <3>3 DEF WorkShrinks
  <2>3. CASE d # c
    BY <1>2, <2>1, <2>3 DEF WorkShrinks
  <2> QED BY <2>2, <2>3
<1>6. ASSUME NEW d \in Callers, Return(d) PROVE WorkShrinks(c)
  BY <1>2, <1>6 DEF Return, WorkShrinks
<1>7. ASSUME NEW d \in Callers,
             Send(d) \/ HandleDirectly(d) \/ Post(d) \/ EndHandler(d) \/ (d \in Workers /\ Serve(d))
      PROVE  WorkShrinks(c)
  <2>1. operation' = operation /\ Work(d)' < Work(d)
    BY <1>7, OwnStep
  <2>2. operation = d
    <3>1. CASE Send(d) \/ HandleDirectly(d) \/ Post(d) \/ EndHandler(d)
      BY <3>1 DEF Send, HandleDirectly, Post, EndHandler, OperationHeld
    <3>2. CASE d \in Workers /\ Serve(d)
      <4>1. queue # <<>> /\ Head(queue) = d /\ d # Main /\ queue \in Seq(Callers)
        BY <3>2 DEF Serve, TypeOK
      <4>2. pc[d] = "posted"
        BY <4>1, TailElements DEF BorrowedFieldsLive
      <4> QED BY <4>2 DEF OperationHeld
    <3> QED BY <1>7, <3>1, <3>2
  <2> QED BY <2>1, <2>2 DEF WorkShrinks
<1>8. CASE LeaveMain \/ PostOwnWork \/ ServeOwnWork
  <2>1. operation' = operation /\ pc' = pc /\ frames' = frames /\ messages' = messages
    BY <1>8 DEF LeaveMain, PostOwnWork, ServeOwnWork
  <2> QED BY <1>1, <1>8, <2>1, OthersStep DEF WorkShrinks
<1>9. \A d \in Workers : d \in Callers
  BY DEF Callers
<1> QED BY <1>3, <1>4, <1>5, <1>6, <1>7, <1>8, <1>9 DEF Next, Adapter

(* An operation with n messages takes at most 4 n steps before it returns, *)
(* however its handlers nest, and while it is blocked only as many steps   *)
(* of the main queue pass as are due before its turn (MacroEntry.cpp       *)
(* 47-57): what remains of OperationsEnd is fairness alone.                *)
THEOREM OperationsShrink == Spec => [][\A c \in Callers : WorkShrinks(c)]_vars
<1>1. ProgressInv /\ [Next]_vars => [\A c \in Callers : WorkShrinks(c)]_vars
  BY NextWork
<1> QED BY <1>1, InitProgress, NextProgress, PTL DEF Spec

(* The caller that holds the lock always has work left and a step of its   *)
(* own, or the main queue has one to take, or the application blocks the   *)
(* main queue in a call of its own (MacroEntry.cpp 47-57,                  *)
(* Docs/CompilerBridge.md 31-34).                                          *)
HolderGoesOn ==
  \A c \in Callers : operation = c =>
    /\ Work(c) \in 1..(4 * MaxMessages + 1)
    /\ \/ pc[c] \in {"compiling", "sending", "handling"}
       \/ pc[c] = "posted" /\ (MainQueueRuns \/ MainWaits)

THEOREM HolderIsNeverStuck == Spec => []HolderGoesOn
<1> DEFINE Bounded == \A c \in Callers : operation = c => Work(c) <= 4 * MaxMessages + 1
<1>1. ProgressInv => \A c \in Callers : operation = c =>
        /\ Work(c) \in Nat \ {0}
        /\ \/ pc[c] \in {"compiling", "sending", "handling"}
           \/ pc[c] = "posted" /\ (MainQueueRuns \/ MainWaits)
  <2> SUFFICES ASSUME ProgressInv, NEW c \in Callers, operation = c
               PROVE  /\ Work(c) \in Nat \ {0}
                      /\ \/ pc[c] \in {"compiling", "sending", "handling"}
                         \/ pc[c] = "posted" /\ (MainQueueRuns \/ MainWaits)
    OBVIOUS
  <2> USE MacroAssumption DEF ProgressInv, MacroInv
  <2>1. MaxMessages \in Nat /\ messages[c] \in 0..MaxMessages /\ Len(frames[c]) \in Nat
    BY LenProperties DEF TypeOK
  <2>2. Work(c) \in Nat \ {0}
    <3>1. Left(pc[c]) \in {1, 3, 4}
      BY DEF Left
    <3>2. Work(c) = 4 * (MaxMessages - messages[c]) + Len(frames[c]) + Left(pc[c])
      BY DEF Work
    <3>3. 4 * (MaxMessages - messages[c]) \in Nat
      BY <2>1
    <3>4. \A a, b \in Nat, d \in {1, 3, 4} : a + b + d \in Nat \ {0}
      OBVIOUS
    <3> HIDE DEF ProgressInv, MacroInv
    <3>5. 4 * (MaxMessages - messages[c]) + Len(frames[c]) + Left(pc[c]) \in Nat \ {0}
      BY <2>1, <3>1, <3>3, <3>4, Zenon
    <3> QED BY <3>2, <3>5, Zenon
  <2>3. pc[c] \in {"compiling", "sending", "handling", "posted"}
    BY DEF OperationHeld
  <2>4. ASSUME pc[c] = "posted" PROVE MainQueueRuns \/ MainWaits
    <3>1. queue # <<>> /\ frames[c] = <<>>
      BY <2>4, EmptySeq DEF PostedIsQueued, StepsFit
    <3>2. onMain \in {Main, Nobody}
      <4> SUFFICES ASSUME onMain \in Workers PROVE FALSE
        BY DEF TypeOK, Callers
      <4>1. frames[onMain] # <<>> /\ onMain \in Callers
        BY DEF MainQueueOwned, Callers
      <4>2. operation = onMain
        BY <4>1 DEF TypeOK, OperationHeld
      <4> QED BY <3>1, <4>1, <4>2
    <3>3. CASE onMain = Nobody
      BY <3>1, <3>3 DEF MainQueueRuns
    <3>4. CASE onMain = Main
      <4>1. c # Main /\ Main \in Callers
        BY <2>4 DEF MainQueueOwned, Callers
      <4>2. pc[Main] \in {"idle", "waiting"}
        BY <4>1 DEF TypeOK, OperationHeld
      <4> QED BY <3>4, <4>2 DEF MainQueueRuns, MainWaits
    <3> QED BY <3>2, <3>3, <3>4
  <2> QED BY <2>2, <2>3, <2>4
<1>2. Init => Bounded
  BY MacroAssumption DEF Init, Callers
<1>3. ProgressInv /\ Bounded /\ [Next]_vars => Bounded'
  <2> SUFFICES ASSUME ProgressInv, Bounded, [Next]_vars, NEW c \in Callers, operation' = c
               PROVE  Work(c)' <= 4 * MaxMessages + 1
    OBVIOUS
  <2>1. WorkShrinks(c) /\ MaxMessages \in Nat /\ Nobody # c
    BY NextWork, MacroAssumption DEF Callers
  <2>2. operation = c => Work(c) \in Nat /\ Work(c) <= 4 * MaxMessages + 1
    BY <1>1
  <2>3. ProgressInv'
    BY NextProgress
  <2>4. Work(c)' \in Nat
    <3>1. messages'[c] \in 0..MaxMessages /\ Len(frames'[c]) \in Nat
      BY <2>3, LenProperties DEF ProgressInv, MacroInv, TypeOK
    <3>2. Work(c)' = 4 * (MaxMessages - messages'[c]) + Len(frames'[c]) + Left(pc'[c])
      BY DEF Work, Left
    <3>3. Left(pc'[c]) \in Nat
      BY DEF Left
    <3>4. 4 * (MaxMessages - messages'[c]) \in Nat
      BY <2>1, <3>1
    <3>5. \A a, b, d \in Nat : a + b + d \in Nat
      OBVIOUS
    <3> QED BY <3>1, <3>2, <3>3, <3>4, <3>5, Zenon
  <2> QED BY <2>1, <2>2, <2>4 DEF WorkShrinks
<1>4. ProgressInv /\ Bounded => HolderGoesOn
  <2> SUFFICES ASSUME ProgressInv, Bounded, NEW c \in Callers, operation = c
               PROVE  Work(c) \in 1..(4 * MaxMessages + 1)
    BY <1>1 DEF HolderGoesOn
  <2> QED BY <1>1, MacroAssumption
<1> HIDE DEF Bounded
<1> QED BY <1>2, <1>3, <1>4, InitProgress, NextProgress, PTL DEF Spec
=============================================================================
