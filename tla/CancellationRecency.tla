------------------------- MODULE CancellationRecency -------------------------
(***************************************************************************)
(* CompilerBridge with one history variable: the early cancellations, in   *)
(* the order of the last time each was asked for, of which the Remembered  *)
(* most recent are kept.  It is what SwiftCompilerBridge.h, lines 146-147, *)
(* says that swift_compiler_cancel_completion remembers.                   *)
(***************************************************************************)
EXTENDS CompilerBridge

VARIABLE recent      (* history: identifiers, least recently cancelled first *)

recencyVars == <<vars, recent>>

Without(id) == SelectSeq(recent, LAMBDA other : other # id)

(* The Remembered last elements.                                           *)
MostRecent(s) ==
  IF Len(s) > Remembered THEN SubSeq(s, Len(s) - Remembered + 1, Len(s)) ELSE s

RecencyInit == Init /\ recent = <<>>

RecencyNext ==
  \/ /\ \E t \in Threads :
          \/ \E c \in Calls : Submit(t, c)
          \/ Acquire(t)
          \/ Proceed(t) /\ ~BeginCancelled(t)
     /\ UNCHANGED recent
  \/ \E t \in Threads : BeginCancelled(t) /\ recent' = Without(call[t].id)
  \/ \E id \in Ids : CancelRunning(id) /\ UNCHANGED recent
  \/ \E id \in Ids :
       /\ CancelAgain(id) \/ CancelEarly(id)
       /\ recent' = MostRecent(Append(Without(id), id))

RecencySpec == RecencyInit /\ [][RecencyNext]_recencyVars

(* Only the most recent 64 identifiers without a running request are       *)
(* remembered, and those are: what the header and Docs/CompilerBridge.md   *)
(* say of the list that swift_compiler_cancel_completion keeps.            *)
MostRecentRemembered ==
  Pending = { recent[i] : i \in 1..Len(recent) }
==============================================================================
