---------------------------- MODULE SerialSession ----------------------------
(***************************************************************************)
(* What the compiler bridge promises its callers, without locks, tables or *)
(* flags: every call takes effect at one instant between its submission    *)
(* and its return, and at that instant the session is either reusable or   *)
(* not.  A session that is not reusable answers failure for ever.          *)
(***************************************************************************)
EXTENDS Naturals

CONSTANTS
  Threads,       (* the callers                                            *)
  Calls,         (* the requests, records with an op, an id and a validity *)
  NoCall,        (* what a caller asks for, and is answered, while it does *)
  NoAnswer,      (* not call                                               *)
  Ids,           (* the identifiers by which a request can be cancelled    *)
  Cancellable,   (* the operations that can be cancelled                   *)
  Poisoning      (* the operations that can make the session unusable      *)

VARIABLES
  stage,         (* of each caller: "away", "asked" or "answered"          *)
  call,          (* what each caller asks for                              *)
  answer,        (* what each caller is answered                           *)
  reusable,      (* the state of the session                               *)
  requested      (* the identifiers cancelled so far                       *)

vars == <<stage, call, answer, reusable, requested>>

Init ==
  /\ stage = [t \in Threads |-> "away"]
  /\ call = [t \in Threads |-> NoCall]
  /\ answer = [t \in Threads |-> NoAnswer]
  /\ reusable = TRUE
  /\ requested = {}

Ask(t, c) ==
  /\ stage[t] = "away"
  /\ stage' = [stage EXCEPT ![t] = "asked"]
  /\ call' = [call EXCEPT ![t] = c]
  /\ UNCHANGED <<answer, reusable, requested>>

(* The instant at which the call takes effect.                             *)
Serve(t, status, again) ==
  /\ stage[t] = "asked"
  /\ call[t].op # "reset"
  /\ ~reusable => ~again
  /\ ~reusable \/ ~call[t].valid => status \in {"failure", "none"}
  /\ status = "cancelled" => call[t].op \in Cancellable /\ call[t].id \in requested
  /\ status = "none" => ~again
  /\ reusable /\ ~again => status = "none" \/ call[t].op \in Poisoning
  /\ stage' = [stage EXCEPT ![t] = "answered"]
  /\ answer' = [answer EXCEPT ![t] = [status |-> status, canRunAgain |-> again]]
  /\ reusable' = again
  /\ UNCHANGED <<call, requested>>

(* A reset answers nothing and restores nothing.                           *)
ServeReset(t) ==
  /\ stage[t] = "asked"
  /\ call[t].op = "reset"
  /\ stage' = [stage EXCEPT ![t] = "answered"]
  /\ UNCHANGED <<call, answer, reusable, requested>>

Leave(t) ==
  /\ stage[t] = "answered"
  /\ stage' = [stage EXCEPT ![t] = "away"]
  /\ call' = [call EXCEPT ![t] = NoCall]
  /\ answer' = [answer EXCEPT ![t] = NoAnswer]
  /\ UNCHANGED <<reusable, requested>>

Cancel(id) ==
  /\ requested' = requested \union {id}
  /\ UNCHANGED <<stage, call, answer, reusable>>

Next ==
  \/ \E t \in Threads : \E c \in Calls : Ask(t, c)
  \/ \E t \in Threads : \E status \in {"success", "failure", "cancelled", "none"} :
       \E again \in BOOLEAN : Serve(t, status, again)
  \/ \E t \in Threads : ServeReset(t)
  \/ \E t \in Threads : Leave(t)
  \/ \E id \in Ids : Cancel(id)

Spec == Init /\ [][Next]_vars
==============================================================================
