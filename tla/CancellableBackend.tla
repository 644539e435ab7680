------------------------- MODULE CancellableBackend -------------------------
(***************************************************************************)
(* What the bridge relies on in the backend of a completion or an          *)
(* annotation (CompilerBackend.h).  The backend runs once for a request,   *)
(* shares a cancellation flag that only goes up, and ends with one result. *)
(* It may ignore the flag, but it says "cancelled" only when the flag was  *)
(* set, and it never closes the compiler session.  Spec is one request,    *)
(* ServiceSpec one request after another.                                  *)
(***************************************************************************)

CONSTANTS NoResult

VARIABLES flag, result

Statuses == {"success", "failure", "cancelled"}

Results == [status : Statuses, canRunAgain : {TRUE}]

Init ==
  /\ flag = FALSE
  /\ result = NoResult

(* The bridge sets the flag from any thread, also when the backend has just *)
(* ended and the bridge has not yet taken the flag out of its registration. *)
Cancel ==
  /\ flag' = TRUE
  /\ UNCHANGED result

End ==
  /\ result = NoResult
  /\ \E r \in Results :
       /\ r.status = "cancelled" => flag
       /\ result' = r
  /\ UNCHANGED flag

Next == Cancel \/ End

Spec == Init /\ [][Next]_<<flag, result>>

(* The bridge takes the result and forgets the flag; the next request gets *)
(* a flag of its own.                                                      *)
Begin ==
  /\ result # NoResult
  /\ flag' = FALSE
  /\ result' = NoResult

ServiceSpec == Init /\ [][Next \/ Begin]_<<flag, result>>
=============================================================================
