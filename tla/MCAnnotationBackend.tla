------------------------- MODULE MCAnnotationBackend -------------------------
(* The annotation backend on files of at most MaxExpressions expressions.  *)
EXTENDS AnnotationBackend

CONSTANTS
  MaxExpressions  (* the longest primary file *)

Codes == UNION { [1..n -> Expressions] : n \in 0..MaxExpressions }

(* A request that fails early has the same fate whatever its file holds.   *)
MCRequests ==
  [problem : {"none"}, code : Codes, sil : Diagnoses]
    \union [problem : {"arguments", "setup", "primary"}, code : {<<>>}, sil : {"note"}]
=============================================================================
