-------------------------- MODULE MCCompilerBridge --------------------------
(* Small instances of CompilerBridge for model checking.                   *)
EXTENDS CompilerBridge, TLC

CONSTANTS t1, t2, i1, i2, i3

TwoThreads == {t1, t2}
TwoIds == {i1, i2}
ThreeIds == {i1, i2, i3}

AllOperations == {"frontend", "autolink", "link", "complete", "annotate", "reset"}

(* One operation of each kind: the linker may poison the session, the      *)
(* completion can be cancelled and uses the context, reset drops it.       *)
OneOfEachKind == {"link", "complete", "reset"}

(* Threads and identifiers are interchangeable.                            *)
Interchangeable == Permutations(Threads) \union Permutations(Ids)
=============================================================================
