----------------------- MODULE MCArtifactVerification -----------------------
(* An earlier release and two current ones, two modules, and faults that   *)
(* each need another of the checks.                                        *)
EXTENDS ArtifactVerification

CONSTANTS r0, r1, r2, m1, m2

ThreeReleases == {r0, r1, r2}
Earlier == {r0}
TwoModules == <<m1, m2>>

First == Slices[1]
Second == Slices[2]
OneOfEachKind ==
  { [archive |-> Bridge, file |-> <<Second, "binary">>, form |-> form] : form \in {"changed", "lost", "unfit"} }
  \union { [archive |-> Bridge, file |-> <<First, "privacy">>, form |-> "lost"] }
  \union { [archive |-> SDK, file |-> <<First, m2>>, form |-> form] :
              form \in {"changed", "lost", "long", "larger"} }
  \union { [archive |-> SDK, file |-> <<Second, kind>>, form |-> "changed"] :
              kind \in {"notices", "builtins"} }
  \union { [archive |-> MacroBuildSupport, file |-> <<Second, "sources">>, form |-> "differs"] }
  \union { [archive |-> MacroBuildSupport, file |-> <<First, "support modules">>, form |-> form] :
              form \in {"changed", "lost"} }
  \union { [archive |-> MacroBuildSupport, file |-> <<Second, kind>>, form |-> "unfit"] :
              kind \in {"compatibility", "support libraries"} }

(* No action and no property tells the two current releases apart.         *)
Interchangeable == { [r \in {r1, r2} |-> r], [r \in {r1, r2} |-> IF r = r1 THEN r2 ELSE r1] }
=============================================================================
