--------------------------- MODULE MCNativeQueries ---------------------------
(* One alias; two bundled frameworks, of which one has another file; and a *)
(* framework outside of the bundle, on another volume.                     *)
EXTENDS NativeQueries

Executable(directory, name) ==
  [directory |-> directory, stem |-> name, extension |-> ".framework", name |-> name]

First == Executable("Frameworks", "First")
MCLocations ==
  {First, [First EXCEPT !.name = "Resource"], Executable("Frameworks", "Second"),
   Executable("Documents", "First")}
MCShipped == [l \in MCLocations |-> "file"]
MCLocality == [l \in MCLocations |-> IF l.directory = "Frameworks" THEN "local" ELSE "remote"]
=============================================================================
