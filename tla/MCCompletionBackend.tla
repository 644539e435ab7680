------------------------- MODULE MCCompletionBackend -------------------------
(* Two paths of one file and one of another, one or two cache directories, *)
(* and one or two modules.                                                 *)
EXTENDS CompletionBackend

(* "link" is a symbolic link to the file of "main".                        *)
MCPaths == {"main", "link", "other"}
MCFiles == {"main.swift", "other.swift"}
MCRealPath == [p \in MCPaths |-> IF p = "other" THEN "other.swift" ELSE "main.swift"]

(* The project's arguments, and those of a project without the other file. *)
MCRequests ==
  { r \in AnyRequest :
      /\ r.inputs \in {{"main", "other"}, {"main"}}
      /\ ~r.sound => r.path = "main" /\ r.imports = {}
      /\ r.imports \in {{}, Modules} }
=============================================================================
