---------------------------- MODULE NativeQueries ----------------------------
(***************************************************************************)
(* What the native compiler asks the host about a file before it opens or  *)
(* maps it: which bundled framework a plugin's path stands for             *)
(* (BundledPluginPolicy.cpp, called twice by the patched compiler, for the *)
(* argument and for the load), and whether a volume is local               *)
(* (AppleFileSystemMetadata.cpp).  Between any two calls of the system     *)
(* somebody may turn a symbolic link elsewhere or replace a file, though   *)
(* not in the application's bundle.                                        *)
(***************************************************************************)

CONSTANTS
  Aliases,      (* paths through symbolic links                             *)
  Locations,    (* canonical paths, a subset of AnyLocation                 *)
  Frameworks,   (* the canonical directory of the private frameworks        *)
  Shipped,      (* what is at each location when the process starts         *)
  Locality,     (* of each location's volume: "local" or "remote"           *)
  NoPath,       (* null or the empty string                                 *)
  Nothing

(* directory/stem.extension/name                                           *)
AnyLocation == [directory : STRING, stem : STRING, extension : STRING, name : STRING]

ASSUME QueriesAssumption ==
  /\ Locations \subseteq AnyLocation
  /\ Aliases \intersect Locations = {}
  /\ NoPath \notin Aliases \union Locations
  /\ Nothing \notin Locations
  /\ Shipped \in [Locations -> {"file", "directory", "nothing"}]
  /\ Locality \in [Locations -> {"local", "remote"}]

VARIABLES
  links,     (* the location that each alias leads to                       *)
  contents,  (* what is at each location                                    *)
  pc,
  purpose,   (* what a plugin's path is resolved for: argument or load      *)
  given,     (* the path that the query is about                            *)
  found,     (* the canonical path, or the location of the property's value *)
  value,     (* the property that Core Foundation copied                    *)
  held,      (* Core Foundation objects that the query must release         *)
  accepted,  (* the plugin's path in the compiler's options                 *)
  opened,    (* the file that dlopen opened last                            *)
  answer,    (* the last answer about locality                              *)
  named      (* history: what the accepted argument stood for               *)

host == <<links, contents>>
query == <<pc, purpose, given, found, value, held>>
outputs == <<accepted, opened, answer, named>>
vars == <<host, query, outputs>>

NoAnswer == [error |-> "none", output |-> "unset", about |-> Nothing]

Init ==
  /\ links \in [Aliases -> Locations]
  /\ contents = Shipped
  /\ pc = "idle" /\ purpose = "argument"
  /\ given = NoPath /\ found = Nothing /\ value = "none" /\ held = {}
  /\ accepted = Nothing /\ opened = Nothing /\ named = Nothing
  /\ answer = NoAnswer

-----------------------------------------------------------------------------
(* The host.                                                               *)

Canonical(path) == IF path \in Aliases THEN links[path] ELSE path
Exists(path) == path # NoPath /\ contents[Canonical(path)] # "nothing"

Relink(alias, l) ==
  /\ links' = [links EXCEPT ![alias] = l]
  /\ UNCHANGED <<contents, query, outputs>>

(* The application preserves its bundled files.                            *)
Replace(l, kind) ==
  /\ l.directory # Frameworks
  /\ contents' = [contents EXCEPT ![l] = kind]
  /\ UNCHANGED <<links, query, outputs>>

-----------------------------------------------------------------------------
(* The plugin policy.                                                      *)

Begin(step, path) ==
  /\ pc = "idle" /\ pc' = step
  /\ given' = path
  /\ UNCHANGED <<host, found, value, held>>

Step(from, to) == pc = from /\ pc' = to /\ UNCHANGED <<host, purpose, value, opened, answer>>

(* A query returns, and its locals are gone.                               *)
Return == pc' = "idle" /\ given' = NoPath /\ found' = Nothing /\ value' = "none"

(* -load-plugin-library, -load-resolved-plugin or the server's path.       *)
ParseArgument(path) ==
  /\ Begin("resolving", path)
  /\ purpose' = "argument"
  /\ accepted' = Nothing /\ named' = Nothing
  /\ UNCHANGED <<opened, answer>>

LoadLibrary ==
  /\ accepted # Nothing
  /\ Begin("resolving", accepted)
  /\ purpose' = "load"
  /\ UNCHANGED outputs

(* A null result: an argument is rejected, a library is not loaded.  The   *)
(* bundle may not say where its frameworks are, and copying may fail.      *)
Refuse ==
  /\ pc \in {"resolving", "checking", "copying"}
  /\ Return
  /\ UNCHANGED <<host, purpose, held, outputs>>

ResolvePath ==
  /\ Exists(given)
  /\ Step("resolving", "checking")
  /\ found' = Canonical(given)
  /\ UNCHANGED <<given, held, accepted, named>>

(* Mutant: the frameworks of any directory.                                *)
IsAnyFramework(l) == l.extension = ".framework" /\ l.stem # "" /\ l.name = l.stem

IsFrameworkExecutable(l) ==
  /\ l.directory = Frameworks
  /\ l.extension = ".framework"
  /\ l.stem # ""
  /\ l.name = l.stem

CheckLayout ==
  /\ Step("checking", "copying")
  /\ contents[found] = "file"
  /\ IsFrameworkExecutable(found)
  /\ UNCHANGED <<given, found, held, accepted, named>>

(* Mutant: the path that was asked about.                                  *)
GivenPath == given

(* The string that the policy returns.                                     *)
ReturnedPath == found

(* The compiler's options keep the path of an accepted argument.           *)
AcceptArgument ==
  /\ pc = "copying" /\ purpose = "argument"
  /\ accepted' = ReturnedPath /\ named' = found
  /\ Return
  /\ UNCHANGED <<host, purpose, held, opened, answer>>

(* The loader opens the path that it got, and not the one that it gave.    *)
AcceptLoad ==
  /\ purpose = "load"
  /\ Step("copying", "opening")
  /\ given' = ReturnedPath
  /\ UNCHANGED <<found, held, accepted, named>>

(* dlopen, which fails for what is no file.                                *)
Open ==
  /\ pc = "opening"
  /\ Return
  /\ opened' = IF contents[Canonical(given)] = "file" THEN Canonical(given) ELSE Nothing
  /\ UNCHANGED <<host, purpose, held, accepted, answer, named>>

-----------------------------------------------------------------------------
(* The locality of a volume.                                               *)

Ask(path) ==
  /\ Begin("stating", path)
  /\ answer' = NoAnswer
  /\ UNCHANGED <<purpose, accepted, opened, named>>

IsBoolean(property) == property \in {"local", "remote"}

(* Mutant: a value of another type is kept.                                *)
ReleasesBoolean(property) == IF IsBoolean(property) THEN held ELSE {}

(* Whatever the property is, its value is released.                        *)
Releases(property) == held

(* The query returns; the output is set only without an error.             *)
Answer(error, output) ==
  /\ Return
  /\ held' = held \ Releases(value)
  /\ answer' = [error |-> error, output |-> output, about |-> found]
  /\ UNCHANGED <<host, purpose, accepted, opened, named>>

(* No path, no file, or no URL for the path.                               *)
FailQuery == pc = "stating" /\ Answer("failed", "unset")

StatPath ==
  /\ Exists(given)
  /\ Step("stating", "property")
  /\ held' = {"url"}
  /\ UNCHANGED <<given, found, accepted, named>>

(* The property is copied, or is not, for what the path now stands for;    *)
(* the URL is released.  A failed copy may leave a value, which is not     *)
(* looked at.                                                              *)
CopyProperty ==
  /\ pc = "property" /\ pc' = "reading"
  /\ found' = Canonical(given)
  /\ value' \in {"none", "failed", "other"}
       \union (IF Exists(given) THEN {Locality[Canonical(given)]} ELSE {})
  /\ held' = IF value' = "none" THEN {} ELSE {"value"}
  /\ UNCHANGED <<host, purpose, given, outputs>>

(* Only a boolean is an answer.                                            *)
ReadProperty ==
  /\ pc = "reading"
  /\ IF IsBoolean(value) THEN Answer("none", value) ELSE Answer("failed", "unset")

(* What fgetattrlist may say of an open file: flags that it does not       *)
(* support, or does not write, are zero.                                   *)
Replies(l) ==
  { [failed |-> f, complete |-> c, supported |-> s,
     volume |-> IF c /\ s THEN Locality[l] ELSE "remote"] : f, c, s \in BOOLEAN }

(* Mutant: the mask of supported attributes is not looked at.              *)
IsAnyReply(r) == ~r.failed /\ r.complete

IsReadable(r) == ~r.failed /\ r.complete /\ r.supported

(* swift_toolchain_is_local_fd, of an open file whose path may be gone.    *)
AskDescriptor(l) ==
  /\ pc = "idle"
  /\ \E r \in Replies(l) :
       answer' = [error |-> IF IsReadable(r) THEN "none" ELSE "failed",
                  output |-> IF IsReadable(r) THEN r.volume ELSE "unset", about |-> l]
  /\ UNCHANGED <<host, query, accepted, opened, named>>

Next ==
  \/ \E alias \in Aliases, l \in Locations : Relink(alias, l)
  \/ \E l \in Locations, kind \in {"file", "directory", "nothing"} : Replace(l, kind)
  \/ \E path \in Aliases \union Locations \union {NoPath} : ParseArgument(path) \/ Ask(path)
  \/ LoadLibrary
  \/ Refuse \/ ResolvePath \/ CheckLayout
  \/ AcceptArgument \/ AcceptLoad \/ Open
  \/ FailQuery \/ StatPath \/ CopyProperty \/ ReadProperty
  \/ \E l \in Locations : AskDescriptor(l)

Spec == Init /\ [][Next]_vars

-----------------------------------------------------------------------------
(* Properties.                                                             *)

(* Types, and that a query that has returned, whichever of its calls has   *)
(* failed, has released what Core Foundation gave it                       *)
(* (AppleFileSystemMetadata.cpp 40-54).                                    *)
TypeOK ==
  /\ links \in [Aliases -> Locations]
  /\ contents \in [Locations -> {"file", "directory", "nothing"}]
  /\ pc \in {"idle", "resolving", "checking", "copying", "opening", "stating", "property", "reading"}
  /\ purpose \in {"argument", "load"}
  /\ given \in Aliases \union Locations \union {NoPath}
  /\ found \in Locations \union {Nothing}
  /\ value \in {"none", "failed", "other", "local", "remote"}
  /\ held \subseteq {"url", "value"}
  /\ pc = "idle" => held = {}
  /\ accepted \in Aliases \union Locations \union {Nothing}
  /\ {opened, named} \subseteq Locations \union {Nothing}
  /\ answer \in [error : {"none", "failed"}, output : {"unset", "local", "remote"},
                 about : Locations \union {Nothing}]

(* What the loader opens for an accepted argument is the bundled framework *)
(* executable that the argument stood for when it was accepted, wherever   *)
(* links lead by then (SwiftToolchainPluginPolicy.h: "mutable aliases      *)
(* cannot redirect a later open outside the bundle").                      *)
OpensAcceptedPlugin ==
  [][ pc = "opening" /\ pc' = "idle" /\ opened' # Nothing =>
        opened' = named /\ IsFrameworkExecutable(opened') ]_vars

(* An answer without an error is true of the file that was asked about,    *)
(* and an error leaves the output unset: what the system could not say is  *)
(* never taken for a remote volume (AppleFileSystemMetadata.h).            *)
TruthfulLocality ==
  /\ answer.error = "none" /\ answer.about # Nothing => answer.output = Locality[answer.about]
  /\ answer.error # "none" => answer.output = "unset"
=============================================================================
