------------------------- MODULE NativeQueries_proofs -------------------------
(***************************************************************************)
(* For any set of paths and links, whatever happens to them between the    *)
(* calls: the loader opens the bundled executable that was accepted, an    *)
(* answer about locality is true or an error, and nothing leaks.           *)
(***************************************************************************)
EXTENDS NativeQueries, TLAPS

(* A canonical path leads nowhere else, so a load that was accepted is     *)
(* about the file that the argument stood for.                             *)
PluginKept ==
  /\ accepted \in Locations \union {Nothing} /\ named = accepted
  /\ accepted # Nothing => IsFrameworkExecutable(accepted)
  /\ pc \in {"checking", "copying", "opening"} => found \in Locations
  /\ pc \in {"copying", "opening"} => IsFrameworkExecutable(found)
  /\ purpose = "load" /\ pc \in {"resolving", "checking", "copying", "opening"} =>
       accepted # Nothing /\ given = accepted
  /\ purpose = "load" /\ pc \in {"checking", "copying", "opening"} => found = accepted
  /\ pc = "opening" => purpose = "load"

(* What a query about locality has copied is of the file that it found.    *)
PropertyKept ==
  /\ pc \notin {"property", "reading"} => held = {}
  /\ pc = "property" => given # NoPath
  /\ pc = "reading" => /\ found \in Locations
                       /\ IsBoolean(value) => value = Locality[found]

(* The inductive invariant.                                                *)
IInv == TypeOK /\ PluginKept /\ PropertyKept /\ TruthfulLocality

(* What the system calls return (BundledPluginPolicy.cpp 23).              *)
LEMMA CanonicalIsLocation ==
  ASSUME TypeOK, NEW path \in Aliases \union Locations
  PROVE  /\ Canonical(path) \in Locations
         /\ path \in Locations => Canonical(path) = path
BY QueriesAssumption DEF TypeOK, Canonical

LEMMA InitIInv == Init => IInv
<1> SUFFICES ASSUME Init PROVE IInv
  OBVIOUS
<1>1. TypeOK
  BY QueriesAssumption DEF Init, TypeOK, NoAnswer
<1>2. PluginKept /\ PropertyKept /\ TruthfulLocality
  BY DEF Init, PluginKept, PropertyKept, TruthfulLocality, NoAnswer
<1> QED
  BY <1>1, <1>2 DEF IInv

(* The host's own steps leave every query as it is.                        *)
LEMMA HostStep ==
  ASSUME IInv, UNCHANGED query, UNCHANGED outputs,
         links' \in [Aliases -> Locations],
         contents' \in [Locations -> {"file", "directory", "nothing"}]
  PROVE  IInv'
<1>1. UNCHANGED <<pc, purpose, given, found, value, held, accepted, opened, answer, named>>
  BY DEF query, outputs
<1>2. TypeOK'
  BY <1>1 DEF IInv, TypeOK
<1>3. PluginKept'
  BY <1>1 DEF IInv, PluginKept, IsFrameworkExecutable
<1>4. PropertyKept' /\ TruthfulLocality'
  BY <1>1 DEF IInv, PropertyKept, TruthfulLocality, IsBoolean
<1> QED
  BY <1>2, <1>3, <1>4 DEF IInv

LEMMA RelinkStep ==
  ASSUME IInv, NEW alias \in Aliases, NEW l \in Locations, Relink(alias, l)
  PROVE  IInv'
<1>1. links' \in [Aliases -> Locations] /\ contents' = contents
  BY DEF Relink, IInv, TypeOK
<1> QED
  BY <1>1, HostStep DEF Relink, IInv, TypeOK

LEMMA ReplaceStep ==
  ASSUME IInv, NEW l \in Locations, NEW kind \in {"file", "directory", "nothing"},
         Replace(l, kind)
  PROVE  IInv'
<1>1. contents' \in [Locations -> {"file", "directory", "nothing"}] /\ links' = links
  BY DEF Replace, IInv, TypeOK
<1> QED
  BY <1>1, HostStep DEF Replace, IInv, TypeOK

LEMMA StutterStep == IInv /\ UNCHANGED vars => IInv'
BY HostStep DEF vars, host, IInv, TypeOK

(* The policy's steps.                                                     *)
LEMMA ParseArgumentStep ==
  ASSUME IInv, NEW path \in Aliases \union Locations \union {NoPath}, ParseArgument(path)
  PROVE  IInv'
<1>1. /\ pc = "idle" /\ pc' = "resolving" /\ given' = path
      /\ purpose' = "argument" /\ accepted' = Nothing /\ named' = Nothing
      /\ UNCHANGED <<links, contents, found, value, held, opened, answer>>
  BY DEF ParseArgument, Begin, host
<1>2. TypeOK'
  BY <1>1 DEF IInv, TypeOK
<1>3. PluginKept'
  BY <1>1 DEF IInv, PluginKept, IsFrameworkExecutable
<1>4. PropertyKept' /\ TruthfulLocality'
  BY <1>1 DEF IInv, PropertyKept, TruthfulLocality, IsBoolean
<1> QED
  BY <1>2, <1>3, <1>4 DEF IInv

LEMMA LoadLibraryStep == IInv /\ LoadLibrary => IInv'
<1> SUFFICES ASSUME IInv, LoadLibrary PROVE IInv'
  OBVIOUS
<1>1. /\ pc = "idle" /\ pc' = "resolving" /\ accepted # Nothing
      /\ given' = accepted /\ purpose' = "load"
      /\ UNCHANGED <<links, contents, found, value, held, accepted, opened, answer, named>>
  BY DEF LoadLibrary, Begin, host, outputs
<1>2. TypeOK'
  BY <1>1 DEF IInv, TypeOK
<1>3. PluginKept'
  BY <1>1 DEF IInv, PluginKept, IsFrameworkExecutable
<1>4. PropertyKept' /\ TruthfulLocality'
  BY <1>1 DEF IInv, PropertyKept, TruthfulLocality, IsBoolean
<1> QED
  BY <1>2, <1>3, <1>4 DEF IInv

LEMMA RefuseStep == IInv /\ Refuse => IInv'
<1> SUFFICES ASSUME IInv, Refuse PROVE IInv'
  OBVIOUS
<1>1. /\ pc \in {"resolving", "checking", "copying"}
      /\ pc' = "idle" /\ given' = NoPath /\ found' = Nothing /\ value' = "none"
      /\ UNCHANGED <<links, contents, purpose, held, accepted, opened, answer, named>>
  BY DEF Refuse, Return, host, outputs
<1>2. TypeOK'
  BY <1>1 DEF IInv, TypeOK, PropertyKept
<1>3. PluginKept'
  BY <1>1 DEF IInv, PluginKept, IsFrameworkExecutable
<1>4. PropertyKept' /\ TruthfulLocality'
  BY <1>1 DEF IInv, PropertyKept, TruthfulLocality, IsBoolean
<1> QED
  BY <1>2, <1>3, <1>4 DEF IInv

LEMMA ResolvePathStep == IInv /\ ResolvePath => IInv'
<1> SUFFICES ASSUME IInv, ResolvePath PROVE IInv'
  OBVIOUS
<1>1. given \in Aliases \union Locations
  BY DEF IInv, TypeOK, ResolvePath, Exists
<1>2. found' \in Locations /\ (given \in Locations => found' = given)
  BY <1>1, CanonicalIsLocation DEF IInv, ResolvePath
<1>3. /\ pc = "resolving" /\ pc' = "checking"
      /\ UNCHANGED <<links, contents, purpose, given, value, held, accepted, opened, answer, named>>
  BY DEF ResolvePath, Step, host
<1>4. TypeOK'
  BY <1>1, <1>2, <1>3 DEF IInv, TypeOK
<1>5. PluginKept'
  BY <1>1, <1>2, <1>3 DEF IInv, PluginKept, IsFrameworkExecutable
<1>6. PropertyKept' /\ TruthfulLocality'
  BY <1>1, <1>2, <1>3 DEF IInv, PropertyKept, TruthfulLocality, IsBoolean
<1> QED
  BY <1>4, <1>5, <1>6 DEF IInv

LEMMA CheckLayoutStep == IInv /\ CheckLayout => IInv'
<1> SUFFICES ASSUME IInv, CheckLayout PROVE IInv'
  OBVIOUS
<1>1. /\ pc = "checking" /\ pc' = "copying" /\ IsFrameworkExecutable(found)
      /\ UNCHANGED <<links, contents, purpose, given, found, value, held, accepted, opened, answer, named>>
  BY DEF CheckLayout, Step, host
<1>2. TypeOK'
  BY <1>1 DEF IInv, TypeOK
<1>3. PluginKept'
  BY <1>1 DEF IInv, PluginKept, IsFrameworkExecutable
<1>4. PropertyKept' /\ TruthfulLocality'
  BY <1>1 DEF IInv, PropertyKept, TruthfulLocality, IsBoolean
<1> QED
  BY <1>2, <1>3, <1>4 DEF IInv

LEMMA AcceptArgumentStep == IInv /\ AcceptArgument => IInv'
<1> SUFFICES ASSUME IInv, AcceptArgument PROVE IInv'
  OBVIOUS
<1>1. /\ pc = "copying" /\ purpose = "argument"
      /\ accepted' = found /\ named' = found
      /\ pc' = "idle" /\ given' = NoPath /\ found' = Nothing /\ value' = "none"
      /\ UNCHANGED <<links, contents, purpose, held, opened, answer>>
  BY DEF AcceptArgument, ReturnedPath, Return, host
<1>2. TypeOK'
  BY <1>1 DEF IInv, TypeOK, PluginKept, PropertyKept
<1>3. PluginKept'
  BY <1>1 DEF IInv, PluginKept, IsFrameworkExecutable
<1>4. PropertyKept' /\ TruthfulLocality'
  BY <1>1 DEF IInv, PropertyKept, TruthfulLocality, IsBoolean
<1> QED
  BY <1>2, <1>3, <1>4 DEF IInv

LEMMA AcceptLoadStep == IInv /\ AcceptLoad => IInv'
<1> SUFFICES ASSUME IInv, AcceptLoad PROVE IInv'
  OBVIOUS
<1>1. /\ pc = "copying" /\ pc' = "opening" /\ purpose = "load" /\ given' = found
      /\ UNCHANGED <<links, contents, purpose, found, value, held, accepted, opened, answer, named>>
  BY DEF AcceptLoad, ReturnedPath, Step, host
<1>2. TypeOK'
  BY <1>1 DEF IInv, TypeOK, PluginKept
<1>3. PluginKept'
  BY <1>1 DEF IInv, PluginKept, IsFrameworkExecutable
<1>4. PropertyKept' /\ TruthfulLocality'
  BY <1>1 DEF IInv, PropertyKept, TruthfulLocality, IsBoolean
<1> QED
  BY <1>2, <1>3, <1>4 DEF IInv

(* The path that dlopen gets is canonical and accepted.                    *)
LEMMA OpenIsAccepted ==
  ASSUME IInv, Open
  PROVE  /\ opened' \in {accepted, Nothing}
         /\ accepted \in Locations /\ IsFrameworkExecutable(accepted) /\ named = accepted
<1>1. given = accepted /\ accepted \in Locations /\ IsFrameworkExecutable(accepted)
      /\ named = accepted
  BY DEF Open, IInv, PluginKept
<1>2. Canonical(given) = accepted
  BY <1>1, CanonicalIsLocation DEF IInv
<1> QED
  BY <1>1, <1>2 DEF Open

LEMMA OpenStep == IInv /\ Open => IInv'
<1> SUFFICES ASSUME IInv, Open PROVE IInv'
  OBVIOUS
<1>1. opened' \in Locations \union {Nothing}
  BY OpenIsAccepted
<1>2. /\ pc = "opening"
      /\ pc' = "idle" /\ given' = NoPath /\ found' = Nothing /\ value' = "none"
      /\ UNCHANGED <<links, contents, purpose, held, accepted, answer, named>>
  BY DEF Open, Return, host
<1>3. TypeOK'
  BY <1>1, <1>2 DEF IInv, TypeOK, PropertyKept
<1>4. PluginKept'
  BY <1>1, <1>2 DEF IInv, PluginKept, IsFrameworkExecutable
<1>5. PropertyKept' /\ TruthfulLocality'
  BY <1>1, <1>2 DEF IInv, PropertyKept, TruthfulLocality, IsBoolean
<1> QED
  BY <1>3, <1>4, <1>5 DEF IInv

(* The steps of the queries about locality.                                *)
LEMMA AskStep ==
  ASSUME IInv, NEW path \in Aliases \union Locations \union {NoPath}, Ask(path)
  PROVE  IInv'
<1>1. /\ pc = "idle" /\ pc' = "stating" /\ given' = path
      /\ answer' = [error |-> "none", output |-> "unset", about |-> Nothing]
      /\ UNCHANGED <<links, contents, purpose, found, value, held, accepted, opened, named>>
  BY DEF Ask, Begin, NoAnswer, host
<1>2. TypeOK'
  BY <1>1 DEF IInv, TypeOK
<1>3. PluginKept'
  BY <1>1 DEF IInv, PluginKept, IsFrameworkExecutable
<1>4. PropertyKept' /\ TruthfulLocality'
  BY <1>1 DEF IInv, PropertyKept, TruthfulLocality, IsBoolean
<1> QED
  BY <1>2, <1>3, <1>4 DEF IInv

LEMMA AnswerStep ==
  ASSUME IInv, NEW error \in {"none", "failed"}, NEW output \in {"unset", "local", "remote"},
         Answer(error, output),
         error = "none" => found \in Locations /\ output = Locality[found],
         error = "failed" => output = "unset"
  PROVE  IInv'
<1>1. held' = {}
  BY DEF Answer, Releases
<1>2. /\ pc' = "idle" /\ given' = NoPath /\ found' = Nothing /\ value' = "none"
      /\ answer' = [error |-> error, output |-> output, about |-> found]
      /\ UNCHANGED <<links, contents, purpose, accepted, opened, named>>
  BY DEF Answer, Return, host
<1>3. TypeOK'
  BY <1>1, <1>2 DEF IInv, TypeOK
<1>4. PluginKept' /\ PropertyKept'
  BY <1>1, <1>2 DEF IInv, PluginKept, PropertyKept, IsFrameworkExecutable
<1>5. TruthfulLocality'
  BY <1>2 DEF TruthfulLocality
<1> QED
  BY <1>3, <1>4, <1>5 DEF IInv

LEMMA FailQueryStep == IInv /\ FailQuery => IInv'
BY AnswerStep DEF FailQuery

LEMMA StatPathStep == IInv /\ StatPath => IInv'
<1> SUFFICES ASSUME IInv, StatPath PROVE IInv'
  OBVIOUS
<1>1. /\ pc = "stating" /\ pc' = "property" /\ given # NoPath /\ held' = {"url"}
      /\ UNCHANGED <<links, contents, purpose, given, found, value, accepted, opened, answer, named>>
  BY DEF StatPath, Step, Exists, host
<1>2. TypeOK'
  BY <1>1 DEF IInv, TypeOK
<1>3. PluginKept'
  BY <1>1 DEF IInv, PluginKept, IsFrameworkExecutable
<1>4. PropertyKept' /\ TruthfulLocality'
  BY <1>1 DEF IInv, PropertyKept, TruthfulLocality, IsBoolean
<1> QED
  BY <1>2, <1>3, <1>4 DEF IInv

LEMMA CopyPropertyStep == IInv /\ CopyProperty => IInv'
<1> SUFFICES ASSUME IInv, CopyProperty PROVE IInv'
  OBVIOUS
<1> DEFINE l == Canonical(given)
<1>1. given \in Aliases \union Locations
  BY DEF CopyProperty, IInv, TypeOK, PropertyKept
<1>2. l \in Locations /\ Locality[l] \in {"local", "remote"}
  BY <1>1, CanonicalIsLocation, QueriesAssumption DEF IInv
<1>3. /\ found' = l /\ pc' = "reading" /\ pc = "property"
      /\ value' \in {"none", "failed", "other", Locality[l]}
      /\ held' \in {{}, {"value"}}
      /\ UNCHANGED <<links, contents, purpose, given, accepted, opened, answer, named>>
  BY DEF CopyProperty, host, outputs
<1> HIDE DEF l
<1>4. TypeOK'
  BY <1>2, <1>3 DEF IInv, TypeOK
<1>5. PluginKept'
  BY <1>3 DEF IInv, PluginKept, IsFrameworkExecutable
<1>6. PropertyKept' /\ TruthfulLocality'
  BY <1>2, <1>3 DEF IInv, PropertyKept, TruthfulLocality, IsBoolean
<1> QED
  BY <1>4, <1>5, <1>6 DEF IInv

LEMMA ReadPropertyStep == IInv /\ ReadProperty => IInv'
<1> SUFFICES ASSUME IInv, ReadProperty PROVE IInv'
  OBVIOUS
<1>1. CASE IsBoolean(value)
  <2>1. Answer("none", value) /\ found \in Locations /\ value = Locality[found]
        /\ value \in {"unset", "local", "remote"}
    BY <1>1 DEF ReadProperty, IInv, PropertyKept, IsBoolean
  <2> QED
    BY <2>1, AnswerStep
<1>2. CASE ~IsBoolean(value)
  BY <1>2, AnswerStep DEF ReadProperty
<1> QED
  BY <1>1, <1>2

LEMMA AskDescriptorStep ==
  ASSUME IInv, NEW l \in Locations, AskDescriptor(l)
  PROVE  IInv'
<1>1. PICK r \in Replies(l) :
        answer' = [error |-> IF IsReadable(r) THEN "none" ELSE "failed",
                   output |-> IF IsReadable(r) THEN r.volume ELSE "unset", about |-> l]
  BY DEF AskDescriptor
<1>2. IsReadable(r) => r.volume = Locality[l]
  BY DEF Replies, IsReadable
<1>3. Locality[l] \in {"local", "remote"}
  BY QueriesAssumption
<1>4. UNCHANGED <<links, contents, pc, purpose, given, found, value, held, accepted, opened, named>>
  BY DEF AskDescriptor, host, query
<1>5. answer' \in [error : {"none", "failed"}, output : {"unset", "local", "remote"},
                   about : Locations \union {Nothing}]
  BY <1>1, <1>2, <1>3
<1>6. TypeOK'
  BY <1>4, <1>5 DEF IInv, TypeOK
<1>7. PluginKept' /\ PropertyKept'
  BY <1>4 DEF IInv, PluginKept, PropertyKept, IsFrameworkExecutable, IsBoolean
<1>8. TruthfulLocality'
  BY <1>1, <1>2 DEF TruthfulLocality
<1> QED
  BY <1>6, <1>7, <1>8 DEF IInv

(* The inductive invariant holds in every reachable state.                 *)
THEOREM QueriesInvariant == Spec => []IInv
<1>1. Init => IInv
  BY InitIInv
<1>2. IInv /\ [Next]_vars => IInv'
  BY RelinkStep, ReplaceStep, StutterStep, ParseArgumentStep, LoadLibraryStep, RefuseStep,
     ResolvePathStep, CheckLayoutStep, AcceptArgumentStep, AcceptLoadStep, OpenStep, AskStep,
     FailQueryStep, StatPathStep, CopyPropertyStep, ReadPropertyStep, AskDescriptorStep
     DEF Next
<1> QED
  BY <1>1, <1>2, PTL DEF Spec

(* A query that has returned has released what it was given, on every path *)
(* (AppleFileSystemMetadata.cpp 33-54).                                    *)
THEOREM QueriesTypes == Spec => []TypeOK
<1>1. IInv => TypeOK
  BY DEF IInv
<1> QED
  BY <1>1, QueriesInvariant, PTL

(* No error and no reply is taken for a volume that it does not describe   *)
(* (AppleFileSystemMetadata.cpp 40-73).                                    *)
THEOREM LocalityIsTruthful == Spec => []TruthfulLocality
<1>1. IInv => TruthfulLocality
  BY DEF IInv
<1> QED
  BY <1>1, QueriesInvariant, PTL

(* Wherever links are turned to, and whatever is replaced outside of the   *)
(* bundle, the loader opens what was accepted, or fails                    *)
(* (BundledPluginPolicy.cpp 22-33).                                        *)
THEOREM PluginIsTheAccepted == Spec => OpensAcceptedPlugin
<1>1. ASSUME IInv, [Next]_vars
      PROVE  pc = "opening" /\ pc' = "idle" /\ opened' # Nothing =>
               opened' = named /\ IsFrameworkExecutable(opened')
  <2> SUFFICES ASSUME pc = "opening", pc' = "idle", opened' # Nothing
               PROVE  opened' = named /\ IsFrameworkExecutable(opened')
    OBVIOUS
  <2>1. Open
    BY <1>1
       DEF Next, vars, query, outputs, Relink, Replace, ParseArgument, Ask, Begin, LoadLibrary,
           Refuse, ResolvePath, Step, CheckLayout, AcceptArgument, AcceptLoad, FailQuery, StatPath,
           CopyProperty, ReadProperty, AskDescriptor
  <2> QED
    BY <1>1, <2>1, OpenIsAccepted
<1>2. IInv /\ [Next]_vars =>
        [ pc = "opening" /\ pc' = "idle" /\ opened' # Nothing =>
            opened' = named /\ IsFrameworkExecutable(opened') ]_vars
  BY <1>1
<1> QED
  BY <1>2, QueriesInvariant, PTL DEF Spec, OpensAcceptedPlugin
=============================================================================
