---------------------------- MODULE ProducerCache ----------------------------
(***************************************************************************)
(* The producer cache and its receipts.  A native build of one platform    *)
(* compiles the compiler support modules, links the bridge against them    *)
(* and, after the link, records a receipt of the inputs and of the files   *)
(* (CacheManifest.cmake, RecordNativeCache.cmake).  The macro build        *)
(* verifies that receipt, links the macro libraries against the native     *)
(* ones and records a receipt of its own (BuildMacros.cmake).  Packaging   *)
(* verifies both receipts of each platform and copies the files            *)
(* (PrepareNativeFrameworks.cmake).  One command runs at a time; any of    *)
(* them may fail or be killed between two steps, and the developer edits   *)
(* the repository.  A file is its provenance: what it was built from.      *)
(***************************************************************************)
EXTENDS Naturals, Sequences

CONSTANTS
  Platforms,      (* in the order of packaging, a sequence                  *)
  Versions,       (* the contents that an input can have                    *)
  MacroFiles,     (* the macro libraries, in the order of their build       *)
  None,           (* a file that does not exist                             *)
  EditsAnyTime,   (* the developer also edits while a command runs          *)
  MaxEdits        (* bound: how many edits are considered                   *)

PlatformSet == { Platforms[n] : n \in 1..Len(Platforms) }

(* What a library on disk was linked from, and what a receipt records.     *)
Linked == [support : Versions, object : Versions]
Contents == [support : Versions, bridge : Linked]
Receipts ==
  [identity : [support : Versions, bridge : Versions, recipe : Versions],
   files : Contents, complete : BOOLEAN]

ASSUME ProducerAssumption ==
  /\ EditsAnyTime \in BOOLEAN
  /\ MaxEdits \in Nat
  /\ Len(Platforms) \in Nat \ {0}
  /\ Len(MacroFiles) \in Nat \ {0}
  /\ None \notin Linked \union Receipts

(* What the native identity hashes, by what an edit of it leads to: other  *)
(* support modules, other bridge objects, or nothing, as for a recipe that *)
(* no build rule depends on.  The macro inputs only matter to the macros.  *)
Inputs == {"support", "bridge", "recipe", "macro"}

VARIABLES
  inputs,        (* the contents of the repository                         *)
  edits,
  step,          (* where the running command is                           *)
  current,       (* which platform it works on                             *)
  next,          (* the macro library to build or the platform to package  *)
  object,        (* the bridge's inputs when the running build compiled    *)
  support,       (* per platform: the support modules on disk              *)
  bridge,        (* per platform: the bridge library on disk               *)
  linked,        (* per platform: the build system has logged the link     *)
  receipt,       (* per platform: NativeArtifacts.json                     *)
  macros,        (* per platform: the macro libraries on disk              *)
  macroReceipt,  (* per platform: MacroArtifacts.json                      *)
  finished,      (* history, per platform: the last build came to its end  *)
                 (* and nothing was edited since                           *)
  copies,        (* what the running packaging has copied                  *)
  package        (* history: the last package, with the inputs it was for  *)

native == <<support, bridge, linked, receipt>>
macro == <<macros, macroReceipt>>
vars == <<inputs, edits, step, current, next, object, native, macro, finished, copies, package>>

Init ==
  /\ inputs \in [Inputs -> Versions]
  /\ \A i, j \in Inputs : inputs[i] = inputs[j]
  /\ edits = 0
  /\ step = "idle"
  /\ current = Platforms[1]
  /\ next = 1
  /\ object = None
  /\ support = [p \in PlatformSet |-> None]
  /\ bridge = [p \in PlatformSet |-> None]
  /\ linked = [p \in PlatformSet |-> FALSE]
  /\ receipt = [p \in PlatformSet |-> None]
  /\ macros = [p \in PlatformSet |-> [n \in 1..Len(MacroFiles) |-> None]]
  /\ macroReceipt = [p \in PlatformSet |-> None]
  /\ finished = [p \in PlatformSet |-> FALSE]
  /\ copies = <<>>
  /\ package = None

-----------------------------------------------------------------------------
(* Receipts.                                                               *)

(* toolchain_native_identity                                               *)
NativeIdentity ==
  [support |-> inputs["support"], bridge |-> inputs["bridge"], recipe |-> inputs["recipe"]]

(* The files that toolchain_native_files lists.                            *)
NativeFiles(p) == [support |-> support[p], bridge |-> bridge[p]]

(* Mutant: the files are not hashed again.                                 *)
VerifiesIdentityOnly(p) ==
  /\ receipt[p] # None
  /\ receipt[p].complete
  /\ receipt[p].identity = NativeIdentity

(* toolchain_verify_cache for the native files; a receipt without          *)
(* provenance fails when ArtifactInputs.cmake reads it.                    *)
VerifiesNative(p) ==
  /\ receipt[p] # None
  /\ receipt[p].complete
  /\ receipt[p].identity = NativeIdentity
  /\ receipt[p].files = NativeFiles(p)

(* Mutant: the macro receipt does not name the native one.                 *)
MacroInputsOnly(p) == [native |-> None, macro |-> inputs["macro"]]

MacroIdentity(p) == [native |-> receipt[p], macro |-> inputs["macro"]]

VerifiesMacros(p) ==
  /\ macroReceipt[p] # None
  /\ macroReceipt[p].identity = MacroIdentity(p)
  /\ macroReceipt[p].files = macros[p]

-----------------------------------------------------------------------------
(* The developer.                                                          *)

Edit(i, v) ==
  /\ EditsAnyTime \/ step = "idle"
  /\ edits < MaxEdits
  /\ inputs[i] # v
  /\ inputs' = [inputs EXCEPT ![i] = v]
  /\ edits' = edits + 1
  /\ finished' = [p \in PlatformSet |-> FALSE]
  /\ UNCHANGED <<step, current, next, object, native, macro, copies, package>>

(* A command fails, or is killed; what it wrote so far stays.              *)
Abort ==
  /\ step # "idle"
  /\ step' = "idle"
  /\ next' = 1
  /\ object' = None
  /\ copies' = <<>>
  /\ UNCHANGED <<inputs, edits, current, native, macro, finished, package>>

-----------------------------------------------------------------------------
(* The native build.                                                       *)

StartBuild(p) ==
  /\ step = "idle"
  /\ step' = "support"
  /\ current' = p
  /\ finished' = [finished EXCEPT ![p] = FALSE]
  /\ package' = None
  /\ UNCHANGED <<inputs, edits, next, object, native, macro, copies>>

BuildSupport ==
  /\ step = "support"
  /\ step' = "compile"
  /\ support' = [support EXCEPT ![current] = inputs["support"]]
  /\ UNCHANGED <<inputs, edits, current, next, object, bridge, linked, receipt, macro,
                 finished, copies, package>>

Compile ==
  /\ step = "compile"
  /\ step' = "link"
  /\ object' = inputs["bridge"]
  /\ UNCHANGED <<inputs, edits, current, next, native, macro, finished, copies, package>>

(* Mutant: the link does not depend on the support modules.                *)
ObjectsChanged == linked[current] => bridge[current].object # object

(* The link edge runs when it never succeeded with these very objects and  *)
(* support modules (LINK_DEPENDS).                                         *)
NeedsLink ==
  \/ ~linked[current]
  \/ bridge[current] # [support |-> support[current], object |-> object]

Link ==
  /\ step = "link"
  /\ NeedsLink
  /\ step' = "record"
  /\ bridge' = [bridge EXCEPT ![current] = [support |-> support[current], object |-> object]]
  /\ linked' = [linked EXCEPT ![current] = FALSE]
  /\ UNCHANGED <<inputs, edits, current, next, object, support, receipt, macro, finished,
                 copies, package>>

NothingToLink ==
  /\ step = "link"
  /\ ~NeedsLink
  /\ step' = "idle"
  /\ object' = None
  /\ finished' = [finished EXCEPT ![current] = TRUE]
  /\ UNCHANGED <<inputs, edits, current, next, native, macro, copies, package>>

(* toolchain_record_cache hashes the inputs and the files as they are now. *)
Record ==
  /\ step = "record"
  /\ step' = "provenance"
  /\ receipt' = [receipt EXCEPT ![current] =
       [identity |-> NativeIdentity, files |-> NativeFiles(current), complete |-> FALSE]]
  /\ UNCHANGED <<inputs, edits, current, next, object, support, bridge, linked, macro,
                 finished, copies, package>>

(* Mutant: the second receipt stays under its temporary name.              *)
LeaveProvenance ==
  /\ step = "provenance"
  /\ step' = "idle"
  /\ object' = None
  /\ linked' = [linked EXCEPT ![current] = TRUE]
  /\ finished' = [finished EXCEPT ![current] = TRUE]
  /\ UNCHANGED <<inputs, edits, current, next, support, bridge, receipt, macro, copies, package>>

(* RecordNativeCache.cmake replaces the receipt by one with the            *)
(* provenance; only then has the link edge succeeded.                      *)
AddProvenance ==
  /\ step = "provenance"
  /\ step' = "idle"
  /\ object' = None
  /\ receipt' = [receipt EXCEPT ![current].complete = TRUE]
  /\ linked' = [linked EXCEPT ![current] = TRUE]
  /\ finished' = [finished EXCEPT ![current] = TRUE]
  /\ UNCHANGED <<inputs, edits, current, next, support, bridge, macro, copies, package>>

-----------------------------------------------------------------------------
(* The macro build.                                                        *)

StartMacros(p) ==
  /\ step = "idle"
  /\ VerifiesNative(p)
  /\ step' = "macros"
  /\ current' = p
  /\ next' = 1
  /\ package' = None
  /\ UNCHANGED <<inputs, edits, object, native, macro, finished, copies>>

BuildMacro ==
  /\ step = "macros"
  /\ next <= Len(MacroFiles)
  /\ macros' = [macros EXCEPT ![current][next] =
       [native |-> NativeFiles(current), macro |-> inputs["macro"]]]
  /\ next' = next + 1
  /\ UNCHANGED <<inputs, edits, step, current, object, native, macroReceipt, finished,
                 copies, package>>

RecordMacros ==
  /\ step = "macros"
  /\ next > Len(MacroFiles)
  /\ macroReceipt' = [macroReceipt EXCEPT ![current] =
       [identity |-> MacroIdentity(current), files |-> macros[current]]]
  /\ step' = "idle"
  /\ next' = 1
  /\ UNCHANGED <<inputs, edits, current, object, native, macros, finished, copies, package>>

-----------------------------------------------------------------------------
(* Packaging.                                                              *)

StartPackage ==
  /\ step = "idle"
  /\ step' = "packaging"
  /\ next' = 1
  /\ package' = None
  /\ UNCHANGED <<inputs, edits, current, object, native, macro, finished, copies>>

(* A platform whose receipts fail ends the command, like any other error.  *)
PackagePlatform ==
  /\ step = "packaging"
  /\ next <= Len(Platforms)
  /\ LET p == Platforms[next]
     IN /\ VerifiesNative(p) /\ VerifiesMacros(p)
        /\ copies' = Append(copies, [native |-> NativeFiles(p), macros |-> macros[p]])
  /\ next' = next + 1
  /\ UNCHANGED <<inputs, edits, step, current, object, native, macro, finished, package>>

FinishPackage ==
  /\ step = "packaging"
  /\ next > Len(Platforms)
  /\ package' = [copies |-> copies, inputs |-> inputs]
  /\ step' = "idle"
  /\ next' = 1
  /\ copies' = <<>>
  /\ UNCHANGED <<inputs, edits, current, object, native, macro, finished>>

Next ==
  \/ \E i \in Inputs, v \in Versions : Edit(i, v)
  \/ Abort
  \/ \E p \in PlatformSet : StartBuild(p) \/ StartMacros(p)
  \/ BuildSupport \/ Compile \/ Link \/ NothingToLink \/ Record \/ AddProvenance
  \/ BuildMacro \/ RecordMacros
  \/ StartPackage \/ PackagePlatform \/ FinishPackage

Spec == Init /\ [][Next]_vars

-----------------------------------------------------------------------------
(* Properties.                                                             *)

(* The native files that the inputs at hand lead to.                       *)
FilesOf(content) ==
  [support |-> content["support"],
   bridge |-> [support |-> content["support"], object |-> content["bridge"]]]

(* A link that the build system has logged left a library and a receipt    *)
(* with its provenance.                                                    *)
TypeOK ==
  /\ inputs \in [Inputs -> Versions]
  /\ edits \in 0..MaxEdits
  /\ step \in {"idle", "support", "compile", "link", "record", "provenance", "macros",
               "packaging"}
  /\ current \in PlatformSet
  /\ next \in Nat
  /\ object \in Versions \union {None}
  /\ support \in [PlatformSet -> Versions \union {None}]
  /\ bridge \in [PlatformSet -> Linked \union {None}]
  /\ receipt \in [PlatformSet -> Receipts \union {None}]
  /\ linked \in [PlatformSet -> BOOLEAN]
  /\ \A p \in PlatformSet :
       linked[p] => bridge[p] # None /\ receipt[p] # None /\ receipt[p].complete
  /\ finished \in [PlatformSet -> BOOLEAN]

(* A receipt that packaging accepts vouches for files that were built from *)
(* the inputs at hand, whatever was edited, reverted, half built or killed *)
(* before ("A post-link manifest cannot silently bless a cache that        *)
(* packaging reads without a rebuild", Sources/CompilerBridge/             *)
(* CMakeLists.txt 28).                                                     *)
VouchesForCurrent ==
  \A p \in PlatformSet : VerifiesNative(p) => NativeFiles(p) = FilesOf(inputs)

(* After a build that came to its end, packaging accepts the cache, also   *)
(* when only the support modules changed (CMakeLists.txt 41-47), unless a  *)
(* recipe changed that no build rule depends on.                           *)
FinishedBuildVerifies ==
  \A p \in PlatformSet :
    finished[p] /\ receipt[p].identity.recipe = inputs["recipe"] => VerifiesNative(p)

(* Every platform of a package was built from the same inputs, those of    *)
(* the packaging, and all its macro libraries were linked against the very *)
(* native libraries beside them (Docs/Artifacts.md 81-83).                 *)
PackageIsCurrent ==
  package # None =>
    \A n \in 1..Len(Platforms) :
      /\ package.copies[n].native = FilesOf(package.inputs)
      /\ \A m \in 1..Len(MacroFiles) :
           package.copies[n].macros[m] =
             [native |-> package.copies[n].native, macro |-> package.inputs["macro"]]
=============================================================================
