------------------------ MODULE ArtifactVerification ------------------------
(***************************************************************************)
(* The verification of a package (VerifyArtifacts.cmake) in an output      *)
(* directory that outlives it.  Packaging hashes each file, lets Xcode     *)
(* combine the two slices and zips the result; the manifest records both   *)
(* hashes.  The directory may come to hold files of two releases, by a     *)
(* copy that stopped half way.  The verification may stop anywhere, and    *)
(* its Verification directory stays for the next one.  A file is what it   *)
(* was made from and what has happened to it; a digest is the file.        *)
(***************************************************************************)
EXTENDS Naturals, Sequences, ModuleCompression

CONSTANTS
  Releases,          (* what packaging has made at one time or another      *)
  Legacy,            (* the releases without the guest records and the      *)
                     (* Foundation macros, whose modules are in Base64      *)
  Modules,           (* the serialized modules of the SDK, a sequence       *)
  Bridge, SDK,
  MacroBuildSupport, (* names of the archives                               *)
  Pinned,            (* the origin of a file that is the same in every      *)
                     (* release, since it comes from the pinned inputs      *)
  Faults,            (* what may be wrong with a package, see FaultSet      *)
  None

Slices == <<"ios-arm64", "ios-arm64-simulator">>
SliceSet == { Slices[s] : s \in 1..2 }
ModuleSet == { Modules[m] : m \in 1..Len(Modules) }
Archives == {Bridge, SDK, MacroBuildSupport}
SupportContents == {"compatibility", "support modules", "support libraries"}
Kinds == {"binary", "privacy", "notices", "builtins", "foundation", "sources"} \union SupportContents

(* A file is whole, changed after it was hashed, cut short or extended by  *)
(* a byte, or larger once decoded; or packaging already took it in a form  *)
(* that no consumer can use, or with sources of one slice only.            *)
Forms == {"whole", "changed", "short", "long", "larger", "unfit", "differs"}

(* The executables and libraries are inspected for their use, and so is    *)
(* the environment that the macro support says it targets.                 *)
Inspected == {"binary", "compatibility", "support libraries"}
FaultSet ==
  { f \in [archive : Archives, file : SliceSet \X (Kinds \union ModuleSet),
           form : (Forms \ {"whole"}) \union {"lost"}] :
      f.form = "unfit" => f.file[2] \in Inspected }

ASSUME VerificationAssumption ==
  /\ Legacy \subseteq Releases
  /\ Modules \in Seq(ModuleSet) /\ Modules # <<>>
  /\ Bridge # SDK /\ MacroBuildSupport \notin {Bridge, SDK}
  /\ ModuleSet \intersect Kinds = {}
  /\ Pinned \notin Releases
  /\ None \notin Releases \union Faults
  /\ Faults \subseteq FaultSet

VARIABLES
  fault,      (* per release: what went wrong when it was packaged         *)
  manifest,   (* the release whose manifest lies in the directory          *)
  archives,   (* per name: the release whose archive lies in the directory *)
  extracted,  (* per archive: the files of its working directory           *)
  decoded,    (* Verification/decoded-module                               *)
  phase, at, slice,
  leftover    (* history: decoded-module lay there when this run started   *)

directory == <<manifest, archives>>
vars == <<fault, directory, extracted, decoded, phase, at, slice, leftover>>

(* The frameworks that the manifest lists, in its order.  The others in it *)
(* are checked like the bridge, but for its privacy declaration.           *)
Names == <<Bridge, SDK>>

(* The files that packaging puts into each archive, and that somebody      *)
(* looks at, in both slices.                                               *)
BridgeFiles == {"binary", "privacy"}
SDKFiles(r) ==
  {"binary", "notices"} \union ModuleSet
    \union (IF r \in Legacy THEN {} ELSE {"builtins", "foundation"})
SupportFiles(r) == SupportContents \union (IF r \in Legacy THEN {} ELSE {"sources"})
Contents(r, name) ==
  SliceSet \X (CASE name = Bridge -> BridgeFiles
                 [] name = SDK -> SDKFiles(r)
                 [] name = MacroBuildSupport -> SupportFiles(r))

FromPinnedInputs(r) ==
  {"privacy", "notices", "sources"} \union (IF r \in Legacy THEN {} ELSE ModuleSet)
Origin(r, file) == IF file[2] \in FromPinnedInputs(r) THEN Pinned ELSE r

Form(r, name, file) ==
  IF fault[r] # None /\ fault[r].archive = name /\ fault[r].file = file
  THEN fault[r].form ELSE "whole"

(* What is in the archive, and what was hashed file by file before.        *)
Packaged(r, name) ==
  [file \in { f \in Contents(r, name) : Form(r, name, f) # "lost" } |->
     [from |-> Origin(r, file), form |-> Form(r, name, file)]]
Staged(r, name, file) ==
  [from |-> Origin(r, file),
   form |-> IF Form(r, name, file) = "unfit" THEN "unfit" ELSE "whole"]

Init ==
  /\ fault \in [Releases -> Faults \union {None}]
  /\ \A r \in Releases :
       fault[r] # None => /\ fault[r].file \in Contents(r, fault[r].archive)
                          /\ \A other \in Releases \ {r} : fault[other] = None
  /\ manifest \in Releases
  /\ archives = [name \in Archives |-> manifest]
  /\ extracted = [name \in Archives |-> <<>>]
  /\ decoded = None
  /\ phase = "idle"
  /\ at = 1
  /\ slice = 1
  /\ leftover = FALSE

-----------------------------------------------------------------------------
(* Between verifications no loop of theirs has a position.                 *)
Between == {"idle", "accepted", "rejected"}
End(result) == phase' = result /\ at' = 1 /\ slice' = 1

(* A file of another release replaces the one that lies there.             *)
CopyManifest(r) ==
  /\ phase \in Between
  /\ manifest' = r
  /\ End("idle")
  /\ leftover' = FALSE
  /\ UNCHANGED <<fault, archives, extracted, decoded>>

CopyArchive(r, name) ==
  /\ phase \in Between
  /\ archives' = [archives EXCEPT ![name] = r]
  /\ End("idle")
  /\ leftover' = FALSE
  /\ UNCHANGED <<fault, manifest, extracted, decoded>>

(* The verification reads the manifest.  Its directory is made if there is *)
(* none, and is not emptied if there is.                                   *)
Start ==
  /\ phase \in Between
  /\ phase' = "archive"
  /\ leftover' = (decoded # None)
  /\ UNCHANGED <<fault, directory, extracted, decoded, at, slice>>

Name == Names[at]

(* A check that fails ends the verification and leaves everything else.    *)
Check(condition, following) ==
  /\ IF condition THEN phase' = following /\ UNCHANGED <<at, slice>> ELSE End("rejected")
  /\ UNCHANGED <<fault, directory, extracted, decoded, leftover>>

(* The digest and the size in the manifest, against the archive's.         *)
Genuine(name) ==
  Packaged(archives[name], name) = Packaged(manifest, name)

CheckArchive == phase = "archive" /\ Check(Genuine(Name), "extract")

(* Mutant: extraction into what is there.                                  *)
ExtractOver(name) ==
  LET archive == Packaged(archives[name], name)
      working == extracted[name]
  IN extracted' = [extracted EXCEPT ![name] =
       [f \in DOMAIN archive \union DOMAIN working |->
          IF f \in DOMAIN archive THEN archive[f] ELSE working[f]]]

(* The files of an earlier extraction are removed first.                   *)
Extract(name) ==
  extracted' = [extracted EXCEPT ![name] = Packaged(archives[name], name)]

ExtractArchive ==
  /\ phase = "extract"
  /\ Extract(Name)
  /\ phase' = "slices"
  /\ UNCHANGED <<fault, directory, decoded, at, slice, leftover>>

(* The executable passes the inspection of its platform, exports, imports, *)
(* install name and dependencies; a library that of its architecture and   *)
(* minimum OS, and the metadata that of its schema, host and Swift version.*)
Usable(file) == file.form # "unfit"

(* A slice's executable has its recorded digest, and the bridge's privacy  *)
(* declaration is the one in the repository.                               *)
SliceAccepted(name, s) ==
  LET files == extracted[name]
      binary == <<s, "binary">>
      privacy == <<s, "privacy">>
  IN /\ binary \in DOMAIN files
     /\ Usable(files[binary])
     /\ files[binary] = Staged(manifest, name, binary)
     /\ name = Bridge => /\ privacy \in DOMAIN files
                         /\ files[privacy] = Staged(manifest, name, privacy)

CheckSlices ==
  /\ phase = "slices"
  /\ IF \A s \in SliceSet : SliceAccepted(Name, s)
     THEN IF at < Len(Names)
          THEN phase' = "archive" /\ at' = at + 1 /\ UNCHANGED slice
          ELSE phase' = "payload" /\ at' = 1 /\ UNCHANGED slice
     ELSE End("rejected")
  /\ UNCHANGED <<fault, directory, extracted, decoded, leftover>>

(* The SDK's payload in one slice, and the files in it that the manifest   *)
(* or an inventory in the payload itself records.                          *)
Payload == extracted[SDK]
InPayload(kind) == <<Slices[slice], kind>>
Recorded == IF manifest \in Legacy THEN {} ELSE {"builtins", "foundation"}
HasRecorded(kind) ==
  /\ InPayload(kind) \in DOMAIN Payload
  /\ Payload[InPayload(kind)] = Staged(manifest, SDK, InPayload(kind))
NoticesAccepted == HasRecorded("notices")
RecordsAccepted == \A kind \in Recorded : HasRecorded(kind)

CheckPayload == phase = "payload" /\ Check(NoticesAccepted /\ RecordsAccepted, "decode")

(* The encoded module by lengths.  The numbers are of no consequence, only *)
(* whether there is a byte more or less than there should be.              *)
ModuleBytes == 1
Resource(form) ==
  [bytes |-> CASE form = "short" -> 2 [] form = "long" -> 4 [] OTHER -> 3,
   stream |-> 3,
   decoded |-> IF form = "larger" THEN ModuleBytes + 1 ELSE ModuleBytes]

(* A Base64 text may end one byte early or late with a line feed, which    *)
(* its decoder leaves out.                                                 *)
RestoredForms(form) ==
  CASE form = "whole" -> {"whole"}
    [] form = "long" /\ manifest \notin Legacy -> {"whole"}
    [] form \in {"short", "long"} /\ manifest \in Legacy -> {"whole", "changed"}
    [] OTHER -> {"changed"}
Restored(content) == [from : {content.from}, form : RestoredForms(content.form)]

(* The codec refuses to overwrite its output; base64 does not.             *)
Decodable(file) ==
  /\ file \in DOMAIN Payload
  /\ manifest \notin Legacy => /\ Decodes(Resource(Payload[file].form), ModuleBytes)
                               /\ decoded = None

DecodeModule ==
  LET file == InPayload(Modules[at])
  IN /\ phase = "decode"
     /\ IF Decodable(file)
        THEN phase' = "compare" /\ decoded' \in Restored(Payload[file]) /\ UNCHANGED <<at, slice>>
        ELSE End("rejected") /\ UNCHANGED decoded
     /\ UNCHANGED <<fault, directory, extracted, leftover>>

(* After the last module, the other slice's payload or the macro support.  *)
NextModule ==
  IF at < Len(Modules)
  THEN phase' = "decode" /\ at' = at + 1 /\ UNCHANGED slice
  ELSE /\ at' = 1
       /\ IF slice = 1 THEN phase' = "payload" /\ slice' = 2
                       ELSE phase' = "support" /\ UNCHANGED slice

(* Mutant: the decoded file is not removed.                                *)
Kept == decoded

Removed == None

(* A digest that differs ends the run before the file is removed.          *)
CompareModule ==
  /\ phase = "compare"
  /\ IF decoded = Staged(manifest, SDK, InPayload(Modules[at]))
     THEN NextModule /\ decoded' = Removed
     ELSE End("rejected") /\ UNCHANGED decoded
  /\ UNCHANGED <<fault, directory, extracted, leftover>>

CheckSupport == phase = "support" /\ Check(Genuine(MacroBuildSupport), "unpack")

ExtractSupport ==
  /\ phase = "unpack"
  /\ Extract(MacroBuildSupport)
  /\ phase' = "environments"
  /\ UNCHANGED <<fault, directory, decoded, at, slice, leftover>>

(* Each slice targets this release's environment and has the modules and   *)
(* libraries; the Foundation macros' sources are there and are the same.   *)
(* The modules are only looked for, and none of these has a digest.        *)
SupportAccepted ==
  LET files == extracted[MacroBuildSupport]
  IN /\ \A s \in SliceSet, kind \in SupportContents : <<s, kind>> \in DOMAIN files
     /\ \A s \in SliceSet, kind \in SupportContents \intersect Inspected :
          Usable(files[<<s, kind>>])
     /\ manifest \notin Legacy =>
          /\ \A s \in SliceSet : <<s, "sources">> \in DOMAIN files
          /\ files[<<Slices[1], "sources">>] = files[<<Slices[2], "sources">>]

CheckEnvironments ==
  /\ phase = "environments"
  /\ End(IF SupportAccepted THEN "accepted" ELSE "rejected")
  /\ UNCHANGED <<fault, directory, extracted, decoded, leftover>>

(* The command is killed, or a tool that it calls fails, perhaps between   *)
(* the removal of a directory and the extraction into it, or while the     *)
(* codec writes its output.                                                *)
Interrupt(name) == extracted' = [extracted EXCEPT ![name] = <<>>] /\ UNCHANGED decoded
Abort ==
  /\ phase \notin Between
  /\ \/ UNCHANGED <<extracted, decoded>>
     \/ phase = "extract" /\ Interrupt(Name)
     \/ phase = "unpack" /\ Interrupt(MacroBuildSupport)
     \/ /\ phase = "decode"
        /\ Decodable(InPayload(Modules[at]))
        /\ decoded' = [from |-> Payload[InPayload(Modules[at])].from, form |-> "changed"]
        /\ UNCHANGED extracted
  /\ End("idle")
  /\ leftover' = FALSE
  /\ UNCHANGED <<fault, directory>>

Verify ==
  \/ Start \/ CheckArchive \/ ExtractArchive \/ CheckSlices
  \/ CheckPayload \/ DecodeModule \/ CompareModule
  \/ CheckSupport \/ ExtractSupport \/ CheckEnvironments

Next ==
  \/ Verify
  \/ Abort
  \/ \E r \in Releases : CopyManifest(r) \/ \E name \in Archives : CopyArchive(r, name)

Spec == Init /\ [][Next]_vars

-----------------------------------------------------------------------------
(* Everything keeps its type, and the positions stay within their lists.   *)
Content == [from : Releases \union {Pinned}, form : Forms]
TypeOK ==
  /\ fault \in [Releases -> Faults \union {None}]
  /\ manifest \in Releases
  /\ archives \in [Archives -> Releases]
  /\ \A name \in Archives :
       \A f \in DOMAIN extracted[name] :
         /\ f \in SliceSet \X (Kinds \union ModuleSet)
         /\ extracted[name][f] \in Content
  /\ decoded \in Content \union {None}
  /\ phase \in Between \union {"archive", "extract", "slices", "payload", "decode", "compare",
                               "support", "unpack", "environments"}
  /\ at \in Nat \ {0}
  /\ phase \in {"archive", "extract", "slices"} => at <= Len(Names)
  /\ phase \in {"payload", "decode", "compare"} => at <= Len(Modules)
  /\ slice \in 1..2
  /\ leftover \in BOOLEAN

(* The archives in the directory are those of the manifest, or no         *)
(* different from them.                                                    *)
OneRelease ==
  /\ \A n \in 1..Len(Names) : Genuine(Names[n])
  /\ Genuine(MacroBuildSupport)

(* What packaging may have spoiled without a record or an inspection that  *)
(* tells: the content of the macro support, but for its sources; and with  *)
(* Base64, a byte at the end of a module's text.                           *)
Unrecorded ==
  { f \in Faults : /\ f.archive = MacroBuildSupport
                   /\ f.file[2] \in SupportContents
                   /\ f.form \notin {"lost", "unfit"} }
LineFeeds(r) ==
  { f \in Faults : /\ r \in Legacy
                   /\ f.archive = SDK /\ f.file[2] \in ModuleSet
                   /\ f.form \in {"short", "long"} }

(* What verification accepts is of one release, with every recorded file   *)
(* as packaging hashed it and every inspected one fit for use, whatever    *)
(* earlier runs of it, over other packages, have left in its directory     *)
(* (VerifyArtifacts.cmake 46-49 and 228-231 remove it): no stale file      *)
(* vouches for a lost one.                                                 *)
AcceptedIsIntact ==
  phase = "accepted" =>
    OneRelease /\ fault[manifest] \in {None} \union Unrecorded \union LineFeeds(manifest)

(* What it rejects is of two releases or has a fault that a record or an   *)
(* inspection tells, wherever the run before stopped, unless that run left *)
(* a decoded module, which the codec will not overwrite.                   *)
RejectedForCause ==
  phase = "rejected" =>
    ~OneRelease \/ fault[manifest] \notin {None} \union Unrecorded \/ leftover
=============================================================================
