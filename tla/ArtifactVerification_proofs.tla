---------------------- MODULE ArtifactVerification_proofs ----------------------
(***************************************************************************)
(* Proofs about ArtifactVerification for every list of modules, every set  *)
(* of releases with one faulty file among them, whatever the fault, and    *)
(* every history of copies, verifications and interruptions.               *)
(***************************************************************************)
EXTENDS ArtifactVerification, TLAPS

(* A package by its release and that release's fault, whatever the state.  *)
FormIn(g, name, file) ==
  IF g # None /\ g.archive = name /\ g.file = file THEN g.form ELSE "whole"

PackagedIn(g, r, name) ==
  [file \in { f \in Contents(r, name) : FormIn(g, name, f) # "lost" } |->
     [from |-> Origin(r, file), form |-> FormIn(g, name, file)]]

StagedIn(g, r, name, file) ==
  [from |-> Origin(r, file),
   form |-> IF FormIn(g, name, file) = "unfit" THEN "unfit" ELSE "whole"]

(* A file is whole, or its fault is one that its decoder leaves out.       *)
SoundIn(g, r, name, file) ==
  file \in Contents(r, name) => FormIn(g, name, file) = "whole" \/ g \in LineFeeds(r)

(* The package that the manifest describes.                                *)
Sound(name, file) == SoundIn(fault[manifest], manifest, name, file)
Described(name) == PackagedIn(fault[manifest], manifest, name)
Lying(name) == PackagedIn(fault[archives[name]], archives[name], name)

FaultsFit ==
  \A r \in Releases : fault[r] # None => fault[r].file \in Contents(r, fault[r].archive)

(* An archive whose digest and executables have passed.                    *)
Passed(name) ==
  /\ Lying(name) = Described(name)
  /\ extracted[name] = Described(name)
  /\ \A s \in SliceSet : Sound(name, <<s, "binary">>) /\ Sound(name, <<s, "privacy">>)

SlicePassed(s) == \A kind \in Kinds \union ModuleSet : Sound(SDK, <<Slices[s], kind>>)

AfterSlices == {"payload", "decode", "compare", "support", "unpack", "environments"}

(* What the running verification has seen so far.                          *)
ArchivesPassed ==
  /\ phase \in {"archive", "extract", "slices"} /\ at = 2 => Passed(Bridge)
  /\ phase \in {"extract", "slices"} => Lying(Name) = Described(Name)
  /\ phase = "slices" => extracted[Name] = Described(Name)
  /\ phase \in AfterSlices => Passed(Bridge) /\ Passed(SDK)

PayloadPassed ==
  /\ phase \in {"payload", "decode", "compare"} /\ slice = 2 => SlicePassed(1)
  /\ phase \in {"decode", "compare"} =>
       /\ \A kind \in {"notices", "builtins", "foundation"} : Sound(SDK, <<Slices[slice], kind>>)
       /\ \A m \in 1..(at - 1) : Sound(SDK, <<Slices[slice], Modules[m]>>)
  /\ phase \in {"support", "unpack", "environments"} => SlicePassed(1) /\ SlicePassed(2)

ModuleDecoded ==
  phase = "compare" =>
    LET file == <<Slices[slice], Modules[at]>>
    IN /\ file \in DOMAIN extracted[SDK]
       /\ decoded \in Restored(extracted[SDK][file])
       /\ manifest \notin Legacy => extracted[SDK][file].form # "long"

SupportPassed ==
  /\ phase \in {"unpack", "environments"} => Lying(MacroBuildSupport) = Described(MacroBuildSupport)
  /\ phase = "environments" => extracted[MacroBuildSupport] = Described(MacroBuildSupport)

(* The codec's output is gone but while it is compared.                    *)
NothingDecoded == phase \notin Between \union {"compare"} /\ ~leftover => decoded = None

Positions ==
  /\ phase \in Between \union {"payload", "support", "unpack", "environments"} => at = 1
  /\ phase \in Between \union {"archive", "extract", "slices"} => slice = 1

WorkingDirectories == extracted = [name \in Archives |-> extracted[name]]

Evidence == ArchivesPassed /\ PayloadPassed /\ ModuleDecoded /\ SupportPassed /\ NothingDecoded

IInv ==
  /\ TypeOK /\ WorkingDirectories /\ Positions
  /\ FaultsFit /\ Evidence
  /\ AcceptedIsIntact /\ RejectedForCause

-----------------------------------------------------------------------------
(* Facts about packages.                                                   *)

(* The model's operators are those of a release and its fault.             *)
LEMMA PackagesByFault ==
  /\ \A r, name, file : Form(r, name, file) = FormIn(fault[r], name, file)
  /\ \A r, name, file : Staged(r, name, file) = StagedIn(fault[r], r, name, file)
  /\ \A r, name : Packaged(r, name) = PackagedIn(fault[r], r, name)
  /\ \A name : Genuine(name) <=> Lying(name) = Described(name)
<1>1. \A r, name, file : Form(r, name, file) = FormIn(fault[r], name, file)
  BY DEF Form, FormIn
<1>2. \A r, name, file : Staged(r, name, file) = StagedIn(fault[r], r, name, file)
  BY <1>1 DEF Staged, StagedIn
<1>3. ASSUME NEW r, NEW name PROVE Packaged(r, name) = PackagedIn(fault[r], r, name)
  BY <1>1 DEF Packaged, PackagedIn
<1>4. \A name : Genuine(name) <=> Lying(name) = Described(name)
  BY <1>3 DEF Genuine, Lying, Described
<1> QED BY <1>1, <1>2, <1>3, <1>4

(* What each archive holds.                                                *)
LEMMA ContentsByName ==
  ASSUME NEW r
  PROVE  /\ Contents(r, Bridge) = SliceSet \X BridgeFiles
         /\ Contents(r, SDK) = SliceSet \X SDKFiles(r)
         /\ Contents(r, MacroBuildSupport) = SliceSet \X SupportFiles(r)
BY VerificationAssumption DEF Contents

(* The slices are two, and so are the lists of archives.                   *)
LEMMA SliceList ==
  /\ SliceSet = {Slices[1], Slices[2]} /\ Slices[1] # Slices[2]
  /\ Len(Names) = 2 /\ Names[1] = Bridge /\ Names[2] = SDK
BY DEF Slices, SliceSet, Names

(* A file of an archive is in its contents and in the form of its fault.   *)
LEMMA FileOfPackage ==
  ASSUME NEW g, NEW r, NEW name, NEW f
  PROVE  /\ f \in DOMAIN PackagedIn(g, r, name) <=>
              f \in Contents(r, name) /\ FormIn(g, name, f) # "lost"
         /\ f \in DOMAIN PackagedIn(g, r, name) =>
              PackagedIn(g, r, name)[f] = [from |-> Origin(r, f), form |-> FormIn(g, name, f)]
BY DEF PackagedIn

(* A file without a fault is whole, and equal to what was hashed.          *)
LEMMA WholeFile ==
  ASSUME NEW g, NEW r, NEW name, NEW f \in Contents(r, name), FormIn(g, name, f) = "whole"
  PROVE  /\ f \in DOMAIN PackagedIn(g, r, name)
         /\ PackagedIn(g, r, name)[f] = [from |-> Origin(r, f), form |-> "whole"]
         /\ StagedIn(g, r, name, f) = [from |-> Origin(r, f), form |-> "whole"]
BY FileOfPackage DEF StagedIn

(* Only what is inspected can be unfit.                                    *)
LEMMA OnlyInspectedUnfit ==
  ASSUME NEW g \in Faults \union {None}, NEW name, NEW f, FormIn(g, name, f) = "unfit"
  PROVE  f[2] \in Inspected
BY VerificationAssumption DEF FormIn, FaultSet

(* A file that is as it was hashed, and is no unfit executable, is whole.  *)
LEMMA RecordedIsSound ==
  ASSUME NEW g, NEW r, NEW name, NEW f,
         f \in DOMAIN PackagedIn(g, r, name),
         PackagedIn(g, r, name)[f] = StagedIn(g, r, name, f),
         FormIn(g, name, f) # "unfit"
  PROVE  FormIn(g, name, f) = "whole"
<1>0. PackagedIn(g, r, name)[f] = [from |-> Origin(r, f), form |-> FormIn(g, name, f)]
  BY FileOfPackage
<1>1. PackagedIn(g, r, name)[f].form = FormIn(g, name, f) BY <1>0
<1>2. StagedIn(g, r, name, f).form = "whole" BY DEF StagedIn
<1> QED BY <1>1, <1>2

-----------------------------------------------------------------------------
(* Types.                                                                  *)

(* What an archive holds has the type of a working directory.              *)
LEMMA PackageTypes ==
  ASSUME TypeOK, NEW r \in Releases, NEW name \in Archives
  PROVE  \A f \in DOMAIN Packaged(r, name) :
           /\ f \in SliceSet \X (Kinds \union ModuleSet)
           /\ Packaged(r, name)[f] \in Content
<1> SUFFICES ASSUME NEW f \in DOMAIN Packaged(r, name)
             PROVE  /\ f \in SliceSet \X (Kinds \union ModuleSet)
                    /\ Packaged(r, name)[f] \in Content
  OBVIOUS
<1>1. Packaged(r, name) = PackagedIn(fault[r], r, name)
  BY PackagesByFault
<1>2. f \in Contents(r, name) /\ FormIn(fault[r], name, f) # "lost"
  BY <1>1 DEF PackagedIn
<1>3. Packaged(r, name)[f] = [from |-> Origin(r, f), form |-> FormIn(fault[r], name, f)]
  BY <1>1, FileOfPackage
<1>4. f \in SliceSet \X (Kinds \union ModuleSet)
  <2>1. SDKFiles(r) \subseteq Kinds \union ModuleSet BY DEF SDKFiles, Kinds
  <2>2. BridgeFiles \subseteq Kinds /\ SupportFiles(r) \subseteq Kinds
    BY DEF BridgeFiles, SupportFiles, SupportContents, Kinds
  <2> QED BY <1>2, <2>1, <2>2, ContentsByName DEF Archives
<1>5. Origin(r, f) \in Releases \union {Pinned} BY DEF Origin
<1>6. FormIn(fault[r], name, f) \in Forms
  <2>1. fault[r] \in Faults \union {None} BY DEF TypeOK
  <2>2. CASE fault[r] = None BY <2>2 DEF FormIn, Forms
  <2>3. CASE fault[r] \in Faults
    <3>1. fault[r].form \in (Forms \ {"whole"}) \union {"lost"}
      BY <2>3, VerificationAssumption DEF FaultSet
    <3> QED BY <1>2, <3>1 DEF FormIn, Forms
  <2> QED BY <2>1, <2>2, <2>3
<1> QED BY <1>3, <1>4, <1>5, <1>6 DEF Content

WorkingTypes ==
  \A name \in Archives :
    \A f \in DOMAIN extracted[name] :
      /\ f \in SliceSet \X (Kinds \union ModuleSet)
      /\ extracted[name][f] \in Content

DataTypes ==
  /\ fault \in [Releases -> Faults \union {None}]
  /\ manifest \in Releases
  /\ archives \in [Archives -> Releases]
  /\ WorkingTypes
  /\ decoded \in Content \union {None}
  /\ leftover \in BOOLEAN

PositionTypes ==
  /\ phase \in Between \union {"archive", "extract", "slices", "payload", "decode", "compare",
                               "support", "unpack", "environments"}
  /\ at \in Nat \ {0}
  /\ phase \in {"archive", "extract", "slices"} => at <= Len(Names)
  /\ phase \in {"payload", "decode", "compare"} => at <= Len(Modules)
  /\ slice \in 1..2

(* The type invariant in two parts.                                        *)
LEMMA TypesInParts == TypeOK <=> DataTypes /\ PositionTypes
BY DEF TypeOK, DataTypes, PositionTypes, WorkingTypes

LEMMA TypesInPartsNext == TypeOK' <=> DataTypes' /\ PositionTypes'
<1>1. [](TypeOK <=> DataTypes /\ PositionTypes) BY TypesInParts, PTL
<1> QED BY <1>1, PTL

(* A verification that is not running has no position to keep.             *)
LEMMA RestingPosition ==
  ASSUME phase' \in Between, at' = 1, slice' = 1 PROVE PositionTypes'
BY DEF PositionTypes, Between

(* Extraction keeps the working directories well typed.                    *)
LEMMA ExtractTypes ==
  ASSUME TypeOK, WorkingDirectories, NEW name \in Archives,
         Extract(name) \/ extracted' = [extracted EXCEPT ![name] = <<>>]
  PROVE  /\ WorkingTypes' /\ WorkingDirectories'
         /\ \A other \in Archives \ {name} : extracted'[other] = extracted[other]
         /\ Extract(name) => extracted'[name] = Lying(name)
<1>1. archives[name] \in Releases BY DEF TypeOK
<1>2. PICK new : /\ extracted' = [extracted EXCEPT ![name] = new]
                 /\ new = <<>> \/ new = Packaged(archives[name], name)
                 /\ Extract(name) => new = Packaged(archives[name], name)
  BY DEF Extract
<1>3. \A f \in DOMAIN new : f \in SliceSet \X (Kinds \union ModuleSet) /\ new[f] \in Content
  <2>1. CASE new = <<>> BY <2>1
  <2>2. CASE new = Packaged(archives[name], name) BY <1>1, <2>2, PackageTypes
  <2> QED BY <1>2, <2>1, <2>2
<1>4. extracted' = [other \in Archives |-> IF other = name THEN new ELSE extracted[other]]
  BY <1>2 DEF WorkingDirectories
<1>5. /\ \A other \in Archives \ {name} : extracted'[other] = extracted[other]
      /\ extracted'[name] = new
  BY <1>4
<1>6. WorkingTypes' BY <1>3, <1>5 DEF WorkingTypes, TypeOK
<1>7. WorkingDirectories' BY <1>4 DEF WorkingDirectories
<1> QED BY <1>2, <1>5, <1>6, <1>7, PackagesByFault DEF Lying

-----------------------------------------------------------------------------
(* How a verification ends.                                                *)

AllGenuine == \A name \in Archives : Lying(name) = Described(name)

(* A package of one release, without a fault that is told.                 *)
Intact == OneRelease /\ fault[manifest] \in {None} \union Unrecorded

(* A package is of one release if the archives are those of the manifest.  *)
LEMMA ReleaseByFault == OneRelease <=> AllGenuine
<1>1. (\A n \in 1..Len(Names) : Genuine(Names[n])) <=> Genuine(Bridge) /\ Genuine(SDK)
  <2>1. 1..Len(Names) = {1, 2} BY SliceList
  <2> QED BY <2>1, SliceList
<1> QED BY <1>1, PackagesByFault DEF OneRelease, AllGenuine, Archives

(* A step that changes neither the faults nor the directory keeps both.    *)
LEMMA SameIntact ==
  ASSUME UNCHANGED <<fault, directory>>
  PROVE  (Intact' <=> Intact) /\ (OneRelease' <=> OneRelease)
<1>1. fault' = fault /\ manifest' = manifest /\ archives' = archives
  BY DEF directory
<1>2. AllGenuine' <=> AllGenuine
  BY <1>1 DEF AllGenuine, Lying, Described
<1>3. [](OneRelease <=> AllGenuine)
  BY ReleaseByFault, PTL
<1>4. OneRelease' <=> AllGenuine'
  BY <1>3, PTL
<1>5. OneRelease' <=> OneRelease BY <1>2, <1>4, ReleaseByFault
<1> QED BY <1>1, <1>5 DEF Intact, Unrecorded

(* Between verifications there is little to keep.                          *)
LEMMA IdleStep ==
  ASSUME IInv, TypeOK', WorkingDirectories', fault' = fault, End("idle")
  PROVE  IInv'
<1>1. phase' = "idle" /\ at' = 1 /\ slice' = 1 BY DEF End
<1>2. Positions' BY <1>1 DEF Positions
<1>3. FaultsFit' BY DEF IInv, FaultsFit
<1>4. Evidence'
  BY <1>1 DEF Evidence, ArchivesPassed, PayloadPassed, ModuleDecoded, SupportPassed,
              NothingDecoded, AfterSlices, Between
<1>5. AcceptedIsIntact' /\ RejectedForCause' BY <1>1 DEF AcceptedIsIntact, RejectedForCause
<1> QED BY <1>2, <1>3, <1>4, <1>5 DEF IInv

(* A rejection needs a cause.                                              *)
LEMMA RejectStep ==
  ASSUME IInv, ~Intact \/ leftover, End("rejected"),
         UNCHANGED <<fault, directory, extracted, decoded, leftover>>
  PROVE  IInv'
<1>1. /\ phase' = "rejected" /\ at' = 1 /\ slice' = 1
      /\ fault' = fault /\ manifest' = manifest /\ archives' = archives
      /\ extracted' = extracted /\ decoded' = decoded /\ leftover' = leftover
  BY DEF End, directory
<1>2. Positions' BY <1>1 DEF Positions
<1>3. FaultsFit' BY <1>1 DEF IInv, FaultsFit
<1>4. Evidence'
  BY <1>1 DEF Evidence, ArchivesPassed, PayloadPassed, ModuleDecoded, SupportPassed,
              NothingDecoded, AfterSlices, Between
<1>5. AcceptedIsIntact' BY <1>1 DEF AcceptedIsIntact
<1>6. RejectedForCause'
  <2>1. ~Intact' \/ leftover' BY <1>1, SameIntact
  <2> QED BY <2>1 DEF RejectedForCause, Intact
<1>7. TypeOK' /\ WorkingDirectories'
  BY <1>1 DEF IInv, TypeOK, WorkingDirectories, Between
<1> QED BY <1>2, <1>3, <1>4, <1>5, <1>6, <1>7 DEF IInv

(* A verification that goes on has neither accepted nor rejected yet.      *)
LEMMA GoOnStep ==
  ASSUME IInv, fault' = fault, TypeOK', WorkingDirectories', Positions', Evidence',
         phase' \notin {"accepted", "rejected"}
  PROVE  IInv'
<1>1. FaultsFit' BY DEF IInv, FaultsFit
<1>2. AcceptedIsIntact' /\ RejectedForCause' BY DEF AcceptedIsIntact, RejectedForCause
<1> QED BY <1>1, <1>2 DEF IInv

(* What was seen of a package stays true while its directory stays.        *)
LEMMA SameDirectory ==
  ASSUME UNCHANGED <<fault, directory>>
  PROVE  /\ \A name : Lying(name)' = Lying(name) /\ Described(name)' = Described(name)
         /\ \A name, file : Sound(name, file)' <=> Sound(name, file)
         /\ \A name : extracted'[name] = extracted[name] => (Passed(name)' <=> Passed(name))
         /\ \A s : SlicePassed(s)' <=> SlicePassed(s)
<1>1. fault' = fault /\ manifest' = manifest /\ archives' = archives
  BY DEF directory
<1>2. \A name : Lying(name)' = Lying(name) /\ Described(name)' = Described(name)
  BY <1>1 DEF Lying, Described
<1>3. \A name, file : Sound(name, file)' <=> Sound(name, file)
  BY <1>1 DEF Sound
<1>4. \A name : extracted'[name] = extracted[name] => (Passed(name)' <=> Passed(name))
  BY <1>1 DEF Passed, Lying, Described, Sound
<1>5. \A s : SlicePassed(s)' <=> SlicePassed(s)
  BY <1>1 DEF SlicePassed, Sound
<1> QED BY <1>2, <1>3, <1>4, <1>5

(* The framework that is looked at is the first or the second of the two.  *)
LEMMA NameInList ==
  ASSUME TypeOK, phase \in {"archive", "extract", "slices"}
  PROVE  /\ (at = 1 /\ Name = Bridge) \/ (at = 2 /\ Name = SDK)
         /\ Name \in Archives /\ Bridge # SDK
<1>1. at \in Nat \ {0} /\ at <= 2 BY SliceList DEF TypeOK
<1>2. at = 1 \/ at = 2 BY <1>1
<1> QED BY <1>2, SliceList, VerificationAssumption DEF Name, Archives

-----------------------------------------------------------------------------
(* The steps that start or end a verification.                             *)

LEMMA InitIInv == Init => IInv
<1> SUFFICES ASSUME Init PROVE IInv
  OBVIOUS
<1>1. /\ phase = "idle" /\ at = 1 /\ slice = 1 /\ decoded = None /\ leftover = FALSE
      /\ fault \in [Releases -> Faults \union {None}] /\ manifest \in Releases
      /\ archives = [name \in Archives |-> manifest]
      /\ extracted = [name \in Archives |-> <<>>]
  BY DEF Init
<1>2. TypeOK
  <2>1. \A name \in Archives : DOMAIN extracted[name] = {}
    BY <1>1
  <2>2. WorkingTypes BY <2>1 DEF WorkingTypes
  <2>3. DataTypes BY <1>1, <2>2 DEF DataTypes
  <2>4. PositionTypes BY <1>1 DEF PositionTypes, Between
  <2> QED BY <2>3, <2>4, TypesInParts
<1>3. WorkingDirectories BY <1>1 DEF WorkingDirectories
<1>4. Positions BY <1>1 DEF Positions
<1>5. FaultsFit BY DEF Init, FaultsFit
<1>6. Evidence
  BY <1>1 DEF Evidence, ArchivesPassed, PayloadPassed, ModuleDecoded, SupportPassed,
              NothingDecoded, AfterSlices, Between
<1>7. AcceptedIsIntact /\ RejectedForCause BY <1>1 DEF AcceptedIsIntact, RejectedForCause
<1> QED BY <1>2, <1>3, <1>4, <1>5, <1>6, <1>7 DEF IInv

LEMMA CopyManifestStep ==
  ASSUME IInv, NEW r \in Releases, CopyManifest(r) PROVE IInv'
<1>1. /\ manifest' = r /\ fault' = fault /\ archives' = archives /\ extracted' = extracted
      /\ decoded' = decoded /\ leftover' = FALSE /\ End("idle")
  BY DEF CopyManifest
<1>2. TypeOK'
  <2>1. DataTypes' BY <1>1, TypesInParts DEF IInv, DataTypes, WorkingTypes
  <2>2. PositionTypes' BY <1>1, RestingPosition DEF End, Between
  <2> QED BY <2>1, <2>2, TypesInPartsNext
<1>3. WorkingDirectories' BY <1>1 DEF IInv, WorkingDirectories
<1> QED BY <1>1, <1>2, <1>3, IdleStep

LEMMA CopyArchiveStep ==
  ASSUME IInv, NEW r \in Releases, NEW name \in Archives, CopyArchive(r, name) PROVE IInv'
<1>1. /\ archives' = [archives EXCEPT ![name] = r] /\ fault' = fault /\ manifest' = manifest
      /\ extracted' = extracted /\ decoded' = decoded /\ leftover' = FALSE /\ End("idle")
  BY DEF CopyArchive
<1>2. archives' \in [Archives -> Releases] BY <1>1 DEF IInv, TypeOK
<1>3. TypeOK'
  <2>1. DataTypes' BY <1>1, <1>2, TypesInParts DEF IInv, DataTypes, WorkingTypes
  <2>2. PositionTypes' BY <1>1, RestingPosition DEF End, Between
  <2> QED BY <2>1, <2>2, TypesInPartsNext
<1>4. WorkingDirectories' BY <1>1 DEF IInv, WorkingDirectories
<1> QED BY <1>1, <1>3, <1>4, IdleStep

LEMMA StartStep ==
  ASSUME IInv, Start PROVE IInv'
<1>1. /\ phase \in Between /\ phase' = "archive" /\ leftover' = (decoded # None)
      /\ fault' = fault /\ manifest' = manifest /\ archives' = archives
      /\ extracted' = extracted /\ decoded' = decoded /\ at' = at /\ slice' = slice
  BY DEF Start, directory
<1>2. at = 1 /\ slice = 1 BY <1>1 DEF IInv, Positions
<1>3. TypeOK' BY <1>1, <1>2, SliceList DEF IInv, TypeOK, Between
<1>4. WorkingDirectories' BY <1>1 DEF IInv, WorkingDirectories
<1>5. Positions' BY <1>1, <1>2 DEF Positions, Between
<1>6. Evidence'
  <2>1. ArchivesPassed' /\ PayloadPassed' /\ ModuleDecoded' /\ SupportPassed'
    BY <1>1, <1>2 DEF ArchivesPassed, PayloadPassed, ModuleDecoded, SupportPassed, AfterSlices
  <2>2. NothingDecoded' BY <1>1 DEF NothingDecoded, Between
  <2> QED BY <2>1, <2>2 DEF Evidence
<1> QED BY <1>1, <1>3, <1>4, <1>5, <1>6, GoOnStep

LEMMA AbortStep ==
  ASSUME IInv, Abort PROVE IInv'
<1>1. /\ fault' = fault /\ manifest' = manifest /\ archives' = archives /\ leftover' = FALSE
      /\ End("idle") /\ phase' = "idle" /\ at' = 1 /\ slice' = 1
  BY DEF Abort, directory, End
<1>2. WorkingTypes' /\ WorkingDirectories' /\ decoded' \in Content \union {None}
  <2>1. CASE UNCHANGED <<extracted, decoded>>
    BY <2>1 DEF IInv, TypeOK, WorkingTypes, WorkingDirectories
  <2>2. CASE phase = "extract" /\ Interrupt(Name)
    <3>1. Name \in Archives BY <2>2, NameInList DEF IInv
    <3> QED BY <2>2, <3>1, ExtractTypes DEF Interrupt, IInv, TypeOK
  <2>3. CASE phase = "unpack" /\ Interrupt(MacroBuildSupport)
    <3>1. MacroBuildSupport \in Archives BY DEF Archives
    <3> QED BY <2>3, <3>1, ExtractTypes DEF Interrupt, IInv, TypeOK
  <2>4. CASE /\ phase = "decode" /\ Decodable(InPayload(Modules[at]))
             /\ decoded' = [from |-> Payload[InPayload(Modules[at])].from, form |-> "changed"]
             /\ UNCHANGED extracted
    <3>1. SDK \in Archives BY DEF Archives
    <3>2. Payload[InPayload(Modules[at])] \in Content
      BY <2>4, <3>1 DEF IInv, TypeOK, Decodable, Payload
    <3>3. decoded' \in Content BY <2>4, <3>2 DEF Content, Forms
    <3> QED BY <2>4, <3>3 DEF IInv, TypeOK, WorkingTypes, WorkingDirectories
  <2> QED BY <2>1, <2>2, <2>3, <2>4 DEF Abort
<1>3. TypeOK'
  <2>1. DataTypes' BY <1>1, <1>2, TypesInParts DEF IInv, DataTypes
  <2>2. PositionTypes' BY <1>1, RestingPosition DEF Between
  <2> QED BY <2>1, <2>2, TypesInPartsNext
<1> QED BY <1>1, <1>2, <1>3, IdleStep

-----------------------------------------------------------------------------
(* The frameworks.                                                         *)

LEMMA CheckArchiveStep ==
  ASSUME IInv, CheckArchive PROVE IInv'
<1>1. phase = "archive" /\ UNCHANGED <<fault, directory, extracted, decoded, leftover>>
  BY DEF CheckArchive, Check
<1>2. Name \in Archives BY <1>1, NameInList DEF IInv
<1>3. CASE ~Genuine(Name)
  <2>1. ~Intact BY <1>2, <1>3, ReleaseByFault, PackagesByFault DEF AllGenuine, Intact
  <2>2. End("rejected") BY <1>3 DEF CheckArchive, Check
  <2> QED BY <1>1, <2>1, <2>2, RejectStep
<1>4. CASE Genuine(Name)
  <2>1. /\ phase' = "extract" /\ at' = at /\ slice' = slice
        /\ fault' = fault /\ manifest' = manifest /\ archives' = archives
        /\ extracted' = extracted /\ decoded' = decoded /\ leftover' = leftover
    BY <1>4 DEF CheckArchive, Check, directory
  <2>2. Name' = Name BY <2>1 DEF Name, Names
  <2>3. Lying(Name) = Described(Name) BY <1>4, PackagesByFault
  <2>4. ArchivesPassed'
    <3>1. (at = 2 => Passed(Bridge)) BY <1>1 DEF IInv, Evidence, ArchivesPassed
    <3>2. (at = 2 => Passed(Bridge))' BY <1>1, <2>1, <3>1, SameDirectory
    <3>3. (Lying(Name) = Described(Name))' BY <1>1, <2>1, <2>2, <2>3 DEF Lying, Described
    <3> QED BY <2>1, <3>2, <3>3 DEF ArchivesPassed, AfterSlices
  <2>5. PayloadPassed' /\ ModuleDecoded' /\ SupportPassed'
    BY <2>1 DEF PayloadPassed, ModuleDecoded, SupportPassed
  <2>6. NothingDecoded' BY <1>1, <2>1 DEF IInv, Evidence, NothingDecoded, Between
  <2>7. TypeOK'
    <3>1. DataTypes' BY <2>1, TypesInParts DEF IInv, DataTypes, WorkingTypes
    <3>2. PositionTypes' BY <1>1, <2>1, TypesInParts DEF IInv, PositionTypes, Names
    <3> QED BY <3>1, <3>2, TypesInPartsNext
  <2>8. WorkingDirectories' /\ Positions'
    BY <1>1, <2>1 DEF IInv, WorkingDirectories, Positions, Between
  <2>9. Evidence' BY <2>4, <2>5, <2>6 DEF Evidence
  <2> QED BY <2>1, <2>7, <2>8, <2>9, GoOnStep
<1> QED BY <1>3, <1>4

LEMMA ExtractArchiveStep ==
  ASSUME IInv, ExtractArchive PROVE IInv'
<1>1. /\ phase = "extract" /\ phase' = "slices" /\ at' = at /\ slice' = slice
      /\ fault' = fault /\ manifest' = manifest /\ archives' = archives
      /\ Extract(Name) /\ decoded' = decoded /\ leftover' = leftover
      /\ UNCHANGED <<fault, directory>>
  BY DEF ExtractArchive, directory
<1>2. /\ (at = 1 /\ Name = Bridge) \/ (at = 2 /\ Name = SDK)
      /\ Name \in Archives /\ Bridge # SDK
  BY <1>1, NameInList DEF IInv
<1>3. /\ WorkingTypes' /\ WorkingDirectories'
      /\ \A other \in Archives \ {Name} : extracted'[other] = extracted[other]
      /\ extracted'[Name] = Lying(Name)
  BY <1>1, <1>2, ExtractTypes DEF IInv
<1>4. Name' = Name BY <1>1 DEF Name, Names
<1>5. Lying(Name) = Described(Name) /\ (at = 2 => Passed(Bridge))
  BY <1>1 DEF IInv, Evidence, ArchivesPassed
<1>6. ArchivesPassed'
  <2>1. (at = 2 => Passed(Bridge))'
    <3>1. SUFFICES ASSUME at = 2 PROVE Passed(Bridge)' BY <1>1
    <3>2. Bridge \in Archives \ {Name} BY <1>2, <3>1 DEF Archives
    <3>3. extracted'[Bridge] = extracted[Bridge] BY <1>3, <3>2
    <3> QED BY <1>1, <1>5, <3>1, <3>3, SameDirectory
  <2>2. (Lying(Name) = Described(Name))' BY <1>1, <1>4, <1>5 DEF Lying, Described
  <2>3. (extracted[Name] = Described(Name))'
    <3>1. extracted'[Name'] = Lying(Name) BY <1>3, <1>4
    <3>2. Described(Name)' = Described(Name) BY <1>1, <1>4 DEF Described
    <3> QED BY <1>5, <3>1, <3>2
  <2> QED BY <1>1, <2>1, <2>2, <2>3 DEF ArchivesPassed, AfterSlices
<1>7. PayloadPassed' /\ ModuleDecoded' /\ SupportPassed'
  BY <1>1 DEF PayloadPassed, ModuleDecoded, SupportPassed
<1>8. NothingDecoded' BY <1>1 DEF IInv, Evidence, NothingDecoded, Between
<1>9. TypeOK'
  <2>1. DataTypes' BY <1>1, <1>3, TypesInParts DEF IInv, DataTypes
  <2>2. PositionTypes' BY <1>1, TypesInParts DEF IInv, PositionTypes, Names
  <2> QED BY <2>1, <2>2, TypesInPartsNext
<1>10. Positions' BY <1>1 DEF IInv, Positions, Between
<1>11. Evidence' BY <1>6, <1>7, <1>8 DEF Evidence
<1> QED BY <1>1, <1>3, <1>9, <1>10, <1>11, GoOnStep

(* Executables and privacy declarations that pass are as packaging hashed  *)
(* them.                                                                   *)
LEMMA SlicesAreSound ==
  ASSUME IInv, NEW name \in {Bridge, SDK}, extracted[name] = Described(name),
         NEW s \in SliceSet, SliceAccepted(name, s)
  PROVE  Sound(name, <<s, "binary">>) /\ Sound(name, <<s, "privacy">>)
<1> DEFINE g == fault[manifest]
           binary == <<s, "binary">>
           privacy == <<s, "privacy">>
<1>1. /\ binary \in DOMAIN PackagedIn(g, manifest, name)
      /\ PackagedIn(g, manifest, name)[binary].form # "unfit"
      /\ PackagedIn(g, manifest, name)[binary] = StagedIn(g, manifest, name, binary)
  BY PackagesByFault DEF SliceAccepted, Usable, Described
<1>2. Sound(name, binary)
  <2>1. PackagedIn(g, manifest, name)[binary].form = FormIn(g, name, binary)
    <3>1. PackagedIn(g, manifest, name)[binary]
            = [from |-> Origin(manifest, binary), form |-> FormIn(g, name, binary)]
      BY <1>1, FileOfPackage
    <3> QED BY <3>1
  <2> QED BY <1>1, <2>1, RecordedIsSound DEF Sound, SoundIn
<1>3. CASE name = Bridge
  <2>1. /\ privacy \in DOMAIN PackagedIn(g, manifest, name)
        /\ PackagedIn(g, manifest, name)[privacy] = StagedIn(g, manifest, name, privacy)
    BY <1>3, PackagesByFault DEF SliceAccepted, Described
  <2>2. g \in Faults \union {None} BY DEF IInv, TypeOK
  <2>3. privacy[2] \notin Inspected BY DEF Inspected
  <2>4. FormIn(g, name, privacy) # "unfit" BY <2>2, <2>3, OnlyInspectedUnfit
  <2> QED BY <1>2, <2>1, <2>4, RecordedIsSound DEF Sound, SoundIn
<1>4. CASE name = SDK
  <2>1. "privacy" \notin SDKFiles(manifest)
    BY VerificationAssumption DEF SDKFiles, Kinds
  <2>2. privacy \notin Contents(manifest, SDK) BY <2>1, ContentsByName
  <2> QED BY <1>2, <1>4, <2>2 DEF Sound, SoundIn
<1> QED BY <1>3, <1>4

(* The frameworks of an intact package are as they were hashed.            *)
LEMMA IntactFiles ==
  ASSUME Intact, NEW name \in {Bridge, SDK}, extracted[name] = Described(name),
         NEW f \in Contents(manifest, name)
  PROVE  /\ f \in DOMAIN extracted[name]
         /\ extracted[name][f] = Staged(manifest, name, f)
         /\ extracted[name][f] = [from |-> Origin(manifest, f), form |-> "whole"]
<1>1. FormIn(fault[manifest], name, f) = "whole"
  BY VerificationAssumption DEF Intact, Unrecorded, FormIn
<1>2. extracted[name] = PackagedIn(fault[manifest], manifest, name) BY DEF Described
<1>3. Staged(manifest, name, f) = StagedIn(fault[manifest], manifest, name, f)
  BY PackagesByFault
<1> QED BY <1>1, <1>2, <1>3, WholeFile

(* An intact framework passes.                                             *)
LEMMA IntactSlicesPass ==
  ASSUME Intact, NEW name \in {Bridge, SDK}, extracted[name] = Described(name),
         NEW s \in SliceSet
  PROVE  SliceAccepted(name, s)
<1>1. <<s, "binary">> \in Contents(manifest, name)
  BY ContentsByName DEF BridgeFiles, SDKFiles
<1>2. name = Bridge => <<s, "privacy">> \in Contents(manifest, name)
  BY ContentsByName DEF BridgeFiles
<1>3. extracted[name][<<s, "binary">>].form = "whole"
  <2>1. extracted[name][<<s, "binary">>]
          = [from |-> Origin(manifest, <<s, "binary">>), form |-> "whole"]
    BY <1>1, IntactFiles
  <2> QED BY <2>1
<1> QED BY <1>1, <1>2, <1>3, IntactFiles DEF SliceAccepted, Usable

LEMMA CheckSlicesStep ==
  ASSUME IInv, CheckSlices PROVE IInv'
<1>1. phase = "slices" /\ UNCHANGED <<fault, directory, extracted, decoded, leftover>>
  BY DEF CheckSlices
<1>2. /\ (at = 1 /\ Name = Bridge) \/ (at = 2 /\ Name = SDK)
      /\ Name \in {Bridge, SDK}
  BY <1>1, NameInList DEF IInv
<1>3. /\ extracted[Name] = Described(Name) /\ Lying(Name) = Described(Name)
      /\ (at = 2 => Passed(Bridge)) /\ slice = 1
  BY <1>1 DEF IInv, Evidence, ArchivesPassed, Positions
<1>4. CASE ~(\A s \in SliceSet : SliceAccepted(Name, s))
  <2>1. ~Intact BY <1>2, <1>3, <1>4, IntactSlicesPass
  <2>2. End("rejected") BY <1>4 DEF CheckSlices
  <2> QED BY <1>1, <2>1, <2>2, RejectStep
<1>5. CASE \A s \in SliceSet : SliceAccepted(Name, s)
  <2>1. /\ slice' = slice /\ fault' = fault /\ manifest' = manifest /\ archives' = archives
        /\ extracted' = extracted /\ decoded' = decoded /\ leftover' = leftover
        /\ (at = 1 /\ phase' = "archive" /\ at' = 2) \/ (at = 2 /\ phase' = "payload" /\ at' = 1)
    BY <1>2, <1>5, SliceList DEF CheckSlices, directory
  <2>2. Passed(Name)
    <3>1. \A s \in SliceSet : Sound(Name, <<s, "binary">>) /\ Sound(Name, <<s, "privacy">>)
      BY <1>2, <1>3, <1>5, SlicesAreSound
    <3> QED BY <1>3, <3>1 DEF Passed
  <2>3. Passed(Bridge) /\ (at = 2 => Passed(SDK)) BY <1>2, <1>3, <2>2
  <2>4. Passed(Bridge)' /\ (at = 2 => Passed(SDK)') BY <1>1, <2>1, <2>3, SameDirectory
  <2>5. ArchivesPassed' BY <2>1, <2>4 DEF ArchivesPassed, AfterSlices
  <2>6. PayloadPassed' /\ ModuleDecoded' /\ SupportPassed'
    BY <1>3, <2>1 DEF PayloadPassed, ModuleDecoded, SupportPassed
  <2>7. NothingDecoded' BY <1>1, <2>1 DEF IInv, Evidence, NothingDecoded, Between
  <2>8. TypeOK'
    <3>1. DataTypes' BY <2>1, TypesInParts DEF IInv, DataTypes, WorkingTypes
    <3>2. Len(Modules) >= 1 BY VerificationAssumption
    <3>3. at' \in Nat \ {0} /\ at' <= 2 /\ (phase' = "payload" => at' = 1) BY <2>1
    <3>4. Len(Names') = 2 BY SliceList DEF Names
    <3>5. PositionTypes' BY <2>1, <3>2, <3>3, <3>4, <1>3 DEF PositionTypes
    <3> QED BY <3>1, <3>5, TypesInPartsNext
  <2>9. WorkingDirectories' /\ Positions'
    BY <1>3, <2>1 DEF IInv, WorkingDirectories, Positions, Between
  <2>10. Evidence' BY <2>5, <2>6, <2>7 DEF Evidence
  <2> QED BY <2>1, <2>8, <2>9, <2>10, GoOnStep
<1> QED BY <1>4, <1>5

-----------------------------------------------------------------------------
(* The SDK's payload.                                                      *)

(* The payload's records pass for an intact package, and vouch for it.     *)
LEMMA RecordedFiles ==
  ASSUME IInv, phase = "payload", NEW kind \in {"notices", "builtins", "foundation"}
  PROVE  /\ HasRecorded(kind) => Sound(SDK, <<Slices[slice], kind>>)
         /\ Intact /\ kind \in {"notices"} \union Recorded => HasRecorded(kind)
         /\ kind \notin {"notices"} \union Recorded => Sound(SDK, <<Slices[slice], kind>>)
<1> DEFINE g == fault[manifest]
           f == <<Slices[slice], kind>>
<1>1. extracted[SDK] = Described(SDK)
  BY DEF IInv, Evidence, ArchivesPassed, Passed, AfterSlices
<1>2. Slices[slice] \in SliceSet BY DEF IInv, TypeOK, SliceSet
<1>3. ASSUME HasRecorded(kind) PROVE Sound(SDK, f)
  <2>1. /\ f \in DOMAIN PackagedIn(g, manifest, SDK)
        /\ PackagedIn(g, manifest, SDK)[f] = StagedIn(g, manifest, SDK, f)
    BY <1>1, <1>3, PackagesByFault DEF HasRecorded, InPayload, Payload, Described
  <2>2. g \in Faults \union {None} BY DEF IInv, TypeOK
  <2>3. f[2] \notin Inspected BY DEF Inspected
  <2>4. FormIn(g, SDK, f) # "unfit" BY <2>2, <2>3, OnlyInspectedUnfit
  <2> QED BY <2>1, <2>4, RecordedIsSound DEF Sound, SoundIn
<1>4. ASSUME Intact, kind \in {"notices"} \union Recorded PROVE HasRecorded(kind)
  <2>1. kind \in SDKFiles(manifest) BY <1>4 DEF Recorded, SDKFiles
  <2>2. f \in Contents(manifest, SDK) BY <1>2, <2>1, ContentsByName
  <2> QED BY <1>1, <1>4, <2>2, IntactFiles DEF HasRecorded, InPayload, Payload
<1>5. ASSUME kind \notin {"notices"} \union Recorded PROVE Sound(SDK, f)
  <2>1. kind \notin SDKFiles(manifest)
    BY <1>5, VerificationAssumption DEF Recorded, SDKFiles, Kinds
  <2>2. f \notin Contents(manifest, SDK) BY <2>1, ContentsByName
  <2> QED BY <2>2 DEF Sound, SoundIn
<1> QED BY <1>3, <1>4, <1>5

LEMMA CheckPayloadStep ==
  ASSUME IInv, CheckPayload PROVE IInv'
<1>1. phase = "payload" /\ UNCHANGED <<fault, directory, extracted, decoded, leftover>>
  BY DEF CheckPayload, Check
<1>2. /\ at = 1 /\ Passed(Bridge) /\ Passed(SDK) /\ (slice = 2 => SlicePassed(1))
  BY <1>1 DEF IInv, Evidence, Positions, ArchivesPassed, PayloadPassed, AfterSlices
<1>3. CASE ~(NoticesAccepted /\ RecordsAccepted)
  <2>1. ~Intact
    <3>1. Recorded \subseteq {"notices", "builtins", "foundation"} BY DEF Recorded
    <3> QED BY <1>1, <1>3, <3>1, RecordedFiles DEF NoticesAccepted, RecordsAccepted
  <2>2. End("rejected") BY <1>3 DEF CheckPayload, Check
  <2> QED BY <1>1, <2>1, <2>2, RejectStep
<1>4. CASE NoticesAccepted /\ RecordsAccepted
  <2>1. /\ phase' = "decode" /\ at' = at /\ slice' = slice
        /\ fault' = fault /\ manifest' = manifest /\ archives' = archives
        /\ extracted' = extracted /\ decoded' = decoded /\ leftover' = leftover
    BY <1>4 DEF CheckPayload, Check, directory
  <2>2. ArchivesPassed'
    <3>1. Passed(Bridge)' /\ Passed(SDK)' BY <1>1, <1>2, <2>1, SameDirectory
    <3> QED BY <2>1, <3>1 DEF ArchivesPassed
  <2>3. PayloadPassed'
    <3>1. (slice = 2 => SlicePassed(1))' BY <1>1, <1>2, <2>1, SameDirectory
    <3>2. ASSUME NEW kind \in {"notices", "builtins", "foundation"}
          PROVE  Sound(SDK, <<Slices[slice], kind>>)
      BY <1>1, <1>4, RecordedFiles DEF NoticesAccepted, RecordsAccepted
    <3>3. \A kind \in {"notices", "builtins", "foundation"} : Sound(SDK, <<Slices[slice], kind>>)'
      BY <2>1, <3>2 DEF Sound, Slices
    <3>4. 1..(at' - 1) = {} BY <1>2, <2>1
    <3> QED BY <2>1, <3>1, <3>3, <3>4 DEF PayloadPassed
  <2>4. ModuleDecoded' /\ SupportPassed' BY <2>1 DEF ModuleDecoded, SupportPassed
  <2>5. NothingDecoded' BY <1>1, <2>1 DEF IInv, Evidence, NothingDecoded, Between
  <2>6. TypeOK'
    <3>1. DataTypes' BY <2>1, TypesInParts DEF IInv, DataTypes, WorkingTypes
    <3>2. PositionTypes' BY <1>1, <2>1, TypesInParts DEF IInv, PositionTypes
    <3> QED BY <3>1, <3>2, TypesInPartsNext
  <2>7. WorkingDirectories' /\ Positions'
    BY <1>1, <2>1 DEF IInv, WorkingDirectories, Positions, Between
  <2>8. Evidence' BY <2>2, <2>3, <2>4, <2>5 DEF Evidence
  <2> QED BY <2>1, <2>6, <2>7, <2>8, GoOnStep
<1> QED BY <1>3, <1>4

(* A module with a trailing byte does not decode, and a whole one does.    *)
LEMMA DecodedLengths ==
  /\ ~Decodes(Resource("long"), ModuleBytes)
  /\ Decodes(Resource("whole"), ModuleBytes)
BY DecoderAssumption DEF Decodes, Resource, ModuleBytes, AtEnd

(* The module that is looked at is a file of the SDK.                      *)
LEMMA ModuleInSDK ==
  ASSUME IInv, phase \in {"decode", "compare"}
  PROVE  /\ at \in 1..Len(Modules) /\ Modules[at] \in ModuleSet /\ slice \in 1..2
         /\ <<Slices[slice], Modules[at]>> \in Contents(manifest, SDK)
         /\ extracted[SDK] = Described(SDK)
<1>1. at \in 1..Len(Modules) /\ slice \in 1..2
  BY VerificationAssumption DEF IInv, TypeOK
<1>2. Modules[at] \in ModuleSet BY <1>1 DEF ModuleSet
<1>3. Slices[slice] \in SliceSet BY <1>1 DEF SliceSet
<1>4. Modules[at] \in SDKFiles(manifest) BY <1>2 DEF SDKFiles
<1>5. extracted[SDK] = Described(SDK)
  BY DEF IInv, Evidence, ArchivesPassed, Passed, AfterSlices
<1> QED BY <1>1, <1>2, <1>3, <1>4, <1>5, ContentsByName

LEMMA DecodeModuleStep ==
  ASSUME IInv, DecodeModule PROVE IInv'
<1> DEFINE file == <<Slices[slice], Modules[at]>>
<1>1. /\ phase = "decode" /\ UNCHANGED <<fault, directory, extracted, leftover>>
  BY DEF DecodeModule
<1>2. /\ at \in 1..Len(Modules) /\ file \in Contents(manifest, SDK)
      /\ extracted[SDK] = Described(SDK)
  BY <1>1, ModuleInSDK
<1>3. CASE ~Decodable(file)
  <2>1. ASSUME Intact, ~leftover PROVE FALSE
    <3>1. /\ file \in DOMAIN extracted[SDK]
          /\ extracted[SDK][file] = [from |-> Origin(manifest, file), form |-> "whole"]
      BY <1>2, <2>1, IntactFiles
    <3>2. extracted[SDK][file].form = "whole" BY <3>1
    <3>3. decoded = None
      BY <1>1, <2>1 DEF IInv, Evidence, NothingDecoded, Between
    <3> QED BY <1>3, <3>1, <3>2, <3>3, DecodedLengths DEF Decodable, Payload
  <2>2. End("rejected") /\ UNCHANGED <<fault, directory, extracted, decoded, leftover>>
    BY <1>3 DEF DecodeModule, InPayload
  <2> QED BY <2>1, <2>2, RejectStep
<1>4. CASE Decodable(file)
  <2>1. /\ phase' = "compare" /\ at' = at /\ slice' = slice
        /\ fault' = fault /\ manifest' = manifest /\ archives' = archives
        /\ extracted' = extracted /\ leftover' = leftover
        /\ decoded' \in Restored(extracted[SDK][file])
    BY <1>4 DEF DecodeModule, InPayload, Payload, directory
  <2>2. ModuleDecoded'
    <3>1. file \in DOMAIN extracted[SDK]
      BY <1>4 DEF Decodable, Payload
    <3>2. manifest \notin Legacy => extracted[SDK][file].form # "long"
      BY <1>4, DecodedLengths DEF Decodable, Payload
    <3>3. Restored(extracted[SDK][file])' = Restored(extracted[SDK][file])
      BY <2>1 DEF Restored, RestoredForms, Slices
    <3>4. <<Slices[slice], Modules[at]>>' = file BY <2>1 DEF Slices
    <3> HIDE DEF file
    <3> QED BY <2>1, <3>1, <3>2, <3>3, <3>4 DEF ModuleDecoded, Restored, RestoredForms
  <2>3. ArchivesPassed'
    <3>1. Passed(Bridge) /\ Passed(SDK)
      BY <1>1 DEF IInv, Evidence, ArchivesPassed, AfterSlices
    <3>2. Passed(Bridge)' /\ Passed(SDK)' BY <1>1, <2>1, <3>1, SameDirectory
    <3> QED BY <2>1, <3>2 DEF ArchivesPassed
  <2>4. PayloadPassed'
    <3>1. /\ slice = 2 => SlicePassed(1)
          /\ \A kind \in {"notices", "builtins", "foundation"} : Sound(SDK, <<Slices[slice], kind>>)
          /\ \A m \in 1..(at - 1) : Sound(SDK, <<Slices[slice], Modules[m]>>)
      BY <1>1 DEF IInv, Evidence, PayloadPassed
    <3>2. (slice = 2 => SlicePassed(1))' BY <1>1, <2>1, <3>1, SameDirectory
    <3>3. /\ \A kind \in {"notices", "builtins", "foundation"} : Sound(SDK, <<Slices[slice], kind>>)'
          /\ \A m \in 1..(at - 1) : Sound(SDK, <<Slices[slice], Modules[m]>>)'
      BY <2>1, <3>1 DEF Sound, Slices
    <3> QED BY <2>1, <3>2, <3>3 DEF PayloadPassed
  <2>5. SupportPassed' BY <2>1 DEF SupportPassed
  <2>6. NothingDecoded' BY <2>1 DEF NothingDecoded
  <2>7. TypeOK'
    <3>1. SDK \in Archives BY DEF Archives
    <3>2. extracted[SDK][file] \in Content
      BY <1>4, <3>1 DEF IInv, TypeOK, Decodable, Payload
    <3>3. decoded' \in Content BY <2>1, <3>2 DEF Restored, RestoredForms, Content, Forms
    <3>4. DataTypes' BY <2>1, <3>3, TypesInParts DEF IInv, DataTypes, WorkingTypes
    <3>5. PositionTypes' BY <1>1, <2>1, TypesInParts DEF IInv, PositionTypes
    <3> QED BY <3>4, <3>5, TypesInPartsNext
  <2>8. WorkingDirectories' /\ Positions'
    BY <2>1 DEF IInv, WorkingDirectories, Positions, Between
  <2>9. Evidence' BY <2>2, <2>3, <2>4, <2>5, <2>6 DEF Evidence
  <2> QED BY <2>1, <2>7, <2>8, <2>9, GoOnStep
<1> QED BY <1>3, <1>4

(* A module that compares equal is whole, and a whole one compares equal.  *)
LEMMA ComparedModule ==
  ASSUME IInv, phase = "compare"
  PROVE  LET file == <<Slices[slice], Modules[at]>>
         IN /\ decoded = Staged(manifest, SDK, file) => Sound(SDK, file)
            /\ Intact => decoded = Staged(manifest, SDK, file)
<1> DEFINE file == <<Slices[slice], Modules[at]>>
           g == fault[manifest]
<1>1. /\ file \in Contents(manifest, SDK) /\ extracted[SDK] = Described(SDK)
      /\ Modules[at] \in ModuleSet
  BY ModuleInSDK
<1>2. /\ file \in DOMAIN extracted[SDK] /\ decoded \in Restored(extracted[SDK][file])
      /\ manifest \notin Legacy => extracted[SDK][file].form # "long"
  BY DEF IInv, Evidence, ModuleDecoded
<1>3. ASSUME decoded = Staged(manifest, SDK, file) PROVE Sound(SDK, file)
  <2>1. extracted[SDK][file] = [from |-> Origin(manifest, file), form |-> FormIn(g, SDK, file)]
    BY <1>1, <1>2, FileOfPackage DEF Described
  <2>2. extracted[SDK][file].form = FormIn(g, SDK, file) BY <2>1
  <2>3. decoded.form \in {"whole", "unfit"} BY <1>3 DEF Staged
  <2>4. decoded.form \in RestoredForms(extracted[SDK][file].form) BY <1>2 DEF Restored
  <2>5. \/ FormIn(g, SDK, file) = "whole"
        \/ manifest \in Legacy /\ FormIn(g, SDK, file) \in {"short", "long"}
    BY <1>2, <2>2, <2>3, <2>4 DEF RestoredForms
  <2>6. ASSUME manifest \in Legacy, FormIn(g, SDK, file) \in {"short", "long"}
        PROVE  g \in LineFeeds(manifest)
    <3>1. g # None /\ g.archive = SDK /\ g.file = file /\ g.form \in {"short", "long"}
      BY <2>6 DEF FormIn
    <3>2. g \in Faults BY <3>1 DEF IInv, TypeOK
    <3> QED BY <1>1, <2>6, <3>1, <3>2 DEF LineFeeds
  <2> QED BY <2>5, <2>6 DEF Sound, SoundIn
<1>4. ASSUME Intact PROVE decoded = Staged(manifest, SDK, file)
  <2>1. /\ extracted[SDK][file] = Staged(manifest, SDK, file)
        /\ extracted[SDK][file] = [from |-> Origin(manifest, file), form |-> "whole"]
    BY <1>1, <1>4, IntactFiles
  <2>2. extracted[SDK][file].from = Origin(manifest, file) /\ extracted[SDK][file].form = "whole"
    BY <2>1
  <2>3. Restored(extracted[SDK][file])
          = [from : {Origin(manifest, file)}, form : {"whole"}]
    BY <2>2 DEF Restored, RestoredForms
  <2>4. decoded = [from |-> Origin(manifest, file), form |-> "whole"] BY <1>2, <2>3
  <2> QED BY <2>1, <2>4
<1> QED BY <1>3, <1>4

(* Once the last module has passed, the whole slice has.                   *)
LEMMA LastModule ==
  ASSUME IInv, phase = "compare", at = Len(Modules), Sound(SDK, <<Slices[slice], Modules[at]>>)
  PROVE  SlicePassed(slice)
<1> SUFFICES ASSUME NEW kind \in Kinds \union ModuleSet PROVE Sound(SDK, <<Slices[slice], kind>>)
  BY DEF SlicePassed
<1>1. slice \in 1..2 /\ Slices[slice] \in SliceSet BY ModuleInSDK DEF SliceSet
<1>2. CASE kind \in {"binary", "privacy"}
  BY <1>1, <1>2 DEF IInv, Evidence, ArchivesPassed, AfterSlices, Passed
<1>3. CASE kind \in {"notices", "builtins", "foundation"}
  BY <1>3 DEF IInv, Evidence, PayloadPassed
<1>4. CASE kind \in {"sources"} \union SupportContents
  <2>1. kind \notin SDKFiles(manifest)
    BY <1>4, VerificationAssumption DEF SDKFiles, SupportContents, Kinds
  <2>2. <<Slices[slice], kind>> \notin Contents(manifest, SDK) BY <2>1, ContentsByName
  <2> QED BY <2>2 DEF Sound, SoundIn
<1>5. CASE kind \in ModuleSet
  <2>1. PICK m \in 1..Len(Modules) : kind = Modules[m] BY <1>5 DEF ModuleSet
  <2>2. Len(Modules) \in Nat BY VerificationAssumption
  <2>3. m = at \/ m \in 1..(at - 1) BY <2>1, <2>2
  <2>4. \A n \in 1..(at - 1) : Sound(SDK, <<Slices[slice], Modules[n]>>)
    BY DEF IInv, Evidence, PayloadPassed
  <2> QED BY <2>1, <2>3, <2>4
<1> QED BY <1>2, <1>3, <1>4, <1>5 DEF Kinds

LEMMA CompareModuleStep ==
  ASSUME IInv, CompareModule PROVE IInv'
<1> DEFINE file == <<Slices[slice], Modules[at]>>
<1>1. phase = "compare" /\ UNCHANGED <<fault, directory, extracted, leftover>>
  BY DEF CompareModule
<1>2. at \in 1..Len(Modules) /\ slice \in 1..2 /\ Len(Modules) \in Nat
  BY <1>1, ModuleInSDK, VerificationAssumption
<1>3. CASE decoded # Staged(manifest, SDK, file)
  <2>1. ~Intact BY <1>1, <1>3, ComparedModule
  <2>2. End("rejected") /\ UNCHANGED <<fault, directory, extracted, decoded, leftover>>
    BY <1>3 DEF CompareModule, InPayload
  <2> QED BY <2>1, <2>2, RejectStep
<1>4. CASE decoded = Staged(manifest, SDK, file)
  <2>1. /\ fault' = fault /\ manifest' = manifest /\ archives' = archives
        /\ extracted' = extracted /\ leftover' = leftover /\ decoded' = None
        /\ NextModule
    BY <1>4 DEF CompareModule, InPayload, Removed, directory
  <2>2. Sound(SDK, file) BY <1>1, <1>4, ComparedModule
  <2>3. /\ Passed(Bridge) /\ Passed(SDK) /\ (slice = 2 => SlicePassed(1))
        /\ \A kind \in {"notices", "builtins", "foundation"} : Sound(SDK, <<Slices[slice], kind>>)
        /\ \A m \in 1..(at - 1) : Sound(SDK, <<Slices[slice], Modules[m]>>)
    BY <1>1 DEF IInv, Evidence, ArchivesPassed, PayloadPassed, AfterSlices
  <2>4. Passed(Bridge)' /\ Passed(SDK)' BY <1>1, <2>1, <2>3, SameDirectory
  <2>5. CASE at < Len(Modules)
    <3>1. phase' = "decode" /\ at' = at + 1 /\ slice' = slice BY <2>1, <2>5 DEF NextModule
    <3>2. ArchivesPassed' BY <2>4, <3>1 DEF ArchivesPassed
    <3>3. PayloadPassed'
      <4>1. (slice = 2 => SlicePassed(1))' BY <1>1, <2>3, <3>1, SameDirectory
      <4>2. \A m \in 1..at : Sound(SDK, <<Slices[slice], Modules[m]>>)
        <5>1. \A m \in 1..at : m = at \/ m \in 1..(at - 1) BY <1>2
        <5> QED BY <2>2, <2>3, <5>1
      <4>3. /\ \A kind \in {"notices", "builtins", "foundation"} : Sound(SDK, <<Slices[slice], kind>>)'
            /\ \A m \in 1..at : Sound(SDK, <<Slices[slice], Modules[m]>>)'
        BY <2>1, <2>3, <3>1, <4>2 DEF Sound, Slices
      <4>4. at' - 1 = at BY <1>2, <3>1
      <4> QED BY <3>1, <4>1, <4>3, <4>4 DEF PayloadPassed
    <3>4. ModuleDecoded' /\ SupportPassed' BY <3>1 DEF ModuleDecoded, SupportPassed
    <3>5. NothingDecoded' BY <2>1 DEF NothingDecoded
    <3>6. TypeOK'
      <4>1. DataTypes' BY <2>1, TypesInParts DEF IInv, DataTypes, WorkingTypes
      <4>2. PositionTypes' BY <1>2, <2>5, <3>1, TypesInParts DEF IInv, PositionTypes
      <4> QED BY <4>1, <4>2, TypesInPartsNext
    <3>7. WorkingDirectories' /\ Positions'
      BY <2>1, <3>1 DEF IInv, WorkingDirectories, Positions, Between
    <3>8. Evidence' BY <3>2, <3>3, <3>4, <3>5 DEF Evidence
    <3> QED BY <2>1, <3>1, <3>6, <3>7, <3>8, GoOnStep
  <2>6. CASE at = Len(Modules)
    <3>1. /\ at' = 1
          /\ (slice = 1 /\ phase' = "payload" /\ slice' = 2)
               \/ (slice = 2 /\ phase' = "support" /\ slice' = slice)
      BY <1>2, <2>1, <2>6 DEF NextModule
    <3>2. SlicePassed(slice) BY <1>1, <2>2, <2>6, LastModule
    <3>3. SlicePassed(1) /\ (slice = 2 => SlicePassed(2)) BY <2>3, <3>1, <3>2
    <3>4. SlicePassed(1)' /\ (slice = 2 => SlicePassed(2)') BY <1>1, <3>3, SameDirectory
    <3>5. ArchivesPassed' BY <2>4, <3>1 DEF ArchivesPassed
    <3>6. PayloadPassed' BY <3>1, <3>4 DEF PayloadPassed
    <3>7. ModuleDecoded' /\ SupportPassed' BY <3>1 DEF ModuleDecoded, SupportPassed
    <3>8. NothingDecoded' BY <2>1 DEF NothingDecoded
    <3>9. TypeOK'
      <4>1. DataTypes' BY <2>1, TypesInParts DEF IInv, DataTypes, WorkingTypes
      <4>2. PositionTypes' BY <1>2, <3>1, TypesInParts DEF IInv, PositionTypes
      <4> QED BY <4>1, <4>2, TypesInPartsNext
    <3>10. WorkingDirectories' /\ Positions'
      BY <2>1, <3>1 DEF IInv, WorkingDirectories, Positions, Between
    <3>11. Evidence' BY <3>5, <3>6, <3>7, <3>8 DEF Evidence
    <3> QED BY <2>1, <3>1, <3>9, <3>10, <3>11, GoOnStep
  <2> QED BY <1>2, <2>5, <2>6
<1> QED BY <1>3, <1>4

-----------------------------------------------------------------------------
(* The macro support.                                                      *)

LEMMA CheckSupportStep ==
  ASSUME IInv, CheckSupport PROVE IInv'
<1>1. phase = "support" /\ UNCHANGED <<fault, directory, extracted, decoded, leftover>>
  BY DEF CheckSupport, Check
<1>2. /\ at = 1 /\ Passed(Bridge) /\ Passed(SDK) /\ SlicePassed(1) /\ SlicePassed(2)
  BY <1>1 DEF IInv, Evidence, Positions, ArchivesPassed, PayloadPassed, AfterSlices
<1>3. CASE ~Genuine(MacroBuildSupport)
  <2>1. ~Intact BY <1>3 DEF Intact, OneRelease
  <2>2. End("rejected") BY <1>3 DEF CheckSupport, Check
  <2> QED BY <1>1, <2>1, <2>2, RejectStep
<1>4. CASE Genuine(MacroBuildSupport)
  <2>1. /\ phase' = "unpack" /\ at' = at /\ slice' = slice
        /\ fault' = fault /\ manifest' = manifest /\ archives' = archives
        /\ extracted' = extracted /\ decoded' = decoded /\ leftover' = leftover
    BY <1>4 DEF CheckSupport, Check, directory
  <2>2. /\ Passed(Bridge)' /\ Passed(SDK)' /\ SlicePassed(1)' /\ SlicePassed(2)'
    BY <1>1, <1>2, <2>1, SameDirectory
  <2>3. ArchivesPassed' BY <2>1, <2>2 DEF ArchivesPassed
  <2>4. PayloadPassed' /\ ModuleDecoded' BY <2>1, <2>2 DEF PayloadPassed, ModuleDecoded
  <2>5. SupportPassed'
    <3>1. Lying(MacroBuildSupport) = Described(MacroBuildSupport) BY <1>4, PackagesByFault
    <3>2. (Lying(MacroBuildSupport) = Described(MacroBuildSupport))'
      BY <1>1, <3>1, SameDirectory
    <3> QED BY <2>1, <3>2 DEF SupportPassed
  <2>6. NothingDecoded' BY <1>1, <2>1 DEF IInv, Evidence, NothingDecoded, Between
  <2>7. TypeOK'
    <3>1. DataTypes' BY <2>1, TypesInParts DEF IInv, DataTypes, WorkingTypes
    <3>2. PositionTypes' BY <1>1, <2>1, TypesInParts DEF IInv, PositionTypes
    <3> QED BY <3>1, <3>2, TypesInPartsNext
  <2>8. WorkingDirectories' /\ Positions'
    BY <1>2, <2>1 DEF IInv, WorkingDirectories, Positions, Between
  <2>9. Evidence' BY <2>3, <2>4, <2>5, <2>6 DEF Evidence
  <2> QED BY <2>1, <2>7, <2>8, <2>9, GoOnStep
<1> QED BY <1>3, <1>4

LEMMA ExtractSupportStep ==
  ASSUME IInv, ExtractSupport PROVE IInv'
<1>1. /\ phase = "unpack" /\ phase' = "environments" /\ at' = at /\ slice' = slice
      /\ fault' = fault /\ manifest' = manifest /\ archives' = archives
      /\ Extract(MacroBuildSupport) /\ decoded' = decoded /\ leftover' = leftover
      /\ UNCHANGED <<fault, directory>>
  BY DEF ExtractSupport, directory
<1>2. /\ at = 1 /\ Passed(Bridge) /\ Passed(SDK) /\ SlicePassed(1) /\ SlicePassed(2)
      /\ Lying(MacroBuildSupport) = Described(MacroBuildSupport)
  BY <1>1 DEF IInv, Evidence, Positions, ArchivesPassed, PayloadPassed, SupportPassed, AfterSlices
<1>3. MacroBuildSupport \in Archives BY DEF Archives
<1>4. /\ WorkingTypes' /\ WorkingDirectories'
      /\ \A other \in Archives \ {MacroBuildSupport} : extracted'[other] = extracted[other]
      /\ extracted'[MacroBuildSupport] = Lying(MacroBuildSupport)
  BY <1>1, <1>3, ExtractTypes DEF IInv
<1>5. extracted'[Bridge] = extracted[Bridge] /\ extracted'[SDK] = extracted[SDK]
  <2>1. {Bridge, SDK} \subseteq Archives \ {MacroBuildSupport}
    BY VerificationAssumption DEF Archives
  <2> QED BY <1>4, <2>1
<1>6. /\ Passed(Bridge)' /\ Passed(SDK)' /\ SlicePassed(1)' /\ SlicePassed(2)'
  BY <1>1, <1>2, <1>5, SameDirectory
<1>7. ArchivesPassed' BY <1>1, <1>6 DEF ArchivesPassed
<1>8. PayloadPassed' /\ ModuleDecoded' BY <1>1, <1>6 DEF PayloadPassed, ModuleDecoded
<1>9. SupportPassed'
  <2>1. Lying(MacroBuildSupport)' = Described(MacroBuildSupport)'
    BY <1>1, <1>2, SameDirectory
  <2>2. extracted'[MacroBuildSupport] = Described(MacroBuildSupport)'
    BY <1>1, <1>2, <1>4, SameDirectory
  <2> QED BY <2>1, <2>2 DEF SupportPassed
<1>10. NothingDecoded' BY <1>1 DEF IInv, Evidence, NothingDecoded, Between
<1>11. TypeOK'
  <2>1. DataTypes' BY <1>1, <1>4, TypesInParts DEF IInv, DataTypes
  <2>2. PositionTypes' BY <1>1, TypesInParts DEF IInv, PositionTypes
  <2> QED BY <2>1, <2>2, TypesInPartsNext
<1>12. Positions' BY <1>1, <1>2 DEF Positions, Between
<1>13. Evidence' BY <1>7, <1>8, <1>9, <1>10 DEF Evidence
<1> QED BY <1>1, <1>4, <1>11, <1>12, <1>13, GoOnStep

(* An intact macro support passes.                                         *)
LEMMA IntactSupportPasses ==
  ASSUME Intact, extracted[MacroBuildSupport] = Described(MacroBuildSupport)
  PROVE  SupportAccepted
<1> DEFINE files == extracted[MacroBuildSupport]
           g == fault[manifest]
<1>1. ASSUME NEW s \in SliceSet, NEW kind \in SupportContents
      PROVE  /\ <<s, kind>> \in DOMAIN files
             /\ Usable(files[<<s, kind>>])
  <2> DEFINE f == <<s, kind>>
  <2>1. f \in Contents(manifest, MacroBuildSupport)
    BY ContentsByName DEF SupportFiles
  <2>2. FormIn(g, MacroBuildSupport, f) \notin {"lost", "unfit"}
    BY DEF Intact, Unrecorded, FormIn
  <2>3. f \in DOMAIN files BY <2>1, <2>2, FileOfPackage DEF Described
  <2>4. files[f] = [from |-> Origin(manifest, f), form |-> FormIn(g, MacroBuildSupport, f)]
    BY <2>3, FileOfPackage DEF Described
  <2>5. files[f].form # "unfit" BY <2>2, <2>4
  <2> QED BY <2>3, <2>5 DEF Usable
<1>2. ASSUME manifest \notin Legacy
      PROVE  /\ \A s \in SliceSet : <<s, "sources">> \in DOMAIN files
             /\ files[<<Slices[1], "sources">>] = files[<<Slices[2], "sources">>]
  <2>1. ASSUME NEW s \in SliceSet
        PROVE  /\ <<s, "sources">> \in DOMAIN files
               /\ files[<<s, "sources">>] = [from |-> Pinned, form |-> "whole"]
    <3> DEFINE f == <<s, "sources">>
    <3>1. f \in Contents(manifest, MacroBuildSupport)
      BY <1>2, ContentsByName DEF SupportFiles
    <3>2. FormIn(g, MacroBuildSupport, f) = "whole"
      <4>1. f[2] \notin SupportContents BY DEF SupportContents
      <4>2. g = None \/ g.file[2] \in SupportContents BY DEF Intact, Unrecorded
      <4> QED BY <4>1, <4>2 DEF FormIn
    <3>3. Origin(manifest, f) = Pinned BY DEF Origin, FromPinnedInputs
    <3> QED BY <3>1, <3>2, <3>3, WholeFile DEF Described
  <2> QED BY <2>1, SliceList
<1> QED BY <1>1, <1>2 DEF SupportAccepted

(* What has passed the last check leaves no room for a fault that a record *)
(* or an inspection tells.                                                 *)
LEMMA NoFaultIsLeft ==
  ASSUME IInv, phase = "environments", SupportAccepted
  PROVE  fault[manifest] \in {None} \union Unrecorded \union LineFeeds(manifest)
<1> DEFINE g == fault[manifest]
<1> SUFFICES ASSUME g # None, g \notin Unrecorded, g \notin LineFeeds(manifest) PROVE FALSE
  OBVIOUS
<1>1. /\ g \in Faults /\ g.archive \in Archives /\ g.form # "whole"
      /\ g.file \in Contents(manifest, g.archive)
  BY VerificationAssumption DEF IInv, TypeOK, FaultsFit, FaultSet
<1>2. FormIn(g, g.archive, g.file) # "whole" BY <1>1 DEF FormIn
<1>3. /\ Passed(Bridge) /\ Passed(SDK) /\ SlicePassed(1) /\ SlicePassed(2)
      /\ extracted[MacroBuildSupport] = Described(MacroBuildSupport)
  BY DEF IInv, Evidence, ArchivesPassed, PayloadPassed, SupportPassed, AfterSlices
<1>4. CASE g.archive = Bridge
  <2>1. PICK s \in SliceSet, kind \in BridgeFiles : g.file = <<s, kind>>
    BY <1>1, <1>4, ContentsByName
  <2>2. Sound(Bridge, g.file) BY <1>3, <2>1 DEF Passed, BridgeFiles
  <2> QED BY <1>1, <1>2, <1>4, <2>2 DEF Sound, SoundIn
<1>5. CASE g.archive = SDK
  <2>1. PICK s \in SliceSet, kind \in SDKFiles(manifest) : g.file = <<s, kind>>
    BY <1>1, <1>5, ContentsByName
  <2>2. kind \in Kinds \union ModuleSet BY DEF SDKFiles, Kinds
  <2>3. Sound(SDK, g.file) BY <1>3, <2>1, <2>2, SliceList DEF SlicePassed
  <2> QED BY <1>1, <1>2, <1>5, <2>3 DEF Sound, SoundIn
<1>6. CASE g.archive = MacroBuildSupport
  <2>1. PICK s \in SliceSet, kind \in SupportFiles(manifest) : g.file = <<s, kind>>
    BY <1>1, <1>6, ContentsByName
  <2>2. \A f \in DOMAIN extracted[MacroBuildSupport] :
          extracted[MacroBuildSupport][f].form = FormIn(g, MacroBuildSupport, f)
    <3> SUFFICES ASSUME NEW f \in DOMAIN extracted[MacroBuildSupport]
                 PROVE  extracted[MacroBuildSupport][f].form = FormIn(g, MacroBuildSupport, f)
      OBVIOUS
    <3>1. extracted[MacroBuildSupport][f]
            = [from |-> Origin(manifest, f), form |-> FormIn(g, MacroBuildSupport, f)]
      BY <1>3, FileOfPackage DEF Described
    <3> QED BY <3>1
  <2>3. CASE kind \in SupportContents
    <3>1. g.form \in {"lost", "unfit"} BY <1>1, <1>6, <2>1, <2>3 DEF Unrecorded
    <3>2. FormIn(g, MacroBuildSupport, g.file) = g.form BY <1>6 DEF FormIn
    <3>3. g.file \in DOMAIN extracted[MacroBuildSupport]
      BY <2>1, <2>3 DEF SupportAccepted
    <3>4. g.form # "lost"
      <4>1. g.file \in DOMAIN PackagedIn(g, manifest, MacroBuildSupport)
        BY <1>3, <3>3 DEF Described
      <4>2. FormIn(g, MacroBuildSupport, g.file) # "lost"
        BY <4>1 DEF PackagedIn
      <4> QED BY <3>2, <4>2
    <3>5. g.form = "unfit" BY <3>1, <3>4
    <3>6. kind \in Inspected BY <1>1, <2>1, <3>5, VerificationAssumption DEF FaultSet
    <3>7. extracted[MacroBuildSupport][g.file].form # "unfit"
      BY <2>1, <2>3, <3>6 DEF SupportAccepted, Usable
    <3> QED BY <2>2, <3>2, <3>3, <3>5, <3>7
  <2>4. CASE kind = "sources" /\ manifest \notin Legacy
    <3>1. PICK t \in SliceSet : t # s BY SliceList
    <3>2. /\ <<s, "sources">> \in DOMAIN extracted[MacroBuildSupport]
          /\ <<t, "sources">> \in DOMAIN extracted[MacroBuildSupport]
          /\ extracted[MacroBuildSupport][<<s, "sources">>]
               = extracted[MacroBuildSupport][<<t, "sources">>]
      BY <2>4, SliceList DEF SupportAccepted
    <3>3. FormIn(g, MacroBuildSupport, <<s, "sources">>)
            = FormIn(g, MacroBuildSupport, <<t, "sources">>)
      BY <2>2, <3>2
    <3>4. FormIn(g, MacroBuildSupport, <<t, "sources">>) = "whole"
      BY <2>1, <2>4, <3>1 DEF FormIn
    <3> QED BY <1>2, <1>6, <2>1, <2>4, <3>3, <3>4
  <2> QED BY <2>1, <2>3, <2>4 DEF SupportFiles
<1> QED BY <1>1, <1>4, <1>5, <1>6 DEF Archives

LEMMA CheckEnvironmentsStep ==
  ASSUME IInv, CheckEnvironments PROVE IInv'
<1>1. phase = "environments" /\ UNCHANGED <<fault, directory, extracted, decoded, leftover>>
  BY DEF CheckEnvironments
<1>2. /\ Passed(Bridge) /\ Passed(SDK)
      /\ Lying(MacroBuildSupport) = Described(MacroBuildSupport)
      /\ extracted[MacroBuildSupport] = Described(MacroBuildSupport)
  BY <1>1 DEF IInv, Evidence, ArchivesPassed, SupportPassed, AfterSlices
<1>3. CASE ~SupportAccepted
  <2>1. ~Intact BY <1>2, <1>3, IntactSupportPasses
  <2>2. End("rejected") BY <1>3 DEF CheckEnvironments
  <2> QED BY <1>1, <2>1, <2>2, RejectStep
<1>4. CASE SupportAccepted
  <2>1. /\ phase' = "accepted" /\ at' = 1 /\ slice' = 1
        /\ fault' = fault /\ manifest' = manifest /\ archives' = archives
        /\ extracted' = extracted /\ decoded' = decoded /\ leftover' = leftover
    BY <1>4 DEF CheckEnvironments, End, directory
  <2>2. OneRelease
    <3>1. AllGenuine BY <1>2 DEF AllGenuine, Passed, Archives
    <3> QED BY <3>1, ReleaseByFault
  <2>3. AcceptedIsIntact' /\ RejectedForCause'
    <3>1. fault[manifest] \in {None} \union Unrecorded \union LineFeeds(manifest)
      BY <1>1, <1>4, NoFaultIsLeft
    <3>2. (fault[manifest] \in {None} \union Unrecorded \union LineFeeds(manifest))'
      BY <2>1, <3>1 DEF Unrecorded, LineFeeds
    <3>3. OneRelease' BY <1>1, <2>2, SameIntact
    <3> QED BY <2>1, <3>2, <3>3 DEF AcceptedIsIntact, RejectedForCause
  <2>4. Evidence'
    BY <2>1 DEF Evidence, ArchivesPassed, PayloadPassed, ModuleDecoded, SupportPassed,
                NothingDecoded, AfterSlices, Between
  <2>5. TypeOK'
    <3>1. DataTypes' BY <2>1, TypesInParts DEF IInv, DataTypes, WorkingTypes
    <3>2. PositionTypes' BY <2>1, RestingPosition DEF Between
    <3> QED BY <3>1, <3>2, TypesInPartsNext
  <2>6. WorkingDirectories' /\ Positions' BY <2>1 DEF IInv, WorkingDirectories, Positions
  <2>7. FaultsFit' BY <2>1 DEF IInv, FaultsFit
  <2> QED BY <2>3, <2>4, <2>5, <2>6, <2>7 DEF IInv
<1> QED BY <1>3, <1>4

LEMMA StutterStep ==
  ASSUME IInv, UNCHANGED vars PROVE IInv'
<1>1. /\ fault' = fault /\ manifest' = manifest /\ archives' = archives
      /\ extracted' = extracted /\ decoded' = decoded /\ leftover' = leftover
      /\ phase' = phase /\ at' = at /\ slice' = slice /\ UNCHANGED <<fault, directory>>
  BY DEF vars, directory
<1>2. ArchivesPassed'
  <2>1. /\ (phase \in {"archive", "extract", "slices"} /\ at = 2 => Passed(Bridge))'
        /\ (phase \in AfterSlices => Passed(Bridge) /\ Passed(SDK))'
    BY <1>1, SameDirectory DEF IInv, Evidence, ArchivesPassed, AfterSlices
  <2>2. Name' = Name BY <1>1 DEF Name, Names
  <2>3. (phase \in {"extract", "slices"} => Lying(Name) = Described(Name))'
    BY <1>1, <2>2 DEF IInv, Evidence, ArchivesPassed, Lying, Described
  <2>4. (phase = "slices" => extracted[Name] = Described(Name))'
    BY <1>1, <2>2 DEF IInv, Evidence, ArchivesPassed, Described
  <2> QED BY <2>1, <2>3, <2>4 DEF ArchivesPassed
<1>3. PayloadPassed'
  BY <1>1 DEF IInv, Evidence, PayloadPassed, SlicePassed, Sound, Slices
<1>4. ModuleDecoded' BY <1>1 DEF IInv, Evidence, ModuleDecoded, Restored, RestoredForms, Slices
<1>5. SupportPassed' BY <1>1, SameDirectory DEF IInv, Evidence, SupportPassed
<1>6. NothingDecoded' BY <1>1 DEF IInv, Evidence, NothingDecoded, Between
<1>7. AcceptedIsIntact' /\ RejectedForCause'
  BY <1>1, SameIntact DEF IInv, AcceptedIsIntact, RejectedForCause, Unrecorded, LineFeeds
<1>8. TypeOK'
  <2>1. DataTypes' BY <1>1, TypesInParts DEF IInv, DataTypes, WorkingTypes
  <2>2. PositionTypes' BY <1>1, TypesInParts, SliceList DEF IInv, PositionTypes, Names
  <2> QED BY <2>1, <2>2, TypesInPartsNext
<1>9. WorkingDirectories' /\ Positions' /\ FaultsFit'
  BY <1>1 DEF IInv, WorkingDirectories, Positions, FaultsFit, Between
<1>10. Evidence' BY <1>2, <1>3, <1>4, <1>5, <1>6 DEF Evidence
<1> QED BY <1>7, <1>8, <1>9, <1>10 DEF IInv

-----------------------------------------------------------------------------
(* The theorems.                                                           *)

(* The decoder is exact: whatever the lengths, a module is accepted for    *)
(* the declared number of bytes exactly when its stream fills the encoded  *)
(* file, with no byte missing and none behind it, and restores that        *)
(* number, within the limit (ModuleCompression.swift).                     *)
THEOREM DecoderIsExact ==
  \A module \in Encoded, expected \in Nat :
    Decodes(module, expected) <=>
      /\ module.bytes > 0 /\ module.stream = module.bytes
      /\ expected \in 1..MaximumDecodedBytes /\ module.decoded = expected
<1> SUFFICES ASSUME NEW module \in Encoded, NEW expected \in Nat
             PROVE  Decodes(module, expected) <=>
                      /\ module.bytes > 0 /\ module.stream = module.bytes
                      /\ expected \in 1..MaximumDecodedBytes /\ module.decoded = expected
  OBVIOUS
<1>1. module.bytes \in Nat /\ module.stream \in Nat /\ module.decoded \in Nat
  BY DEF Encoded
<1> QED BY <1>1, DecoderAssumption DEF Decodes, AtEnd

(* Every verification's evidence holds in every reachable state.           *)
THEOREM VerificationInvariant == Spec => []IInv
<1>1. IInv /\ [Next]_vars => IInv'
  <2> SUFFICES ASSUME IInv, [Next]_vars PROVE IInv'
    OBVIOUS
  <2>1. CASE Verify
    BY <2>1, StartStep, CheckArchiveStep, ExtractArchiveStep, CheckSlicesStep, CheckPayloadStep,
       DecodeModuleStep, CompareModuleStep, CheckSupportStep, ExtractSupportStep,
       CheckEnvironmentsStep DEF Verify
  <2>2. CASE Abort BY <2>2, AbortStep
  <2>3. CASE \E r \in Releases : CopyManifest(r) \/ \E name \in Archives : CopyArchive(r, name)
    BY <2>3, CopyManifestStep, CopyArchiveStep
  <2>4. CASE UNCHANGED vars BY <2>4, StutterStep
  <2> QED BY <2>1, <2>2, <2>3, <2>4 DEF Next
<1> QED BY <1>1, InitIInv, PTL DEF Spec

(* Types: no list is left at its end, and no file has a form of its own.   *)
THEOREM VerificationTypes == Spec => []TypeOK
<1>1. IInv => TypeOK BY DEF IInv
<1> QED BY <1>1, VerificationInvariant, PTL

(* What verification accepts is of one release and has at most a fault     *)
(* that no record and no inspection tells, whatever lies in its directory  *)
(* from earlier runs (VerifyArtifacts.cmake 46-49, 228-231).               *)
THEOREM AcceptedPackagesAreIntact == Spec => []AcceptedIsIntact
<1>1. IInv => AcceptedIsIntact BY DEF IInv
<1> QED BY <1>1, VerificationInvariant, PTL

(* What it rejects is of two releases or has a fault that is told, unless  *)
(* an earlier run left a decoded module (VerifyArtifacts.cmake 193-215).   *)
THEOREM RejectionsHaveCause == Spec => []RejectedForCause
<1>1. IInv => RejectedForCause BY DEF IInv
<1> QED BY <1>1, VerificationInvariant, PTL
=============================================================================
