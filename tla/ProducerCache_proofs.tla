-------------------------- MODULE ProducerCache_proofs --------------------------
(***************************************************************************)
(* Proofs about ProducerCache for every list of platforms, every list of   *)
(* macro libraries, every number of edits and every content of the inputs. *)
(* What a receipt says of the inputs at hand is proved for a repository    *)
(* that is edited between commands only; that the libraries of a package   *)
(* belong together, whenever it is edited.                                 *)
(***************************************************************************)
EXTENDS ProducerCache, SequenceTheorems, TLAPS

BuildSteps == {"support", "compile", "link", "record", "provenance"}

(* How far the running build has got: what is on disk belongs to the       *)
(* inputs at hand, and the log of the last link is gone.                   *)
BuildProgress ==
  /\ step \in {"compile", "link", "record", "provenance"} => support[current] = inputs["support"]
  /\ step \in {"link", "record", "provenance"} => object = inputs["bridge"]
  /\ step \in {"record", "provenance"} =>
       /\ bridge[current] = [support |-> support[current], object |-> object]
       /\ ~linked[current]
  /\ step = "provenance" =>
       receipt[current] =
         [identity |-> NativeIdentity, files |-> NativeFiles(current), complete |-> FALSE]
  /\ step \in BuildSteps => ~finished[current]

(* A receipt's files are those that its identity leads to.                 *)
ReceiptRight ==
  \A p \in PlatformSet :
    receipt[p] # None => receipt[p].files = FilesOf(receipt[p].identity)

(* A logged link has not been undone: its library is the receipt's.        *)
LinkedRight ==
  \A p \in PlatformSet : linked[p] => receipt[p].files.bridge = bridge[p]

(* A finished build has left a receipt of the inputs at hand, up to the    *)
(* recipes, and of the files on disk.                                      *)
FinishedRight ==
  \A p \in PlatformSet :
    finished[p] =>
      /\ receipt[p] # None
      /\ receipt[p].complete
      /\ receipt[p].identity.support = inputs["support"]
      /\ receipt[p].identity.bridge = inputs["bridge"]
      /\ receipt[p].files = NativeFiles(p)

NativeInv ==
  /\ TypeOK
  /\ BuildProgress
  /\ ReceiptRight
  /\ LinkedRight
  /\ FinishedRight

NativeVars == <<inputs, step, current, next, edits, object, native, finished>>

-----------------------------------------------------------------------------
(* Platforms.                                                              *)
LEMMA PlatformExists == Platforms[1] \in PlatformSet
  BY ProducerAssumption DEF PlatformSet

LEMMA NativeInit == Init => NativeInv
<1> SUFFICES ASSUME Init PROVE NativeInv
  OBVIOUS
<1> USE DEF Init
<1>1. TypeOK
  BY PlatformExists, ProducerAssumption DEF TypeOK
<1>2. BuildProgress /\ ReceiptRight /\ LinkedRight /\ FinishedRight
  BY DEF BuildProgress, ReceiptRight, LinkedRight, FinishedRight, BuildSteps
<1> QED BY <1>1, <1>2 DEF NativeInv

-----------------------------------------------------------------------------
(* The steps of the native build.                                          *)

(* An edit invalidates what has been finished; no build is under way.      *)
LEMMA EditNative ==
  ASSUME NativeInv, ~EditsAnyTime, NEW i \in Inputs, NEW v \in Versions, Edit(i, v)
  PROVE  NativeInv'
<1> USE DEF NativeInv, Edit, native
<1>1. TypeOK'
  BY ProducerAssumption DEF TypeOK
<1>2. BuildProgress'
  BY DEF BuildProgress, BuildSteps
<1>3. ReceiptRight' /\ LinkedRight'
  BY DEF ReceiptRight, LinkedRight
<1>4. FinishedRight'
  BY DEF FinishedRight
<1> QED BY <1>1, <1>2, <1>3, <1>4

LEMMA AbortNative ==
  ASSUME NativeInv, Abort
  PROVE  NativeInv'
<1> USE DEF NativeInv, Abort, native
<1>1. TypeOK'
  BY DEF TypeOK
<1>2. BuildProgress'
  BY DEF BuildProgress, BuildSteps
<1>3. ReceiptRight' /\ LinkedRight' /\ FinishedRight'
  BY DEF ReceiptRight, LinkedRight, FinishedRight, NativeFiles
<1> QED BY <1>1, <1>2, <1>3

LEMMA StartBuildNative ==
  ASSUME NativeInv, NEW p \in PlatformSet, StartBuild(p)
  PROVE  NativeInv'
<1> USE DEF NativeInv, StartBuild, native
<1>1. TypeOK'
  BY DEF TypeOK
<1>2. BuildProgress'
  BY DEF BuildProgress, TypeOK
<1>3. ReceiptRight' /\ LinkedRight'
  BY DEF ReceiptRight, LinkedRight
<1>4. FinishedRight'
  BY DEF FinishedRight, NativeFiles, TypeOK
<1> QED BY <1>1, <1>2, <1>3, <1>4

LEMMA BuildSupportNative ==
  ASSUME NativeInv, BuildSupport
  PROVE  NativeInv'
<1> USE DEF NativeInv, BuildSupport, native
<1>1. inputs["support"] \in Versions /\ ~finished[current]
  BY DEF TypeOK, Inputs, BuildProgress, BuildSteps
<1>2. TypeOK'
  BY <1>1 DEF TypeOK
<1>3. BuildProgress'
  BY <1>1 DEF BuildProgress, TypeOK
<1>4. ReceiptRight' /\ LinkedRight'
  BY DEF ReceiptRight, LinkedRight
<1>5. FinishedRight'
  BY <1>1 DEF FinishedRight, NativeFiles, TypeOK
<1> QED BY <1>2, <1>3, <1>4, <1>5

LEMMA CompileNative ==
  ASSUME NativeInv, Compile
  PROVE  NativeInv'
<1> USE DEF NativeInv, Compile, native
<1>1. TypeOK'
  BY DEF TypeOK, Inputs
<1>2. BuildProgress'
  BY DEF BuildProgress, BuildSteps
<1>3. ReceiptRight' /\ LinkedRight' /\ FinishedRight'
  BY DEF ReceiptRight, LinkedRight, FinishedRight, NativeFiles
<1> QED BY <1>1, <1>2, <1>3

(* A link makes a library of the inputs at hand and clears its log.        *)
LEMMA LinkNative ==
  ASSUME NativeInv, Link
  PROVE  NativeInv'
<1> USE DEF NativeInv, Link, native
<1>1. /\ ~finished[current]
      /\ [support |-> support[current], object |-> object] \in Linked
  BY DEF BuildProgress, BuildSteps, TypeOK, Inputs, Linked
<1>2. TypeOK'
  BY <1>1 DEF TypeOK
<1>3. BuildProgress'
  BY <1>1 DEF BuildProgress, BuildSteps, TypeOK
<1>4. ReceiptRight' /\ LinkedRight'
  BY DEF ReceiptRight, LinkedRight, TypeOK
<1>5. FinishedRight'
  BY <1>1 DEF FinishedRight, NativeFiles, TypeOK
<1> QED BY <1>2, <1>3, <1>4, <1>5

(* A build with nothing to link ends where the last one with a link ended. *)
LEMMA NothingToLinkNative ==
  ASSUME NativeInv, NothingToLink
  PROVE  NativeInv'
<1> USE DEF NativeInv, NothingToLink, native
<1>1. TypeOK'
  BY DEF TypeOK
<1>2. BuildProgress'
  BY DEF BuildProgress, BuildSteps
<1>3. ReceiptRight' /\ LinkedRight'
  BY DEF ReceiptRight, LinkedRight
<1>4. FinishedRight'
  <2> DEFINE r == receipt[current]
  <2>1. /\ r # None /\ r \in Receipts /\ r.complete
        /\ r.files = FilesOf(r.identity) /\ r.files.bridge = bridge[current]
        /\ bridge[current] = [support |-> support[current], object |-> object]
        /\ support[current] = inputs["support"] /\ object = inputs["bridge"]
    BY DEF NeedsLink, TypeOK, ReceiptRight, LinkedRight, BuildProgress
  <2>2. /\ r.files = [support |-> r.identity.support, bridge |-> r.files.bridge]
        /\ r.files.bridge = [support |-> r.identity.support, object |-> r.identity.bridge]
    BY <2>1 DEF FilesOf
  <2>3. r.identity.support = inputs["support"] /\ r.identity.bridge = inputs["bridge"]
    BY <2>1, <2>2
  <2>4. r.files = NativeFiles(current)
    BY <2>1, <2>2, <2>3 DEF NativeFiles
  <2>5. receipt' = receipt /\ inputs' = inputs /\ NativeFiles(current)' = NativeFiles(current)
    BY DEF NativeFiles
  <2>6. SUFFICES ASSUME NEW p \in PlatformSet, finished'[p]
                 PROVE  /\ receipt[p] # None
                        /\ receipt[p].complete
                        /\ receipt[p].identity.support = inputs["support"]
                        /\ receipt[p].identity.bridge = inputs["bridge"]
                        /\ receipt[p].files = NativeFiles(p)
    BY <2>5 DEF FinishedRight, NativeFiles
  <2>7. CASE p = current
    BY <2>1, <2>3, <2>4, <2>7
  <2>8. CASE p # current
    BY <2>6, <2>8 DEF FinishedRight, TypeOK
  <2> QED BY <2>7, <2>8
<1> QED BY <1>1, <1>2, <1>3, <1>4

(* The receipt's first write records the inputs and the files at hand,     *)
(* which belong together because nobody edited since the build started.    *)
LEMMA RecordNative ==
  ASSUME NativeInv, Record
  PROVE  NativeInv'
<1> USE DEF NativeInv, Record, native
<1> DEFINE r == [identity |-> NativeIdentity, files |-> NativeFiles(current), complete |-> FALSE]
<1>1. /\ support[current] = inputs["support"] /\ object = inputs["bridge"]
      /\ bridge[current] = [support |-> support[current], object |-> object]
      /\ ~linked[current] /\ ~finished[current]
  BY DEF BuildProgress, BuildSteps
<1>2. /\ inputs["support"] \in Versions /\ inputs["bridge"] \in Versions
      /\ inputs["recipe"] \in Versions
  BY DEF TypeOK, Inputs
<1>3. r.files = FilesOf(r.identity)
  BY <1>1 DEF FilesOf, NativeIdentity, NativeFiles
<1>4. r \in Receipts
  BY <1>1, <1>2 DEF Receipts, Contents, Linked, NativeIdentity, NativeFiles
<1>5. /\ receipt' = [receipt EXCEPT ![current] = r]
      /\ NativeFiles(current)' = NativeFiles(current)
      /\ NativeIdentity' = NativeIdentity
  BY DEF NativeFiles, NativeIdentity
<1>6. BuildProgress'
  BY <1>1, <1>5 DEF BuildProgress, BuildSteps, TypeOK
<1> HIDE DEF r
<1>7. TypeOK'
  <2>1. receipt' \in [PlatformSet -> Receipts \union {None}]
    BY <1>4, <1>5 DEF TypeOK
  <2>2. \A p \in PlatformSet :
          linked'[p] => bridge'[p] # None /\ receipt'[p] # None /\ receipt'[p].complete
    BY <1>1, <1>5 DEF TypeOK
  <2> QED BY <2>1, <2>2 DEF TypeOK
<1>8. ReceiptRight'
  BY <1>3, <1>5 DEF ReceiptRight, TypeOK
<1>9. LinkedRight'
  BY <1>1, <1>5 DEF LinkedRight, TypeOK
<1>10. FinishedRight'
  BY <1>1, <1>5 DEF FinishedRight, NativeFiles, TypeOK
<1> QED BY <1>6, <1>7, <1>8, <1>9, <1>10

(* The receipt's second write completes the first.                         *)
LEMMA AddProvenanceNative ==
  ASSUME NativeInv, AddProvenance
  PROVE  NativeInv'
<1> USE DEF NativeInv, AddProvenance, native
<1> DEFINE r == [receipt[current] EXCEPT !.complete = TRUE]
           old == [identity |-> NativeIdentity, files |-> NativeFiles(current), complete |-> FALSE]
<1>1. /\ support[current] = inputs["support"] /\ object = inputs["bridge"]
      /\ bridge[current] = [support |-> support[current], object |-> object]
      /\ receipt[current] = old
  BY DEF BuildProgress
<1>2. /\ inputs["support"] \in Versions /\ inputs["bridge"] \in Versions
      /\ inputs["recipe"] \in Versions
  BY DEF TypeOK, Inputs
<1>3. /\ old \in Receipts /\ old.identity = NativeIdentity /\ old.files = NativeFiles(current)
      /\ bridge[current] \in Linked
      /\ NativeFiles(current) = FilesOf(NativeIdentity)
      /\ NativeFiles(current).bridge = bridge[current]
  BY <1>1, <1>2 DEF Receipts, Contents, Linked, FilesOf, NativeIdentity, NativeFiles
<1> HIDE DEF old
<1>4. /\ r \in Receipts /\ r # None /\ bridge[current] # None /\ r.complete
      /\ r.identity = NativeIdentity /\ r.files = NativeFiles(current)
  <2>1. r \in Receipts /\ r.complete /\ r.identity = old.identity /\ r.files = old.files
    BY <1>1, <1>3 DEF Receipts
  <2> QED BY <2>1, <1>3, ProducerAssumption
<1>5. /\ receipt' = [receipt EXCEPT ![current] = r]
      /\ r.files = FilesOf(r.identity)
      /\ r.files.bridge = bridge[current]
  BY <1>3, <1>4
<1>6. /\ NativeIdentity.support = inputs["support"]
      /\ NativeIdentity.bridge = inputs["bridge"]
      /\ \A p \in PlatformSet : NativeFiles(p)' = NativeFiles(p)
  BY DEF NativeFiles, NativeIdentity
<1> HIDE DEF r
<1>7. TypeOK'
  <2>1. receipt' \in [PlatformSet -> Receipts \union {None}]
    BY <1>4, <1>5 DEF TypeOK
  <2>2. \A p \in PlatformSet :
          linked'[p] => bridge'[p] # None /\ receipt'[p] # None /\ receipt'[p].complete
    BY <1>4, <1>5 DEF TypeOK
  <2> QED BY <2>1, <2>2 DEF TypeOK
<1>8. BuildProgress'
  BY DEF BuildProgress, BuildSteps
<1>9. ReceiptRight'
  BY <1>5 DEF ReceiptRight, TypeOK
<1>10. LinkedRight'
  BY <1>5 DEF LinkedRight, TypeOK
<1>11. FinishedRight'
  <2>1. SUFFICES ASSUME NEW p \in PlatformSet, finished'[p]
                 PROVE  /\ receipt'[p] # None
                        /\ receipt'[p].complete
                        /\ receipt'[p].identity.support = inputs["support"]
                        /\ receipt'[p].identity.bridge = inputs["bridge"]
                        /\ receipt'[p].files = NativeFiles(p)
    BY <1>6 DEF FinishedRight
  <2>2. CASE p = current
    <3>1. receipt'[p] = r
      BY <2>2, <1>5 DEF TypeOK
    <3> QED BY <3>1, <2>2, <1>4, <1>5, <1>6
  <2>3. CASE p # current
    <3>1. receipt'[p] = receipt[p] /\ finished[p]
      BY <2>1, <2>3, <1>5 DEF TypeOK
    <3> QED BY <3>1 DEF FinishedRight
  <2> QED BY <2>2, <2>3
<1> QED BY <1>7, <1>8, <1>9, <1>10, <1>11

(* The macro build and packaging leave the native cache alone.             *)
LEMMA OtherNative ==
  ASSUME NativeInv, UNCHANGED <<inputs, edits, object, native, finished>>,
         step' \in {"idle", "macros", "packaging"}, current' \in PlatformSet, next' \in Nat
  PROVE  NativeInv'
<1> USE DEF NativeInv, native
<1>1. TypeOK'
  BY DEF TypeOK
<1>2. BuildProgress'
  BY DEF BuildProgress, BuildSteps
<1>3. ReceiptRight' /\ LinkedRight' /\ FinishedRight'
  BY DEF ReceiptRight, LinkedRight, FinishedRight, NativeFiles
<1> QED BY <1>1, <1>2, <1>3

LEMMA NativeNext ==
  ASSUME NativeInv, ~EditsAnyTime, [Next]_vars
  PROVE  NativeInv'
<1>1. CASE UNCHANGED vars
  BY <1>1 DEF vars, native, NativeInv, TypeOK, BuildProgress, ReceiptRight, LinkedRight,
              FinishedRight, NativeFiles, NativeIdentity
<1>2. ASSUME NEW i \in Inputs, NEW v \in Versions, Edit(i, v) PROVE NativeInv'
  BY <1>2, EditNative
<1>3. ASSUME NEW p \in PlatformSet, StartBuild(p) PROVE NativeInv'
  BY <1>3, StartBuildNative
<1>4. ASSUME NEW p \in PlatformSet, StartMacros(p) PROVE NativeInv'
  BY <1>4, OtherNative DEF StartMacros
<1>5. CASE Abort \/ BuildSupport \/ Compile \/ Link
  BY <1>5, AbortNative, BuildSupportNative, CompileNative, LinkNative
<1>6. CASE NothingToLink \/ Record \/ AddProvenance
  BY <1>6, NothingToLinkNative, RecordNative, AddProvenanceNative
<1>7. CASE BuildMacro \/ RecordMacros
  <2>1. current \in PlatformSet /\ next \in Nat
    BY DEF NativeInv, TypeOK
  <2> QED BY <1>7, <2>1, OtherNative DEF BuildMacro, RecordMacros
<1>8. CASE StartPackage \/ PackagePlatform \/ FinishPackage
  <2>1. current \in PlatformSet /\ next \in Nat
    BY DEF NativeInv, TypeOK
  <2> QED BY <1>8, <2>1, OtherNative DEF StartPackage, PackagePlatform, FinishPackage
<1> QED BY <1>1, <1>2, <1>3, <1>4, <1>5, <1>6, <1>7, <1>8 DEF Next

-----------------------------------------------------------------------------
(* The theorems about the native receipt.                                  *)

(* A receipt that packaging accepts never vouches for files that were not  *)
(* built from the inputs at hand (toolchain_verify_cache).                 *)
THEOREM ReceiptVouches == ASSUME ~EditsAnyTime PROVE Spec => []VouchesForCurrent
<1>1. NativeInv => VouchesForCurrent
  <2> SUFFICES ASSUME NativeInv, NEW p \in PlatformSet, VerifiesNative(p)
               PROVE  NativeFiles(p) = FilesOf(inputs)
    BY DEF VouchesForCurrent
  <2>1. receipt[p].files = FilesOf(receipt[p].identity) /\ receipt[p].identity = NativeIdentity
    BY DEF NativeInv, ReceiptRight, VerifiesNative
  <2>2. FilesOf(NativeIdentity) = FilesOf(inputs)
    BY DEF FilesOf, NativeIdentity
  <2> QED BY <2>1, <2>2 DEF VerifiesNative
<1>2. NativeInv /\ [Next]_vars => NativeInv'
  BY NativeNext
<1> QED BY <1>1, <1>2, NativeInit, PTL DEF Spec

(* Packaging accepts the cache after every build that came to its end,     *)
(* with or without a link (LINK_DEPENDS in CMakeLists.txt).                *)
THEOREM FinishedBuildIsAccepted == ASSUME ~EditsAnyTime PROVE Spec => []FinishedBuildVerifies
<1>1. NativeInv => FinishedBuildVerifies
  <2> SUFFICES ASSUME NativeInv, NEW p \in PlatformSet, finished[p],
                      receipt[p].identity.recipe = inputs["recipe"]
               PROVE  VerifiesNative(p)
    BY DEF FinishedBuildVerifies
  <2>1. /\ receipt[p] # None /\ receipt[p].complete /\ receipt[p].files = NativeFiles(p)
        /\ receipt[p].identity.support = inputs["support"]
        /\ receipt[p].identity.bridge = inputs["bridge"]
    BY DEF NativeInv, FinishedRight
  <2>2. receipt[p].identity \in [support : Versions, bridge : Versions, recipe : Versions]
    BY <2>1 DEF NativeInv, TypeOK, Receipts
  <2>3. receipt[p].identity = NativeIdentity
    BY <2>1, <2>2 DEF NativeIdentity
  <2> QED BY <2>1, <2>3 DEF VerifiesNative
<1>2. NativeInv /\ [Next]_vars => NativeInv'
  BY NativeNext
<1> QED BY <1>1, <1>2, NativeInit, PTL DEF Spec

-----------------------------------------------------------------------------
(* The macro libraries and the package.                                    *)

MacroBuilds == [native : Contents, macro : Versions]
MacroSets == [1..Len(MacroFiles) -> MacroBuilds \union {None}]
MacroReceipts ==
  [identity : [native : Receipts, macro : Versions], files : MacroSets] \union {None}
Copies == [native : Contents, macros : MacroSets]

MacroTypes ==
  /\ macros \in [PlatformSet -> MacroSets]
  /\ macroReceipt \in [PlatformSet -> MacroReceipts]
  /\ copies \in Seq(Copies)

(* The macro libraries of a build that runs are linked against the native  *)
(* files that the native receipt names.                                    *)
MacroProgress ==
  step = "macros" =>
    /\ receipt[current] # None
    /\ receipt[current].files = NativeFiles(current)
    /\ next \in 1..(Len(MacroFiles) + 1)
    /\ \A m \in 1..(next - 1) :
         macros[current][m] = [native |-> NativeFiles(current), macro |-> inputs["macro"]]

(* A macro receipt's files were built as its identity says.                *)
MacroReceiptRight ==
  \A p \in PlatformSet :
    macroReceipt[p] # None =>
      \A m \in 1..Len(MacroFiles) :
        macroReceipt[p].files[m] =
          [native |-> macroReceipt[p].identity.native.files,
           macro |-> macroReceipt[p].identity.macro]

(* A copy that is right for these inputs.                                  *)
GoodCopy(copy, content) ==
  /\ copy.native = FilesOf(content)
  /\ \A m \in 1..Len(MacroFiles) :
       copy.macros[m] = [native |-> copy.native, macro |-> content["macro"]]

(* What the running packaging has copied so far is right.                  *)
CopiesRight ==
  /\ step # "packaging" => copies = <<>>
  /\ step = "packaging" =>
       /\ next \in 1..(Len(Platforms) + 1)
       /\ Len(copies) = next - 1
       /\ \A n \in 1..(next - 1) : GoodCopy(copies[n], inputs)

PackageRight ==
  package # None =>
    \A n \in 1..Len(Platforms) : GoodCopy(package.copies[n], package.inputs)

PackageInv ==
  /\ NativeInv
  /\ MacroTypes
  /\ MacroProgress
  /\ MacroReceiptRight
  /\ CopiesRight
  /\ PackageRight

LEMMA PackageInit == Init => PackageInv
<1> SUFFICES ASSUME Init PROVE PackageInv
  OBVIOUS
<1> USE DEF Init
<1>1. MacroTypes
  BY EmptySeq DEF MacroTypes, MacroSets, MacroReceipts
<1>2. MacroProgress /\ MacroReceiptRight /\ CopiesRight /\ PackageRight
  BY DEF MacroProgress, MacroReceiptRight, CopiesRight, PackageRight
<1> QED BY <1>1, <1>2, NativeInit DEF PackageInv

(* The native build, an edit and an abort change nothing of this.          *)
LEMMA OtherPackage ==
  ASSUME PackageInv, NativeInv', UNCHANGED macro,
         step' \notin {"macros", "packaging"}, copies' = <<>>, package' \in {package, None}
  PROVE  PackageInv'
<1> USE DEF PackageInv, macro
<1>1. MacroTypes'
  BY EmptySeq DEF MacroTypes
<1>2. MacroProgress' /\ CopiesRight'
  BY DEF MacroProgress, CopiesRight
<1>3. MacroReceiptRight'
  BY DEF MacroReceiptRight
<1>4. PackageRight'
  BY DEF PackageRight
<1> QED BY <1>1, <1>2, <1>3, <1>4

(* The macro build starts from a native receipt that it has verified.      *)
LEMMA StartMacrosPackage ==
  ASSUME PackageInv, NativeInv', NEW p \in PlatformSet, StartMacros(p)
  PROVE  PackageInv'
<1> USE DEF PackageInv, StartMacros, native, macro
<1>1. MacroTypes' /\ MacroReceiptRight' /\ PackageRight'
  BY DEF MacroTypes, MacroReceiptRight, PackageRight
<1>2. MacroProgress'
  <2>1. receipt[p] # None /\ receipt[p].files = NativeFiles(p)
    BY DEF VerifiesNative
  <2>2. 1 \in 1..(Len(MacroFiles) + 1) /\ 1..(1 - 1) = {}
    BY ProducerAssumption
  <2> QED BY <2>1, <2>2 DEF MacroProgress, NativeFiles
<1>3. CopiesRight'
  BY DEF CopiesRight
<1> QED BY <1>1, <1>2, <1>3

LEMMA BuildMacroPackage ==
  ASSUME PackageInv, NativeInv', BuildMacro
  PROVE  PackageInv'
<1> USE DEF PackageInv, BuildMacro, native
<1> DEFINE b == [native |-> NativeFiles(current), macro |-> inputs["macro"]]
<1>1. /\ receipt[current] # None /\ receipt[current].files = NativeFiles(current)
      /\ next \in 1..(Len(MacroFiles) + 1) /\ next <= Len(MacroFiles)
      /\ \A m \in 1..(next - 1) : macros[current][m] = b
      /\ current \in PlatformSet
  BY DEF MacroProgress, NativeInv, TypeOK
<1>2. b \in MacroBuilds
  <2>1. receipt[current] \in Receipts /\ inputs["macro"] \in Versions
    BY <1>1 DEF NativeInv, TypeOK, Inputs
  <2>2. NativeFiles(current) \in Contents
    BY <2>1, <1>1 DEF Receipts
  <2> QED BY <2>1, <2>2 DEF MacroBuilds
<1>3. macros' = [macros EXCEPT ![current] = [macros[current] EXCEPT ![next] = b]]
  OBVIOUS
<1>4. /\ b' = b /\ receipt' = receipt /\ current' = current /\ next' = next + 1
      /\ NativeFiles(current)' = NativeFiles(current)
  BY DEF NativeFiles
<1> HIDE DEF b
<1>5. MacroTypes'
  <2>1. macros' \in [PlatformSet -> MacroSets]
    BY <1>1, <1>2, <1>3 DEF MacroTypes, MacroSets
  <2> QED BY <2>1 DEF MacroTypes
<1>6. MacroProgress'
  <2>1. next + 1 \in 1..(Len(MacroFiles) + 1) /\ 1..(next + 1 - 1) = 1..(next - 1) \union {next}
    BY <1>1, ProducerAssumption
  <2>2. \A m \in 1..(next + 1 - 1) : macros'[current][m] = b
    BY <1>1, <1>3, <2>1, ProducerAssumption DEF MacroTypes, MacroSets
  <2> QED BY <1>1, <1>4, <2>1, <2>2 DEF MacroProgress, b
<1>7. MacroReceiptRight' /\ PackageRight'
  BY DEF MacroReceiptRight, PackageRight
<1>8. CopiesRight'
  BY DEF CopiesRight, MacroProgress
<1> QED BY <1>5, <1>6, <1>7, <1>8

(* The macro receipt names the native receipt at hand, whose files are     *)
(* those that the libraries were linked against.                           *)
LEMMA RecordMacrosPackage ==
  ASSUME PackageInv, NativeInv', RecordMacros
  PROVE  PackageInv'
<1> USE DEF PackageInv, RecordMacros, native
<1> DEFINE r == [identity |-> MacroIdentity(current), files |-> macros[current]]
<1>1. /\ receipt[current] # None /\ receipt[current].files = NativeFiles(current)
      /\ receipt[current] \in Receipts
      /\ current \in PlatformSet /\ inputs["macro"] \in Versions
  BY DEF MacroProgress, NativeInv, TypeOK, Inputs
<1>2. \A m \in 1..Len(MacroFiles) :
        macros[current][m] = [native |-> NativeFiles(current), macro |-> inputs["macro"]]
  <2>1. 1..Len(MacroFiles) = 1..(next - 1)
    BY ProducerAssumption DEF MacroProgress
  <2> QED BY <2>1 DEF MacroProgress
<1>3. r \in MacroReceipts
  BY <1>1 DEF MacroReceipts, MacroIdentity, MacroTypes
<1>4. \A m \in 1..Len(MacroFiles) :
        r.files[m] = [native |-> r.identity.native.files, macro |-> r.identity.macro]
  BY <1>1, <1>2 DEF MacroIdentity
<1>5. macroReceipt' = [macroReceipt EXCEPT ![current] = r]
  OBVIOUS
<1> HIDE DEF r
<1>6. MacroTypes'
  BY <1>1, <1>3, <1>5 DEF MacroTypes
<1>7. MacroReceiptRight'
  BY <1>1, <1>4, <1>5 DEF MacroReceiptRight, MacroTypes
<1>8. MacroProgress' /\ CopiesRight' /\ PackageRight'
  BY DEF MacroProgress, CopiesRight, PackageRight
<1> QED BY <1>6, <1>7, <1>8

LEMMA StartPackagePackage ==
  ASSUME PackageInv, NativeInv', StartPackage
  PROVE  PackageInv'
<1> USE DEF PackageInv, StartPackage, native, macro
<1>1. MacroTypes' /\ MacroReceiptRight' /\ PackageRight' /\ MacroProgress'
  BY DEF MacroTypes, MacroReceiptRight, PackageRight, MacroProgress
<1>2. CopiesRight'
  <2>1. copies = <<>> /\ Len(<<>>) = 0 /\ 1 \in 1..(Len(Platforms) + 1) /\ 1..(1 - 1) = {}
    BY ProducerAssumption, EmptySeq DEF CopiesRight
  <2> QED BY <2>1 DEF CopiesRight
<1> QED BY <1>1, <1>2

(* What is copied for a platform has just been verified against both       *)
(* receipts.                                                               *)
LEMMA PackagePlatformPackage ==
  ASSUME PackageInv, NativeInv', PackagePlatform
  PROVE  PackageInv'
<1> USE DEF PackageInv, PackagePlatform, native, macro
<1> DEFINE p == Platforms[next]
           c == [native |-> NativeFiles(p), macros |-> macros[p]]
<1>1. /\ p \in PlatformSet /\ VerifiesNative(p) /\ VerifiesMacros(p)
      /\ next \in 1..(Len(Platforms) + 1) /\ next <= Len(Platforms) /\ Len(copies) = next - 1
      /\ copies \in Seq(Copies)
  BY ProducerAssumption DEF CopiesRight, PlatformSet, MacroTypes
<1>2. /\ receipt[p] # None /\ receipt[p] \in Receipts
      /\ receipt[p].files = NativeFiles(p) /\ NativeFiles(p) \in Contents
  BY <1>1 DEF VerifiesNative, NativeInv, TypeOK, Receipts
<1>3. NativeFiles(p) = FilesOf(inputs)
  <2>1. FilesOf(NativeIdentity) = FilesOf(inputs)
    BY DEF FilesOf, NativeIdentity
  <2> QED BY <1>1, <1>2, <2>1 DEF VerifiesNative, NativeInv, ReceiptRight
<1>4. \A m \in 1..Len(MacroFiles) :
        macros[p][m] = [native |-> NativeFiles(p), macro |-> inputs["macro"]]
  <2>1. macroReceipt[p] # None /\ macroReceipt[p].files = macros[p]
    BY <1>1 DEF VerifiesMacros
  <2>2. /\ macroReceipt[p].identity.native = receipt[p]
        /\ macroReceipt[p].identity.macro = inputs["macro"]
    BY <1>1 DEF VerifiesMacros, MacroIdentity
  <2> QED BY <1>1, <1>2, <2>1, <2>2 DEF MacroReceiptRight
<1>5. c \in Copies /\ GoodCopy(c, inputs)
  BY <1>1, <1>2, <1>3, <1>4 DEF Copies, GoodCopy, MacroTypes
<1>6. copies' = Append(copies, c) /\ next' = next + 1 /\ inputs' = inputs /\ step' = step
  OBVIOUS
<1> HIDE DEF c, p
<1>7. /\ copies' \in Seq(Copies) /\ Len(copies') = Len(copies) + 1
      /\ \A n \in 1..Len(copies) : copies'[n] = copies[n]
      /\ copies'[Len(copies) + 1] = c
  BY <1>1, <1>5, <1>6
<1>8. CopiesRight'
  <2>1. /\ next + 1 \in 1..(Len(Platforms) + 1) /\ Len(copies') = (next + 1) - 1
        /\ \A n \in 1..((next + 1) - 1) : n \in 1..(next - 1) \/ n = next
        /\ Len(copies) + 1 = next /\ 1..Len(copies) = 1..(next - 1)
    BY <1>1, <1>7, ProducerAssumption, SMTT(60)
  <2>2. \A n \in 1..(next - 1) : copies'[n] = copies[n] /\ GoodCopy(copies[n], inputs)
    BY <1>7, <2>1 DEF CopiesRight
  <2>3. copies'[next] = c
    BY <1>7, <2>1
  <2>4. \A n \in 1..((next + 1) - 1) : GoodCopy(copies'[n], inputs)
    BY <1>5, <2>1, <2>2, <2>3
  <2> QED BY <1>6, <2>1, <2>4 DEF CopiesRight, GoodCopy, FilesOf
<1>9. MacroTypes' /\ MacroReceiptRight' /\ PackageRight' /\ MacroProgress'
  BY <1>7 DEF MacroTypes, MacroReceiptRight, PackageRight, MacroProgress
<1> QED BY <1>8, <1>9

LEMMA FinishPackagePackage ==
  ASSUME PackageInv, NativeInv', FinishPackage
  PROVE  PackageInv'
<1> USE DEF PackageInv, FinishPackage, native, macro
<1>1. MacroTypes'
  BY EmptySeq DEF MacroTypes
<1>2. MacroReceiptRight' /\ MacroProgress' /\ CopiesRight'
  BY DEF MacroReceiptRight, MacroProgress, CopiesRight
<1>3. PackageRight'
  <2>1. 1..Len(Platforms) = 1..(next - 1)
    BY ProducerAssumption DEF CopiesRight
  <2>2. \A n \in 1..Len(Platforms) : GoodCopy(copies[n], inputs)
    BY <2>1 DEF CopiesRight
  <2>3. package'.copies = copies /\ package'.inputs = inputs
    OBVIOUS
  <2> QED BY <2>2, <2>3 DEF PackageRight
<1> QED BY <1>1, <1>2, <1>3

LEMMA PackageNext ==
  ASSUME PackageInv, ~EditsAnyTime, [Next]_vars
  PROVE  PackageInv'
<1>1. NativeInv'
  BY NativeNext DEF PackageInv
<1>2. CASE UNCHANGED vars
  BY <1>1, <1>2 DEF vars, native, macro, PackageInv, MacroTypes, MacroProgress,
       MacroReceiptRight, CopiesRight, PackageRight, GoodCopy, NativeFiles
<1>3. ASSUME NEW i \in Inputs, NEW v \in Versions, Edit(i, v) PROVE PackageInv'
  <2>1. step = "idle" /\ step' = step /\ copies' = copies /\ copies = <<>>
    BY <1>3 DEF Edit, PackageInv, CopiesRight
  <2> QED BY <1>1, <1>3, <2>1, OtherPackage DEF Edit
<1>4. CASE Abort
  BY <1>1, <1>4, OtherPackage DEF Abort
<1>5. ASSUME NEW p \in PlatformSet, StartBuild(p) PROVE PackageInv'
  BY <1>1, <1>5, OtherPackage DEF StartBuild, PackageInv, CopiesRight
<1>6. ASSUME NEW p \in PlatformSet, StartMacros(p) PROVE PackageInv'
  BY <1>1, <1>6, StartMacrosPackage
<1>7. CASE BuildSupport \/ Compile \/ Link \/ NothingToLink \/ Record \/ AddProvenance
  <2>1. /\ UNCHANGED <<macro, copies, package>> /\ copies = <<>>
        /\ step' \in BuildSteps \union {"idle"}
    BY <1>7 DEF BuildSupport, Compile, Link, NothingToLink, Record, AddProvenance, native,
                BuildSteps, PackageInv, CopiesRight
  <2> QED BY <1>1, <2>1, OtherPackage DEF BuildSteps
<1>8. CASE BuildMacro \/ RecordMacros
  BY <1>1, <1>8, BuildMacroPackage, RecordMacrosPackage
<1>9. CASE StartPackage \/ PackagePlatform \/ FinishPackage
  BY <1>1, <1>9, StartPackagePackage, PackagePlatformPackage, FinishPackagePackage
<1> QED BY <1>2, <1>3, <1>4, <1>5, <1>6, <1>7, <1>8, <1>9 DEF Next

(* Every platform of a package comes from the inputs of the packaging, and *)
(* its macro libraries were linked against the native libraries beside     *)
(* them (PrepareNativeFrameworks.cmake, PackageArtifacts.cmake).           *)
THEOREM PackagesAreCurrent == ASSUME ~EditsAnyTime PROVE Spec => []PackageIsCurrent
<1>1. PackageInv => PackageIsCurrent
  BY DEF PackageInv, PackageRight, GoodCopy, PackageIsCurrent
<1>2. PackageInv /\ [Next]_vars => PackageInv'
  BY PackageNext
<1> QED BY <1>1, <1>2, PackageInit, PTL DEF Spec
-----------------------------------------------------------------------------
(* Edits at any time.  What does not depend on the inputs at hand holds    *)
(* even when they change while a command runs: a receipt may then vouch    *)
(* for libraries of other inputs, but never for libraries that do not      *)
(* belong together.                                                        *)

(* How far the running build has got on disk.                              *)
DiskProgress ==
  /\ step \in {"compile", "link", "record", "provenance"} => support[current] \in Versions
  /\ step \in {"link", "record", "provenance"} => object \in Versions
  /\ step \in {"record", "provenance"} =>
       /\ bridge[current] = [support |-> support[current], object |-> object]
       /\ ~linked[current]
  /\ step = "provenance" =>
       receipt[current] \in Receipts /\ receipt[current].files = NativeFiles(current)

(* The bridge in a receipt was linked against the support modules in it.   *)
ReceiptWhole ==
  \A p \in PlatformSet :
    receipt[p] # None => receipt[p].files.bridge.support = receipt[p].files.support

DiskInv == TypeOK /\ DiskProgress /\ ReceiptWhole

LEMMA DiskInit == Init => DiskInv
BY NativeInit DEF NativeInv, DiskInv, Init, DiskProgress, ReceiptWhole

(* The steps that leave the native files and receipts alone, edits of the  *)
(* repository among them.                                                  *)
LEMMA OtherDisk ==
  ASSUME DiskInv, UNCHANGED native, inputs' \in [Inputs -> Versions], edits' \in 0..MaxEdits,
         current' \in PlatformSet, next' \in Nat, object' \in Versions \union {None},
         finished' \in [PlatformSet -> BOOLEAN],
         \/ step' \in {"idle", "support", "macros", "packaging"}
         \/ step' = step /\ current' = current /\ object' = object
  PROVE  DiskInv'
<1> USE DEF DiskInv, native
<1>1. TypeOK'
  BY DEF TypeOK
<1>2. DiskProgress'
  BY DEF DiskProgress, NativeFiles
<1>3. ReceiptWhole'
  BY DEF ReceiptWhole
<1> QED BY <1>1, <1>2, <1>3

(* The first two steps of a build write the support modules and compile.   *)
LEMMA CompileDisk ==
  ASSUME DiskInv, BuildSupport \/ Compile
  PROVE  DiskInv'
<1> USE DEF DiskInv, BuildSupport, Compile, native
<1>1. TypeOK'
  BY DEF TypeOK, Inputs
<1>2. DiskProgress'
  BY DEF DiskProgress, TypeOK, Inputs
<1>3. ReceiptWhole'
  BY DEF ReceiptWhole
<1> QED BY <1>1, <1>2, <1>3

LEMMA LinkDisk ==
  ASSUME DiskInv, Link
  PROVE  DiskInv'
<1> USE DEF DiskInv, Link, native
<1>1. [support |-> support[current], object |-> object] \in Linked
  BY DEF DiskProgress, Linked
<1>2. TypeOK'
  BY <1>1 DEF TypeOK
<1>3. DiskProgress'
  BY DEF DiskProgress, TypeOK
<1>4. ReceiptWhole'
  BY DEF ReceiptWhole
<1> QED BY <1>2, <1>3, <1>4

LEMMA NothingToLinkDisk ==
  ASSUME DiskInv, NothingToLink
  PROVE  DiskInv'
<1> USE DEF DiskInv, NothingToLink
<1>1. TypeOK
  OBVIOUS
<1>2. /\ UNCHANGED <<native, inputs, edits, current, next>> /\ step' = "idle" /\ object' = None
      /\ finished' \in [PlatformSet -> BOOLEAN]
  BY DEF TypeOK
<1> QED BY <1>1, <1>2, OtherDisk DEF TypeOK

(* The receipt's first write: whatever the inputs are by now, its files    *)
(* are those on disk, and the bridge there was linked against the support  *)
(* modules there.                                                          *)
LEMMA RecordDisk ==
  ASSUME DiskInv, Record
  PROVE  DiskInv'
<1> USE DEF DiskInv, Record, native
<1> DEFINE r == [identity |-> NativeIdentity, files |-> NativeFiles(current), complete |-> FALSE]
<1>1. /\ support[current] \in Versions /\ object \in Versions
      /\ bridge[current] = [support |-> support[current], object |-> object]
      /\ ~linked[current] /\ current \in PlatformSet
  BY DEF DiskProgress, TypeOK
<1>2. /\ inputs["support"] \in Versions /\ inputs["bridge"] \in Versions
      /\ inputs["recipe"] \in Versions
  BY DEF TypeOK, Inputs
<1>3. r \in Receipts
  BY <1>1, <1>2 DEF Receipts, Contents, Linked, NativeIdentity, NativeFiles
<1>4. r.files = NativeFiles(current) /\ r.files.bridge.support = r.files.support
  BY <1>1 DEF NativeFiles
<1>5. /\ receipt' = [receipt EXCEPT ![current] = r]
      /\ NativeFiles(current)' = NativeFiles(current)
  BY DEF NativeFiles
<1> HIDE DEF r
<1>6. TypeOK'
  <2>1. receipt' \in [PlatformSet -> Receipts \union {None}]
    BY <1>3, <1>5 DEF TypeOK
  <2>2. \A p \in PlatformSet :
          linked'[p] => bridge'[p] # None /\ receipt'[p] # None /\ receipt'[p].complete
    BY <1>1, <1>5 DEF TypeOK
  <2> QED BY <2>1, <2>2 DEF TypeOK
<1>7. DiskProgress'
  BY <1>1, <1>3, <1>4, <1>5 DEF DiskProgress, TypeOK
<1>8. ReceiptWhole'
  BY <1>4, <1>5 DEF ReceiptWhole, TypeOK
<1> QED BY <1>6, <1>7, <1>8

LEMMA AddProvenanceDisk ==
  ASSUME DiskInv, AddProvenance
  PROVE  DiskInv'
<1> USE DEF DiskInv, AddProvenance, native
<1> DEFINE r == [receipt[current] EXCEPT !.complete = TRUE]
<1>1. /\ receipt[current] \in Receipts /\ receipt[current].files = NativeFiles(current)
      /\ bridge[current] = [support |-> support[current], object |-> object]
      /\ support[current] \in Versions /\ object \in Versions /\ current \in PlatformSet
  BY DEF DiskProgress, TypeOK
<1>2. bridge[current] \in Linked
  BY <1>1 DEF Linked
<1>3. /\ r \in Receipts /\ r.complete /\ r.files = NativeFiles(current)
      /\ NativeFiles(current).bridge.support = NativeFiles(current).support
  <2>1. r \in Receipts /\ r.complete /\ r.files = receipt[current].files
    BY <1>1 DEF Receipts
  <2>2. NativeFiles(current).bridge.support = NativeFiles(current).support
    BY <1>1 DEF NativeFiles
  <2> QED BY <1>1, <2>1, <2>2
<1>4. receipt' = [receipt EXCEPT ![current] = r]
  OBVIOUS
<1> HIDE DEF r
<1>5. r # None /\ bridge[current] # None
  BY <1>2, <1>3, ProducerAssumption
<1>6. TypeOK'
  <2>1. receipt' \in [PlatformSet -> Receipts \union {None}]
    BY <1>3, <1>4 DEF TypeOK
  <2>2. \A p \in PlatformSet :
          linked'[p] => bridge'[p] # None /\ receipt'[p] # None /\ receipt'[p].complete
    BY <1>3, <1>4, <1>5 DEF TypeOK
  <2> QED BY <2>1, <2>2 DEF TypeOK
<1>7. DiskProgress'
  BY DEF DiskProgress
<1>8. ReceiptWhole'
  BY <1>3, <1>4 DEF ReceiptWhole, TypeOK
<1> QED BY <1>6, <1>7, <1>8

LEMMA DiskNext ==
  ASSUME DiskInv, [Next]_vars
  PROVE  DiskInv'
<1> TypeOK
  BY DEF DiskInv
<1>1. CASE UNCHANGED vars
  BY <1>1, OtherDisk DEF vars, native, TypeOK
<1>2. ASSUME NEW i \in Inputs, NEW v \in Versions, Edit(i, v) PROVE DiskInv'
  <2>1. inputs' \in [Inputs -> Versions] /\ edits' \in 0..MaxEdits
    BY <1>2, ProducerAssumption DEF Edit, TypeOK
  <2> QED BY <1>2, <2>1, OtherDisk DEF Edit, TypeOK
<1>3. ASSUME NEW p \in PlatformSet, StartBuild(p) \/ StartMacros(p) PROVE DiskInv'
  <2>1. CASE StartBuild(p)
    BY <2>1, OtherDisk DEF StartBuild, TypeOK
  <2>2. CASE StartMacros(p)
    BY <2>2, OtherDisk DEF StartMacros, TypeOK
  <2> QED BY <1>3, <2>1, <2>2
<1>4. CASE Abort \/ BuildMacro \/ RecordMacros \/ StartPackage \/ PackagePlatform \/ FinishPackage
  BY <1>4, OtherDisk DEF Abort, BuildMacro, RecordMacros, StartPackage, PackagePlatform,
     FinishPackage, TypeOK
<1>5. CASE BuildSupport \/ Compile \/ Link
  BY <1>5, CompileDisk, LinkDisk
<1>6. CASE NothingToLink \/ Record \/ AddProvenance
  BY <1>6, NothingToLinkDisk, RecordDisk, AddProvenanceDisk
<1> QED BY <1>1, <1>2, <1>3, <1>4, <1>5, <1>6 DEF Next

(* Every variable keeps its type, and a logged link has left a receipt     *)
(* with its provenance (RecordNativeCache.cmake), whenever the repository  *)
(* is edited.                                                              *)
THEOREM CacheTypes == Spec => []TypeOK
<1>1. DiskInv => TypeOK
  BY DEF DiskInv
<1>2. DiskInv /\ [Next]_vars => DiskInv'
  BY DiskNext
<1> QED BY <1>1, <1>2, DiskInit, PTL DEF Spec

(* The macro libraries of a build that runs are linked against the native  *)
(* files that the native receipt names, whatever their own inputs were.    *)
MacroLinks ==
  step = "macros" =>
    /\ receipt[current] # None
    /\ receipt[current].files = NativeFiles(current)
    /\ next \in 1..(Len(MacroFiles) + 1)
    /\ \A m \in 1..(next - 1) : macros[current][m].native = NativeFiles(current)

(* The macro libraries in a receipt were linked against the native files   *)
(* of the native receipt that it names.                                    *)
MacroReceiptWhole ==
  \A p \in PlatformSet :
    macroReceipt[p] # None =>
      \A m \in 1..Len(MacroFiles) :
        macroReceipt[p].files[m].native = macroReceipt[p].identity.native.files

(* The libraries of a copy were linked against one another.                *)
WholeCopy(copy) ==
  /\ copy.native.bridge.support = copy.native.support
  /\ \A m \in 1..Len(MacroFiles) : copy.macros[m].native = copy.native

CopiesWhole ==
  /\ step # "packaging" => copies = <<>>
  /\ step = "packaging" =>
       /\ next \in 1..(Len(Platforms) + 1)
       /\ Len(copies) = next - 1
       /\ \A n \in 1..(next - 1) : WholeCopy(copies[n])

(* Within each platform of a package, the bridge was linked against the    *)
(* support modules and every macro library against the native libraries    *)
(* that are packaged beside it.                                            *)
PackageIsOfOnePiece ==
  package # None => \A n \in 1..Len(Platforms) : WholeCopy(package.copies[n])

WholeInv ==
  /\ DiskInv
  /\ MacroTypes
  /\ MacroLinks
  /\ MacroReceiptWhole
  /\ CopiesWhole
  /\ PackageIsOfOnePiece

LEMMA WholeInit == Init => WholeInv
<1>1. Init => MacroTypes
  BY PackageInit DEF PackageInv
<1>2. Init => MacroLinks /\ MacroReceiptWhole /\ CopiesWhole /\ PackageIsOfOnePiece
  BY DEF Init, MacroLinks, MacroReceiptWhole, CopiesWhole, PackageIsOfOnePiece
<1> QED BY <1>1, <1>2, DiskInit DEF WholeInv

(* A step of the native build, or an abort.                                *)
LEMMA OtherWhole ==
  ASSUME WholeInv, DiskInv', UNCHANGED macro,
         step' \notin {"macros", "packaging"}, copies' = <<>>, package' \in {package, None}
  PROVE  WholeInv'
<1> USE DEF WholeInv, macro
<1>1. MacroTypes'
  BY EmptySeq DEF MacroTypes
<1>2. MacroLinks' /\ CopiesWhole'
  BY DEF MacroLinks, CopiesWhole
<1>3. MacroReceiptWhole'
  BY DEF MacroReceiptWhole
<1>4. PackageIsOfOnePiece'
  BY DEF PackageIsOfOnePiece
<1> QED BY <1>1, <1>2, <1>3, <1>4

(* An edit, in whatever command it comes.                                  *)
LEMMA EditWhole ==
  ASSUME WholeInv, DiskInv', UNCHANGED <<step, current, next, native, macro, copies, package>>
  PROVE  WholeInv'
BY DEF WholeInv, native, macro, MacroTypes, MacroLinks, MacroReceiptWhole, CopiesWhole,
       PackageIsOfOnePiece, NativeFiles

(* The macro build starts from a native receipt that it has verified.      *)
LEMMA StartMacrosWhole ==
  ASSUME WholeInv, DiskInv', NEW p \in PlatformSet, StartMacros(p)
  PROVE  WholeInv'
<1> USE DEF WholeInv, StartMacros, native, macro
<1>1. MacroTypes' /\ MacroReceiptWhole' /\ PackageIsOfOnePiece'
  BY DEF MacroTypes, MacroReceiptWhole, PackageIsOfOnePiece
<1>2. MacroLinks'
  <2>1. receipt[p] # None /\ receipt[p].files = NativeFiles(p)
    BY DEF VerifiesNative
  <2>2. 1 \in 1..(Len(MacroFiles) + 1) /\ 1..(1 - 1) = {}
    BY ProducerAssumption
  <2> QED BY <2>1, <2>2 DEF MacroLinks, NativeFiles
<1>3. CopiesWhole'
  BY DEF CopiesWhole
<1> QED BY <1>1, <1>2, <1>3

LEMMA BuildMacroWhole ==
  ASSUME WholeInv, DiskInv', BuildMacro
  PROVE  WholeInv'
<1> USE DEF WholeInv, BuildMacro, native
<1> DEFINE b == [native |-> NativeFiles(current), macro |-> inputs["macro"]]
<1>1. /\ receipt[current] # None /\ receipt[current].files = NativeFiles(current)
      /\ next \in 1..(Len(MacroFiles) + 1) /\ next <= Len(MacroFiles)
      /\ \A m \in 1..(next - 1) : macros[current][m].native = NativeFiles(current)
      /\ current \in PlatformSet
  BY DEF MacroLinks, DiskInv, TypeOK
<1>2. b \in MacroBuilds
  <2>1. receipt[current] \in Receipts /\ inputs["macro"] \in Versions
    BY <1>1 DEF DiskInv, TypeOK, Inputs
  <2>2. NativeFiles(current) \in Contents
    BY <2>1, <1>1 DEF Receipts
  <2> QED BY <2>1, <2>2 DEF MacroBuilds
<1>3. macros' = [macros EXCEPT ![current] = [macros[current] EXCEPT ![next] = b]]
  OBVIOUS
<1>4. /\ receipt' = receipt /\ current' = current /\ next' = next + 1
      /\ NativeFiles(current)' = NativeFiles(current)
      /\ b.native = NativeFiles(current)
  BY DEF NativeFiles
<1> HIDE DEF b
<1>5. MacroTypes'
  <2>1. macros' \in [PlatformSet -> MacroSets]
    BY <1>1, <1>2, <1>3 DEF MacroTypes, MacroSets
  <2> QED BY <2>1 DEF MacroTypes
<1>6. MacroLinks'
  <2>1. next + 1 \in 1..(Len(MacroFiles) + 1) /\ 1..(next + 1 - 1) = 1..(next - 1) \union {next}
    BY <1>1, ProducerAssumption
  <2>2. \A m \in 1..(next + 1 - 1) : macros'[current][m].native = NativeFiles(current)
    BY <1>1, <1>3, <1>4, <2>1, ProducerAssumption DEF MacroTypes, MacroSets
  <2> QED BY <1>1, <1>4, <2>1, <2>2 DEF MacroLinks
<1>7. MacroReceiptWhole' /\ PackageIsOfOnePiece'
  BY DEF MacroReceiptWhole, PackageIsOfOnePiece
<1>8. CopiesWhole'
  BY DEF CopiesWhole, MacroLinks
<1> QED BY <1>5, <1>6, <1>7, <1>8

LEMMA RecordMacrosWhole ==
  ASSUME WholeInv, DiskInv', RecordMacros
  PROVE  WholeInv'
<1> USE DEF WholeInv, RecordMacros, native
<1> DEFINE r == [identity |-> MacroIdentity(current), files |-> macros[current]]
<1>1. /\ receipt[current] # None /\ receipt[current].files = NativeFiles(current)
      /\ receipt[current] \in Receipts
      /\ current \in PlatformSet /\ inputs["macro"] \in Versions
  BY DEF MacroLinks, DiskInv, TypeOK, Inputs
<1>2. \A m \in 1..Len(MacroFiles) : macros[current][m].native = NativeFiles(current)
  <2>1. 1..Len(MacroFiles) = 1..(next - 1)
    BY ProducerAssumption DEF MacroLinks
  <2> QED BY <2>1 DEF MacroLinks
<1>3. r \in MacroReceipts
  BY <1>1 DEF MacroReceipts, MacroIdentity, MacroTypes
<1>4. \A m \in 1..Len(MacroFiles) : r.files[m].native = r.identity.native.files
  BY <1>1, <1>2 DEF MacroIdentity
<1>5. macroReceipt' = [macroReceipt EXCEPT ![current] = r]
  OBVIOUS
<1> HIDE DEF r
<1>6. MacroTypes'
  BY <1>1, <1>3, <1>5 DEF MacroTypes
<1>7. MacroReceiptWhole'
  BY <1>1, <1>4, <1>5 DEF MacroReceiptWhole, MacroTypes
<1>8. MacroLinks' /\ CopiesWhole' /\ PackageIsOfOnePiece'
  BY DEF MacroLinks, CopiesWhole, PackageIsOfOnePiece
<1> QED BY <1>6, <1>7, <1>8

LEMMA StartPackageWhole ==
  ASSUME WholeInv, DiskInv', StartPackage
  PROVE  WholeInv'
<1> USE DEF WholeInv, StartPackage, native, macro
<1>1. MacroTypes' /\ MacroReceiptWhole' /\ PackageIsOfOnePiece' /\ MacroLinks'
  BY DEF MacroTypes, MacroReceiptWhole, PackageIsOfOnePiece, MacroLinks
<1>2. CopiesWhole'
  <2>1. copies = <<>> /\ Len(<<>>) = 0 /\ 1 \in 1..(Len(Platforms) + 1) /\ 1..(1 - 1) = {}
    BY ProducerAssumption, EmptySeq DEF CopiesWhole
  <2> QED BY <2>1 DEF CopiesWhole
<1> QED BY <1>1, <1>2

(* The two receipts that are verified before the copy tie the macro        *)
(* libraries to the native files, and the native files to each other.      *)
LEMMA PackagePlatformWhole ==
  ASSUME WholeInv, DiskInv', PackagePlatform
  PROVE  WholeInv'
<1> USE DEF WholeInv, PackagePlatform, native, macro
<1> DEFINE p == Platforms[next]
           c == [native |-> NativeFiles(p), macros |-> macros[p]]
<1>1. /\ p \in PlatformSet /\ VerifiesNative(p) /\ VerifiesMacros(p)
      /\ next \in 1..(Len(Platforms) + 1) /\ next <= Len(Platforms) /\ Len(copies) = next - 1
      /\ copies \in Seq(Copies)
  BY ProducerAssumption DEF CopiesWhole, PlatformSet, MacroTypes
<1>2. /\ receipt[p] # None /\ receipt[p] \in Receipts
      /\ receipt[p].files = NativeFiles(p) /\ NativeFiles(p) \in Contents
  BY <1>1 DEF VerifiesNative, DiskInv, TypeOK, Receipts
<1>3. NativeFiles(p).bridge.support = NativeFiles(p).support
  <2>1. receipt[p].files.bridge.support = receipt[p].files.support
    BY <1>1, <1>2 DEF DiskInv, ReceiptWhole
  <2> QED BY <1>2, <2>1
<1>4. \A m \in 1..Len(MacroFiles) : macros[p][m].native = NativeFiles(p)
  <2>1. macroReceipt[p] # None /\ macroReceipt[p].files = macros[p]
    BY <1>1 DEF VerifiesMacros
  <2>2. macroReceipt[p].identity.native = receipt[p]
    BY <1>1 DEF VerifiesMacros, MacroIdentity
  <2> QED BY <1>1, <1>2, <2>1, <2>2 DEF MacroReceiptWhole
<1>5. c \in Copies /\ WholeCopy(c)
  BY <1>1, <1>2, <1>3, <1>4 DEF Copies, WholeCopy, MacroTypes
<1>6. copies' = Append(copies, c) /\ next' = next + 1 /\ step' = step
  OBVIOUS
<1> HIDE DEF c, p
<1>7. /\ copies' \in Seq(Copies) /\ Len(copies') = Len(copies) + 1
      /\ \A n \in 1..Len(copies) : copies'[n] = copies[n]
      /\ copies'[Len(copies) + 1] = c
  BY <1>1, <1>5, <1>6
<1>8. CopiesWhole'
  <2>1. /\ next + 1 \in 1..(Len(Platforms) + 1) /\ Len(copies') = (next + 1) - 1
        /\ \A n \in 1..((next + 1) - 1) : n \in 1..(next - 1) \/ n = next
        /\ Len(copies) + 1 = next /\ 1..Len(copies) = 1..(next - 1)
    BY <1>1, <1>7, ProducerAssumption, SMTT(60)
  <2>2. \A n \in 1..(next - 1) : copies'[n] = copies[n] /\ WholeCopy(copies[n])
    BY <1>7, <2>1 DEF CopiesWhole
  <2>3. copies'[next] = c
    BY <1>7, <2>1
  <2>4. \A n \in 1..((next + 1) - 1) : WholeCopy(copies'[n])
    BY <1>5, <2>1, <2>2, <2>3
  <2> QED BY <1>6, <2>1, <2>4 DEF CopiesWhole, WholeCopy
<1>9. MacroTypes' /\ MacroReceiptWhole' /\ PackageIsOfOnePiece' /\ MacroLinks'
  BY <1>7 DEF MacroTypes, MacroReceiptWhole, PackageIsOfOnePiece, MacroLinks
<1> QED BY <1>8, <1>9

LEMMA FinishPackageWhole ==
  ASSUME WholeInv, DiskInv', FinishPackage
  PROVE  WholeInv'
<1> USE DEF WholeInv, FinishPackage, native, macro
<1>1. MacroTypes'
  BY EmptySeq DEF MacroTypes
<1>2. MacroReceiptWhole' /\ MacroLinks' /\ CopiesWhole'
  BY DEF MacroReceiptWhole, MacroLinks, CopiesWhole
<1>3. PackageIsOfOnePiece'
  <2>1. 1..Len(Platforms) = 1..(next - 1)
    BY ProducerAssumption DEF CopiesWhole
  <2>2. \A n \in 1..Len(Platforms) : WholeCopy(copies[n])
    BY <2>1 DEF CopiesWhole
  <2>3. package'.copies = copies
    OBVIOUS
  <2> QED BY <2>2, <2>3 DEF PackageIsOfOnePiece
<1> QED BY <1>1, <1>2, <1>3

LEMMA WholeNext ==
  ASSUME WholeInv, [Next]_vars
  PROVE  WholeInv'
<1>1. DiskInv'
  BY DiskNext DEF WholeInv
<1>2. CASE UNCHANGED vars
  BY <1>1, <1>2, EditWhole DEF vars
<1>3. ASSUME NEW i \in Inputs, NEW v \in Versions, Edit(i, v) PROVE WholeInv'
  BY <1>1, <1>3, EditWhole DEF Edit
<1>4. CASE Abort
  BY <1>1, <1>4, OtherWhole DEF Abort
<1>5. ASSUME NEW p \in PlatformSet, StartBuild(p) PROVE WholeInv'
  BY <1>1, <1>5, OtherWhole DEF StartBuild, WholeInv, CopiesWhole
<1>6. ASSUME NEW p \in PlatformSet, StartMacros(p) PROVE WholeInv'
  BY <1>1, <1>6, StartMacrosWhole
<1>7. CASE BuildSupport \/ Compile \/ Link \/ NothingToLink \/ Record \/ AddProvenance
  <2>1. /\ UNCHANGED <<macro, copies, package>> /\ copies = <<>>
        /\ step' \in BuildSteps \union {"idle"}
    BY <1>7 DEF BuildSupport, Compile, Link, NothingToLink, Record, AddProvenance, native,
                BuildSteps, WholeInv, CopiesWhole
  <2> QED BY <1>1, <2>1, OtherWhole DEF BuildSteps
<1>8. CASE BuildMacro \/ RecordMacros
  BY <1>1, <1>8, BuildMacroWhole, RecordMacrosWhole
<1>9. CASE StartPackage \/ PackagePlatform \/ FinishPackage
  BY <1>1, <1>9, StartPackageWhole, PackagePlatformWhole, FinishPackageWhole
<1> QED BY <1>2, <1>3, <1>4, <1>5, <1>6, <1>7, <1>8, <1>9 DEF Next

(* Whenever the repository is edited, also while a command runs, a package *)
(* never puts libraries of different builds side by side: each platform's  *)
(* bridge and macro libraries were linked against the very libraries they  *)
(* ship with (toolchain_verify_cache of both receipts,                     *)
(* PrepareNativeFrameworks.cmake).                                         *)
THEOREM PackagesAreOfOnePiece == Spec => []PackageIsOfOnePiece
<1>1. WholeInv => PackageIsOfOnePiece
  BY DEF WholeInv
<1>2. WholeInv /\ [Next]_vars => WholeInv'
  BY WholeNext
<1> QED BY <1>1, <1>2, WholeInit, PTL DEF Spec
=============================================================================
