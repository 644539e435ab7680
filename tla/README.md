# A verification project for the Swift toolchain on iOS

This directory holds TLA+ models of the program in this repository, the TLC
configurations that check them on small instances, and TLAPS proofs of the
properties that hold for every size. Paths are relative to the root of the
repository. Section 1 is the inventory of the system, section 2 the plan,
section 3 describes each model, section 4 the runs and their bounds, section 5
the fairness, section 6 the proofs, section 7 where code and documentation part,
and section 8 what is left out.

To run it: `tlc -workers 2 -config X.cfg M` checks module `M`, and
`tlapm X_proofs.tla` checks the proofs of module `X`.

## 1. The system and its parts

The repository builds a Swift compiler that runs inside an iOS application. Three
kinds of code carry its logic.

### 1.1 The bridge that an application calls

**Compiler bridge** (`Sources/CompilerBridge/SwiftCompilerBridge.cpp`, with
`SwiftCompilerBridge.h`, `CompilerBackend.h`, `NativeBackend.cpp`).
*State*: the operation lock, the sticky flag `sessionReusable`, the cancellation
mutex, the running request with a pointer to its flag, the list of early
cancellations (at most 64). *Operations*: frontend, autolink, link, complete,
annotate, cancel, reset, release. *Interaction*: calls one backend at a time under
the operation lock; a cancellation comes from any thread and takes only the
cancellation mutex. *Hard*: a cancellation races the submission, registration, run
and end of its request and of the next one (lines 47-64, 188-204); a failed link,
or a failed allocation, closes the session for every caller, also for those that
already wait for the lock (66-77, 103); a reset races a completion (206-209); a
backend that does not end holds the lock. *Correct when*: operations come one
after another; no cancellation is lost unless 64 others displaced it; no
cancellation hits another request; a closed session stays closed; the cancelled
request lets the others in.

**Annotation backend** (`AnnotationBackend.cpp`, with `SemanticSupport.cpp`).
*State*: one compiler instance for each request, the bridge's flag attached to it
or not, the diagnostics and references collected. *Operations*: prepare, set up,
type-check, walk, SILGen, SIL passes, write. *Interaction*: the solver polls the
bridge's flag from inside; macros run through the macro bridge. *Hard*: a
cancellation may arrive in or between any two phases, and a solver that gave up
looks like a source error; the walk and SILGen type-check on demand, and what they
find is reported too, as are errors of the other inputs. *Correct when*: a document
is never partial, its diagnostics are the first of those that the code has, SILGen
never sees an expression that a cancellation failed, and a cancelled type check ends.

**Completion backend** (`CompletionBackend.cpp`). *State*: the completion context
kept between requests, that is, its directory, the module results, the
type-checked AST. *Operations*: `runCompletion`, `resetCompletion`, the scan for
the identifier, filtering, ranking and cutting of the list. *Interaction*: the
bridge's lock and flag; a directory on disk that outlives the process. *Hard*:
stale contexts (other arguments, another file, before a reset), requests that
alternate between directories, the process that ends in the middle; a comparator
that must be a strict weak order; cursors at the edges of texts and characters.

**Macro bridge** (`Sources/MacroBridge/MacroEntry.cpp`). *State*: a once flag, the
marker on the main queue, the request's fields on the caller's stack. *Operation*:
`swift_inproc_plugins_handle_message`. *Interaction*: an operation that holds the
operation lock waits for the main queue, on which the application works too.
*Hard*: nested messages, a main queue that has left the main thread, the deadlock
between the main queue and the lock. *Correct when*: the handler only runs on the
main queue, the stack's fields outlive every use, and nothing but the documented
misuse gets stuck.

**Native profile** (`Sources/NativeProfile/BundledPluginPolicy.cpp`, called from
`Patches/RestrictedSwiftNativeProfile.patch`) resolves a plugin's path to the
executable of a framework in the bundle, once for the argument and once more for
the load. **File system metadata** (`Sources/AppleFileSystemMetadata`) tells LLVM
whether a path or an open file is on a local volume. *State*: what the compiler's
options keep of an accepted argument, and what Core Foundation lends a query. *Hard*:
a symbolic link is turned elsewhere between the check of a path and the `dlopen` of
it; a query fails half way with something to release; a reply that says nothing reads
like "remote". *Correct when*: what is opened is what was accepted, and an answer is
true or an error.

### 1.2 The recipe that builds and ships it

**Producer cache** (`CMake/CacheManifest.cmake`, `RecordNativeCache.cmake`,
`ArtifactInputs.cmake`, `BuildMacros.cmake`, `PrepareNativeFrameworks.cmake`,
`PackageArtifacts.cmake`, `Sources/CompilerBridge/CMakeLists.txt`). *State*: the
libraries and support modules of each platform, the native receipt, the macro
libraries and their receipt. *Operations*: build, relink, record, add provenance,
build macros, verify, package. *Hard*: a command that is killed between two
writes, an edit after which only a part is built again, a reverted edit, macro
libraries that were linked against native libraries since replaced. *Correct
when*: packaging accepts nothing that was not built from the inputs at hand, and
accepts what a finished build leaves.

**Package verification** (`CMake/VerifyArtifacts.cmake`, `ArtifactHelpers.cmake`,
`PrepareSDK.cmake`, `ModuleCompression.swift`) checks a package's archives against
the manifest, unpacks them, compares the files that have a record (executables, the
privacy declaration, notices, guest libraries, modules) with it, and inspects
executables, support libraries and the macro support's metadata. *State*: the output directory with its archives and
manifest, and the working directory `Verification`, which outlives the run.
*Operations*: for each framework check, extract and inspect; the SDK's records; each
module decoded, compared, removed; the macro support. *Hard*: files that an earlier,
perhaps interrupted run over another package left behind; streams that end a byte
early or late. *Correct when*: it accepts only what packaging made, and rejects only
for a cause.

**Source preparation** (`CMake/SourceCache.cmake`) extracts and patches pinned
sources, shared by the platforms. **Guest libraries**, **notices** and the
**native configuration** are sequential scripts and data.

### 1.3 The maintenance tool

`Sources/ToolchainSupport` and `Tools/ToolchainCLI`: the artifact manifest's
validation, the module codec, and the rules for commits and repository files.
They are pure functions of files; the manifest and the codec have the logic that
is worth a model.

`PROJECT.json` lists every component with its status, and every hazard with the
line where it bites and the properties that cover it.

## 2. The plan

| order | modules | composes | state |
| --- | --- | --- | --- |
| 1 | `CompilerBridge`, `SerialSession` | the bridge with its callers; implements the abstract session | checked and proved |
| 2 | `CancellationRecency` | the bridge with a history of cancellations | checked |
| 3 | `AnnotationBackend`, `CancellableBackend` | the backend implements what the bridge assumes | checked; safety and refinement proved, for the bridge's side too; cancellation within n + 1 steps proved |
| 4 | `CompletionBackend`, `CompletionList` | the context between requests; one request from cursor to document | checked and proved |
| 5 | `MacroEntry` | the adapter with the lock and the main queue | checked; safety, the absence of other deadlocks and the bound on an operation's steps proved |
| 6 | `ProducerCache` | build, receipts, macros and packaging | checked, safety proved |
| 7 | `ArtifactVerification`, `ModuleCompression` | the verifier with the codec, over an output directory that outlives it | checked and proved |
| 8 | `NativeQueries` | the plugin policy with the compiler's two calls of it, and the metadata queries, in a file system that changes | checked and proved |

The order put the bridge first, since every caller meets it, then its backends,
then the recipe. Section 8 says what the plan leaves out.

## 3. The models

### CompilerBridge

`pc` places each thread in its call: `idle`, `waiting` for the operation lock,
`entered`, `beginning`, `calling`, `running`, `ending`, `copying`, `returning`. One
action stands for each critical section or for code between two of them:
`RejectSession`, `RejectArguments` and `Accept` are `invoke`'s checks under the
lock, `BeginCancelled`/`BeginRegistered` are `beginCancellable`, `EndCancellable`
is `endCancellable`, `CopyResult`/`CopyFails` are `copyResult`, and `CancelRunning`,
`CancelAgain`, `CancelEarly` are the three ways through
`swift_compiler_cancel_completion`. A backend returns any result that its kind may
return; "cancelled" only after it has seen its flag. `Poisoning` are the
operations whose backend may leave the session unusable: the linker alone passes on
what lld says of running again (`NativeBackend.cpp` 48-75). `used`, `requested` and `forgotten` are history. Request identifiers are
unique, as the header demands of the caller.

`SerialSession` is what the bridge promises: each call takes effect at one instant
between its submission and its return. The refinement maps the copying of the
result, or the reset, to that instant. What the bridge promises its backends is
`ServesBackend`, the other side of the contract below.

`CancellationRecency` adds the order in which identifiers were last cancelled, for
the question of which one is displaced.

### AnnotationBackend and CancellableBackend

The phases of `runAnnotation` are the values of `phase`. A file is a sequence of
expressions, each with what the walk sees of it, what the compiler says of it, and
when it is type-checked: with the file, by the walk, or by SILGen (`Times`). Code of
the other inputs, whose errors the compiler reports as well, counts as expressions
that the walk does not see. What a check reports goes through the collector, whoever
asked for the check, so an error that SILGen's own check finds is listed and sets
`hadError`, and the passes run nevertheless. `attached` says whether the solver
polls the flag; `unsolved` holds what it gave up. `CancellableBackend` is what the
bridge assumes: the flag only goes up, one result, "cancelled" only after the flag,
and the session stays usable. `Spec` is one request, which the annotation implements;
`ServiceSpec` adds `Begin`, the fresh flag of the next request, which is the contract
as the bridge sees it. Whether a diagnostic has an offset (it has one in the primary
file, 261-262) is left out.

### CompletionBackend and CompletionList

`CompletionBackend` follows `runCompletion` through opening the state, preparing,
consulting module results and answering, with resets and relaunches of the process
at any point. A context carries what it was made for (`arguments`, `file`, `epoch`)
beside the identity that the code compares, so a wrong comparison shows. A module's
results reach memory first (`ConsultModule`) and the directory in a step of its own
(`WriteModule`), between which the process may end; `unwritten` is what is on its way.
A write that fails without ending the process is not modelled. The flag
belongs to a request from `Start` on; its last value stays until the next one.

`CompletionList` is one request: the bridge's check of the offset and the backend's
backward scan, on classes of bytes; the compiler's diagnostics, of which the
collector keeps the first errors; and `writeResults` with the two bucket functions:
filter, stable sort, cut. The sort is specified as what `std::stable_sort` leaves,
which exists because the comparator is a strict weak order; scores are numbers, and
names are places in the alphabet. Scores are natural numbers, so a score that is not
a number, which would break any comparator, is outside the model.

### MacroEntry

Callers hold the operation lock, send messages, run handlers directly or through
the queue, and handlers send messages themselves. `frames` is the stack of handlers
that a caller is in. The main queue is a first-in-first-out queue that serves the
application's own work as well; `mainThread` says whether the main thread still
belongs to it, which `dispatch_main` changes.

### NativeQueries

One query at a time runs, one system call a step, and between any two steps `Relink`
turns an alias elsewhere or `Replace` changes a file outside of the bundle. A plugin's
path is resolved twice: `ParseArgument` and `AcceptArgument` for the compiler's
options, `LoadLibrary`, `AcceptLoad` and `Open` for the load. `named` is the history
of what the accepted argument stood for. `held` are the Core Foundation objects that
the query owns. A descriptor stands for the file that it was opened on, whatever its
path leads to since; `Replies` are the kernel's replies, whole or cut short, with or
without the flags.

### ProducerCache

A file is its provenance: a library is the record of what it was linked from, a
receipt is the record of the inputs and files that it hashed. A build is the
sequence support, compile, link, record, provenance; `linked` is the build system's
log of the link edge, which includes the post-link command, so a link whose receipt
failed is done again. `Abort` ends any command after any step. Inputs are grouped by
what an edit of them leads to: other support modules, other objects of the bridge,
nothing (a recipe that no build rule depends on), or other macros. One command runs
at a time.

### ArtifactVerification and ModuleCompression

A file is where it came from and what happened to it; its digest is the file itself.
`Staged` is a file as packaging hashed it, `Packaged` an archive as it was zipped,
after Xcode has combined the slices, so that a fault between the two shows only in
the checks inside the archive. Files that the pinned inputs alone determine are the
same in every release. `extracted` and `decoded` are the working directory, which
every run finds as the last one left it; `Abort` ends a run after any step, also
between a removal and an extraction. Copies from other releases come one file at a
time. Releases in `Legacy` have no guest records, no Foundation macros and Base64
modules; a byte at the end of such a text may be a line feed, which its decoder leaves
out, so `Restored` is a choice. The macro support's sources are compared with each
other; of its other files (`SupportContents`) the modules must exist, the libraries
and the metadata must pass an inspection, and no content is compared. A fault there
that is neither a loss nor unfitness is in `Unrecorded`: the verification accepts it,
and the properties say so. `ModuleCompression` is the decoder by lengths, with the byte of input that
is held back and the byte of output to spare. The manifest's header is taken to fit
the checkout; the frameworks other than the bridge and the SDK are checked as the
bridge is, and are left out.

## 4. The runs

| run | what it asks | bounds and why they are enough |
| --- | --- | --- |
| `bridge_safety` | one operation at a time, no lost and no stray cancellation, a context in use exists, the list of early cancellations and its order, a closed session is final, the serial session is implemented | two threads, three identifiers, two remembered: a third cancellation displaces the first while two requests race; every operation; threads and identifiers are symmetric, which no property of this run tells apart |
| `bridge_live` | a cancelled request returns; cancelling it lets a waiter in | two threads, two identifiers, one remembered, one operation of each kind (link, complete, reset); no symmetry, which liveness would not allow |
| `cancellation_recency` | a recent cancellation is remembered (violated, section 7) | one thread, three identifiers, two remembered |
| `annotation` | complete references, the first diagnostics, sound lowering, honoured cancellation, the abstract backend, an end after cancellation | files of up to two expressions of every kind and time of their check, and a limit of two diagnostics, so that the limit is exceeded by the type check, by SILGen and by the SIL passes |
| `completion_context` | a reused context matches the request and is current, memory is on disk but for one write, directories do not mix | two directories and results in memory only, two names of one file and another file, two modules, two resets or relaunches |
| `completion_list` | the filter is the whole identifier, the first errors are kept, strict weak order, best results in order and within the limit | every text of up to four characters of one to three bytes with every offset; diagnostics that exceed the limit of the collector with warnings between; lists of three results, which is what transitivity needs, from a set with every bucket, both kinds of bad results and ties; limits of one and two items |
| `completion_bad_last` | filtered lists rank bad results last (violated, section 7) | lists of two |
| `native_queries` | the loader opens what was accepted, locality is true or an error, nothing stays allocated | an alias, two frameworks in the bundle and files outside of it, on local and remote volumes; every change of links and files between any two calls |
| `macro_entry` | handlers on the main queue, fields alive, one documented deadlock only, operations end | two threads and the main queue's own calls, three messages, handlers two deep |
| `producer_cache` | receipts vouch for current files, a finished build verifies, a package is of one piece | two platforms, two macro libraries, two edits, which makes an edit and its reversal |
| `producer_cache_race` | the same with edits during a command (violated, section 7) | one platform |
| `artifact_verification` | what is accepted is of one release without a fault that is told, what is rejected is not | an earlier and two current releases, two modules, one release at fault in one of fifteen ways, one for each check and one that no check tells; any mix of their files, any number of runs. The current releases are symmetric |

`macro_entry` does not check for deadlock, since the system does stop in the
documented way; `OnlyMainGetsStuck` states that there is no other. All other runs
check it. The type invariants of `CompilerBridge`, `CompletionList`, `MacroEntry`
and `ArtifactVerification` are proved and not listed in a run.

Every property has a mutant in `PROJECT.json`: a change of a modelled definition,
such as a dropped lookup or a wrong order, under which TLC finds the property
violated.

## 5. Fairness

* The bridge: a thread that holds the lock goes on, and a free lock goes to *some*
  waiter; which one is not promised, so there is no property about one waiter. A
  backend that cannot be cancelled ends. A completion or an annotation is promised
  to end only after its flag is set: a type check may run for as long as it likes.
  The three promises are `WF` of `LockGranted`, `HolderProceeds` and `BackendEnds`,
  each for whichever thread it is: only one thread at a time is past the lock.
* The annotation: phases go on, and a solver that polls a set flag gives up; an
  uncancelled solver need not end, which makes `CancellationEndsTypeCheck` a
  statement about the flag.
* The macros: the main queue serves its blocks in order, the application's own work
  on it ends, a free lock goes to some waiter, and handlers end. `OperationsEnd`
  excludes the state in which the application calls the compiler from the main queue.

The other models are checked for safety only.

## 6. The proofs

**`CompilerBridge_proofs`**, for every set of threads and identifiers, every bound
on remembered cancellations: type correctness, each safety invariant, `PoisonIsFinal`, and the refinement of
`SerialSession` (`BridgeImplementsSession`), step by step: a call takes effect when
its result is copied, and every other step is a stutter of the session. The invariant
`Inv` is the conjunction of the properties and of parts that make it inductive:
`RegisteredRequest` (the table names the running request exactly while one runs),
`CancellationTable` (the list is bounded, without repetitions, and holds only what
was cancelled and not displaced), `CallsFit` (identifiers belong to one call),
`StillWaits` (a cancellation that was not displaced waits in the list while its
request has not begun; without it, `NoLostCancellation` would not survive
`BeginRegistered`), and `OutcomeFits` (only the thread inside can have changed the
session since it looked; `PoisonIsFinal` needs it). One lemma for each action shows
that it keeps `Inv`; lemmas on sequences describe the erasure and the displacement.

`NoLostCancellation` excepts displaced cancellations. Two theorems say what that
exception is: `OldestMakesRoom` (an identifier is displaced only when as many others
as the list has places stay in it) and `FewCancellationsArrive` (as long as no more
identifiers were cancelled than there are places, nothing is excepted). The second
rests on a count: the displaced identifiers are none while the cancelled ones are
few, since the identifiers of a list that is one too long are all among them, and a
list without repetitions has as many members as places (`DistinctCardinality`).
`TableIsQueue` says which one is displaced (`FirstInFirstOut` of `bridge_safety`): every step keeps the order of the
identifiers that stay, a new one comes last, and the one that is pushed out is the
one that has waited longest, however often it was cancelled again. It is a statement
about order and not about places, since an erasure moves places: lemmas say what
erasing, appending and dropping the first do to the order of a list without
repetitions (`EraseOrder`, `AppendOrder`, `TailOrder`). The finding on re-cancelling in
section 7 is thus what the table does for every bound, and not an accident of a small one.

`ResultTellsOfSession` is about the flag that a caller acts on: from the moment a
result is decided until the call has returned, its `canRunAgain` says whether the
session is reusable. The lock is given back only with the return, so no other call can
spoil the session in between; a call refused as poisoned takes the same way out.

The bridge keeps its side of the backends' contract (`BridgeServesBackend`): seen
through the registered request, its steps are those of `CancellableBackend`, where
the end of a backend is `BackendReturns` and the handover to the next request
`Begin`. With `AnnotationIsBackend`, the annotation's side and the bridge's are
proved against one specification. For the completion there is no such theorem: when
it is cancelled, and that it leaves the session usable, is decided in the compiler's
inspection instance, which is external to the model.

Liveness: `CancelledRequestsReturn` and `CancellationsUnblock` prove the two
properties of `bridge_live` for every number of threads and identifiers from
`FairSpec` and `[]CanProceed`. A request goes from step to step under the lock; for
each step the proof shows that only the promised step changes it, that the
cancellation's flag stays set in it, and that the promised step leads to the next,
and the temporal prover chains them. That the promised steps can be taken speaks of
`ENABLED`, which the prover does not expand: it is the theorems' hypothesis
`[]CanProceed`. It holds by the shape of the actions, whose guards for one `pc` are
complementary, and is no property of the code.

**`MacroEntry_proofs`**, for every set of threads, number of messages and depth of
nesting. `ActorIsolated` is not inductive. The strengthening says that whoever is in
a handler, also while it sends a message, is whom the main queue runs; that only
an outermost handler came through the queue; and that a blocked caller is in no
handler, which holds because the marker was installed before its check.

`OnlyDocumentedDeadlock` shows that the documented deadlock is the only one. `Stuck`
is stated through the guards (`Runnable`, `MainQueueRuns`), not through `ENABLED`. The
argument follows who waits for whom: a waiting caller waits for the lock
(`OperationHeld`: somebody inside holds it), its holder is blocked in
`dispatch_sync`, so its block is queued (`PostedIsQueued`), and it is not served, so
somebody is on the main queue (`MainQueueOwned`). A worker there would be in a handler
(`HandlersEntered`) and could go on. What is left is the application's own caller,
and it waits for the lock. `OneOperation` comes from the same invariant.

That operations end is liveness, but its core is proved. An operation's `Work` counts
four for each message it has still to send, one for each handler it is in, and what is
left of the present step. `OperationsShrink` shows that every step of the operation
makes it smaller, nested handlers included, and that no step of anybody else makes it
larger; while the caller is blocked in `dispatch_sync`, the number of turns before its
own on the main queue only falls, since others line up behind it. `HolderIsNeverStuck`
shows that the lock's holder has between 1 and `4 * MaxMessages + 1` of this work left
and a step of its own, or the main queue has one, or the application waits on the main
queue itself. Hence an operation takes at most `4 * MaxMessages` steps before its return.

**`ProducerCache_proofs`**, for every list of platforms and macro libraries, every
number of edits and set of contents, under the assumption that edits fall between
commands (`~EditsAnyTime`; section 7 shows that it is needed). The invariant follows
the build: what is on disk belongs to the inputs at hand from the support modules
on, a receipt's files are those its identity leads to, and a logged link has not
been undone. Packages then follow from the two verifications in sequence.

What stays true when edits fall anywhere is `PackagesAreOfOnePiece`: a package may be
of old inputs, but its files belong together, since a receipt's digests, right or
wrong about the inputs, are those of files that were linked with each other. Its
invariant (`WholeInv`) therefore says nothing of the inputs at hand: the bridge in a
receipt was linked with the support modules in it (`ReceiptWhole`), the macro libraries
of a running build with the native files that lie there (`MacroLinks`), and the ones in
a receipt with the files of the native receipt that it names (`MacroReceiptWhole`). `CacheTypes` needs no assumption on edits either.

**`AnnotationBackend_proofs`**, for every request, however long its file, and every
limit on diagnostics: every safety property, and the refinement of
`CancellableBackend` (`AnnotationIsBackend`). What makes them inductive is a count of
what each phase has left to do: the references are those of the expressions the walk
has passed, the diagnostics the first of those of the expressions treated so far, by
the type check, the walk, SILGen and the passes in turn, and both only as long as the
solver gave nothing up; that it gave something up implies that the flag is set, so
the check at the phase's end sees it. `DiagnosticsAreFirst` also says when SIL is left
out: exactly for an error of the type check or the walk that the code has.
`LoweringStaysSound` says that SILGen begins without an error, that no cancellation
makes one afterwards, and hence that an error which the passes meet is one that
SILGen's own check found in the code.

Two theorems carry the argument for `CancellationEndsTypeCheck`. While it checks and
walks, the compiler has the flag (`FlagAttached`), so a cancelled request always has a
next step that needs no answer from the solver (`CancelledCheckCanStop`; that there is
a first expression among those left rests on the well-foundedness of finite sets).
Every step that it then takes treats one expression less or ends the request as
cancelled (`CancelledCheckShrinks`): with n expressions left it returns within n + 1 steps.

**`CompletionBackend_proofs`**, for any directories, links, modules and requests. A
kept context's identity is that of its own arguments and file, its epoch is the
current one, and the results in memory are in the state's directory, but for the
module that is being written.

**`CompletionList_proofs`**, for every text, list and limit. The comparator is a
lexicographic order of four numbers, so that it is irreflexive, transitive and has
transitive ties; `StableOrders` of a list without repetitions orders its places by
`GoesFirst`, which is total; cutting such a list leaves nothing better behind.
`BestInOrder` includes that the list is within its limit.

Two theorems describe the list from outside. `SortIsDetermined`: the stable sort has
exactly one result, for every list of results and every text, so equal requests get
equal lists and the step can always be taken. `ListIsByRank`: the list has the smaller
of its limit and the number of eligible results as its length, and its n-th item is the
one that exactly n - 1 eligible results go before. The lemmas under them count: in a
finite set with a total order, the rank of an element is the number of those before it,
ranks are different, and each number below the size of the set is the rank of one
element (`RankIncreases`, `RankIsUnique`, `RankIsTaken`), so a list in order has its
elements at their ranks (`PlaceIsRank`).

**`NativeQueries_proofs`**, for any links and files. A path that passed the layout
check is canonical, lies in the bundle, and is a location, which no alias is; turning
a link cannot change what it stands for any more.

**`ArtifactVerification_proofs`**, for every list of modules, set of releases and
fault of one file. The invariant is the evidence that the running verification has
gathered: the archives passed so far are those of the manifest, their working
directories are what the archives hold, and each file compared with a record is
whole. When the last check passes, there is no file left in which the release's fault
could be (`NoFaultIsLeft`), unless it is in `Unrecorded` or a line feed; for a package of
one release that has at most a fault in `Unrecorded`, each check is shown to succeed
unless a decoded module was there before the run. `DecoderIsExact` says of the codec,
for all lengths, that a module is accepted exactly when its stream fills the file and
restores the declared length.

The assumptions on the constants are those that the modules declare, and TLC
evaluates them in every run. Model-checked only:

* the two liveness properties of `bridge_live` without the hypothesis on `ENABLED`;
* `CancellationEndsTypeCheck` and `OperationsEnd` as temporal formulas. The measure of
  each, that it is bounded, that steps make it smaller, and that the guard of a next
  step holds are proved (above). Missing are the induction over the measure, which the
  provers cannot instantiate, and that these guards are those of `ENABLED`.

Proved only, and in no run: `FewCancellationsArrive`, `ForgetsOnlyWhenFull`,
`ServesBackend`, `ResultTellsOfSession`, `PackageIsOfOnePiece`,
`DecoderIsExact`, `SortIsDetermined`, `ListIsByRank`, the two theorems under each of
`CancellationEndsTypeCheck` and `OperationsEnd`, and the callers' mutual exclusion of
`MacroEntry_proofs`; they refine what a run's property says already.

## 7. Where code and documentation part

* **Re-cancelling does not refresh** (`cancellation_recency`): an identifier that is
  cancelled again keeps its old place in the list of early cancellations
  (`SwiftCompilerBridge.cpp` 197-199) and is displaced as the oldest, although it
  was cancelled most recently.
* **Filtered lists do not rank bad results last** (`completion_bad_last`): an exact
  match takes its bucket before the not-recommended mark is looked at
  (`CompletionBackend.cpp` 219), so it comes before a recommended literal; the
  comment at 307-308 and `Docs/CompilerBridge.md` 124-125 say that they rank last.
* **A receipt can vouch for stale files** (`producer_cache_race`): the post-link
  command hashes the inputs as they are after the link
  (`Sources/CompilerBridge/CMakeLists.txt` 29), so an edit during the build is
  recorded together with the library of the old contents.

Three behaviours contradict no document but are worth knowing. A verification that
finds a module with another digest, or is killed at that point, leaves
`Verification/decoded-module` (`CMake/VerifyArtifacts.cmake` 210-214). The codec does
not overwrite it, so every later verification in that directory fails, also of a
good package. `RejectedForCause` states this exception (`leftover`), so it does not
cover that hazard. The content of the macro support's modules, libraries and metadata
is not compared with anything (257-277), so a file that packaging spoiled there is
accepted; `AcceptedIsIntact` states that exception (`Unrecorded`). And an error that
SILGen's own type check reports does not keep the SIL passes from running: `hadError`
is read before SILGen only (`AnnotationBackend.cpp` 215-231).

## 8. What is not modelled, and why

* What the compiler itself computes (type checking, SIL, linking): external, and
  represented by what the bridge reads of it.
* The memory of C results and `swift_compiler_release`: a caller frees what it got;
  nothing is shared.
* Text formats (JSON documents, CMake lists, patterns): no property is about them.
* Sequential scripts (guest libraries, notices, native configuration, source
  preparation, scripts and continuous integration): nothing interleaves and nothing
  persists beyond what the models above have.
* The artifact manifest's validator and the commit and repository policy: pure
  predicates over decoded text, with one rejection after another and no state. That
  the packaging script writes what the validator accepts is the one hazard that no
  property covers.
* A metadata query without a place for its result: an early return without a call.
* Two commands at the same time on one cache, or two plans on one prepared source
  tree: `Docs/Building.md` 40-48 forbids it.
