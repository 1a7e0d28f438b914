# TLA+ specifications of TomorrowCI

TomorrowCI runs a repository's tests in *concrete future environments*, one container
run after another, and writes what it saw as a bundle of evidence files that an offline
verifier accepts or refuses. Its value rests on two promises: a claim in a bundle is never
stronger than the executions behind it, and a bundle that was verified stays trustworthy
while replays and reports extend it and comparisons decide on it. The modules here model
the code that has to keep those promises, from the copy of the source to the merge gate;
TLC checks them on small instances and TLAPS proves the most important properties for
every value of the constants.

## 1. The system

| Component | State it keeps | Operations | What is hard |
|---|---|---|---|
| source capture, `orchestrate.rs`, `sandbox/src/lib.rs` | disposable copy, manifest, identity samples | sample, copy, sample, compare, merge | the owner edits meanwhile; a directory is read name by name |
| remote scans, `crates/runner/src/remote.rs` | checkout, source record | fetch and check out one commit, attach the record to the bundle | git's own conversions, budgets, a bundle sealed a second time |
| planner, `crates/core/src/planner.rs`, `config.rs`, adapters | none (pure) | `validate`, candidates, `plan_scenarios` | one list under three bounds; plans made again while results refer to them |
| dependency experiment, `crates/runner/src/dependency.rs`, `domain.rs` | manifest and artifacts | `load_dependency_experiment`, `resolution_for_changes`, `probe_for_subset` | every subset of the changes has to be a resolution of its own |
| dependency schedule and reduction, `dependency_schedule.rs` | the probes so far; extends the running plan | `next_dependency_subset`, `derive_observed_dependency_reduction` | decisions from inconclusive results, a search cut off by its bound |
| delta debugging, `planner.rs` | the reduction so far | `ddmin_dependency_changes_with_options` | executions of one subset that differ |
| sandbox, `crates/sandbox/src/lib.rs`, `engine.rs` | client process, container, drain threads | `run_in_container`, cleanup | deadline against exit, removal that fails, bounded output |
| scan orchestration, `crates/runner/src/orchestrate.rs`, `finish_scan` in `apps/cli/src/main.rs` | plan, results, frontier, claims; one directory per scenario | per scenario: image, fetch, test with reruns, classify, persist; then finalise and verify | a dozen ways out of the loop, each writing its own evidence; agreement with the verifier |
| verdict kernel, `crates/core/src/verdict.rs`, `coverage.rs` | none (pure) | `classify_candidate_attempts`, `compute_breakage_frontier`, `is_coverage_attempt` | combinations of passing, failing, timed-out and coverage-only attempts |
| offline verifier, `crates/evidence/src/verify.rs` | none (reads a bundle) | `verify_run_root`, inventories, digests, cross-file semantics | re-derives everything with code of its own |
| replay, `orchestrate.rs` | lock file, staging directory, attempts, mirror, checksums | reserve, execute, commit, post-verify, undo | I/O errors and crashes between any two writes, concurrent processes |
| report and trusted reads, `main.rs` | the report artifact and the checksums | render transactionally, read under the lock | the same, and a scan that finalises without the lock |
| horizon comparison, `crates/core/src/compare.rs`, `main.rs` | none; holds two locks | `load_compare_manifests`, `compare_horizons`, policy gate | two locks in path order, base and head swapped |
| metrics, report, action, scripts | – | rendering, counting, release tooling | text |

A scan detects and copies the source, loads a dependency experiment if there is one, plans,
and calls the adapters for commands and signatures, the executor for containers, the verdict
kernel for each scenario and for the horizon, the schedule for the next probe of an adaptive
experiment, and the evidence crate to seal the bundle; the CLI's `finish_scan` then replaces
`claims.json`, seals again and verifies. From then on processes meet only in the file system:
every replay, report, explain, show, metrics and compare takes `.{run_id}.operation.lock`
beside the run directory, by `create_new`, without waiting; a plain `verify` and
`finish_scan` take no lock.

What makes each part correct:

* *capture*: the scan runs on one state of the source, and the bundle says which.
* *planning*: nothing is dropped without a record; only what is bound to the executed baseline
  counts as observed; the verifier plans the same.
* *schedule, reduction, delta debugging*: bounded; a set called minimal is minimal among the
  observations; the runner's and the verifier's derivations agree.
* *sandbox*: an execution is reported only if its container is gone; output is whole or
  marked; the call returns.
* *verdicts, scan*: no horizon without a passing baseline and a failure repeated with one
  signature; no pass that a retry produced; nothing executed after the baseline failed or
  the fetch failed; the scan ends; the verifier accepts what the scan seals.
* *replay, report, reads*: operations exclude each other; a reported attempt survives
  everything; a failed one leaves nothing; an undo restores what was there, except what it
  never read; nothing is executed against a bundle that does not verify; every operation ends.
* *comparison*: both bundles verify and are held when the decision is made; comparisons do
  not all defeat each other; a passing gate lets no earlier failure in.

## 2. Plan

1. `Verdicts`, `EvidenceVerifier`, `Scan`, `Scan_proofs` — done.
2. `Replay`, `EvidenceOps`, `EvidenceOps_proofs` — done.
3. `DependencySchedule`, `DependencyVerifier`, `AdaptiveScan` with the abstract `DeltaDebug`
   — done.
4. `DependencyExperiment`, `Planner`, `Planning`, `Ddmin` — done.
5. `Sandbox`, `SourceCapture` (with remote scans), `Compare` — done.
6. Theorems for every invariant, action property and refinement that a run checks — done.
7. To add: an abstract replay log (reserve, append, acknowledge) that `EvidenceOps` implements; the
   drain threads of a git command.

Theorem worth proving next: what an undo still restores beside a scan that is finishing.

## 3. Modules

| Module | Models |
|---|---|
| `Verdicts` | outcome of one execution, failure normalisation, verdict of a series of attempts, breakage horizon |
| `EvidenceVerifier` | what the verifier re-derives from results, attempts, frontier and claim |
| `Scan` | `scan_with_adapter` from the engine's resolution to sealing, and `finish_scan` |
| `Planner` | `Config::validate`, the candidates of the three adapters, `plan_scenarios` and its decisions |
| `Planning` | when plans are made, extended and derived again, by scan and verifier |
| `DependencyExperiment` | dependency sets, changes, resolutions, manifest, probes, loading, what the verifier asks of them |
| `DependencySchedule` | the next probe, and what the observations prove |
| `DependencyVerifier` | the verifier's own derivation of probe sequence, reduction and frontier |
| `AdaptiveScan` | the scan of a repository with an experiment: the growing plan, its results, reduction and frontier |
| `DeltaDebug` | abstract: what any reduction by executions promises |
| `Ddmin` | `ddmin_dependency_changes_with_options`, one step per execution |
| `Sandbox` | `run_in_container`, twice for an offline test: parent, client, container, drain |
| `SourceCapture` | a local source, its owner and the capture; a remote commit and its checkout |
| `Replay` | what one replay reports and which reports the verifier accepts |
| `EvidenceOps` | replays, reports and reads (explain, show, metrics) of a sealed bundle, the lock, faults, crashes, the finishing scan |
| `Compare` | `tomorrowci compare`: two locks, two bundles, replays beside, the gate |
| `MC*` | instances for TLC |
| `*_proofs` | theorems and their proofs |

`AdaptiveScan` and `Ddmin` each contain an `INSTANCE` of `DeltaDebug` with the state functions
that map them to it, and `ImplementsDeltaDebug` is checked of both. `AdaptiveScan` extends
`DependencyVerifier`, which extends `DependencySchedule` and `Planner`, so that scan and
verifier are compared on one bundle and plan with the planner that `Planning` checks.

Operators named after an operator with a suffix, under a comment that begins with
*Mutant*, are plausible bugs; they are used in no specification and serve to show that a
property would notice.

### Verdicts, EvidenceVerifier, Scan

An execution is an exit code out of success, ordinary failure, the coverage exit code and
none, whether its deadline passed, whether its output holds one valid coverage record, and
a *diagnostic* that stands for the rest of its output. `normalize_failure` keeps exactly
what the Python adapter's signature distinguishes: a constant for a timeout, a constant
for a coverage report, otherwise the diagnostic. A host path or a duration in the output
does not matter to the signature and is not in the model.

`Scan`'s variables are the locals of `scan_with_adapter`. Its actions follow the loop: every
`match` arm and every `break`/`continue` of the code is an action or a disjunct, with the
result it persists. A result is joined with the files of its scenario directory (status and
attempts of `test-attempts.json`, image and fetch phase) because the verifier reads them
together. Everything the code propagates with `?` is `Abort`. The verifier is evaluated as an
operator on the bundle; its helper `TestVerdict` is the kernel's, as in the code, where both
sides call `tomorrowci_core`; the conditions around it are the verifier's own.

### Planner, Planning

A runtime version is a number, an optional value is a set of at most one. `Planning` plans a
scan (`Plan`), refuses it on every `?` on the way (`Refuse`), plans again for a further probe
(`ExtendPlan`), and plans from candidates somebody else recorded (`Replan`), which is how the
verifier meets sets of different baselines or invalid ones. The grammar of version strings,
image names and commands is left out. The catalogues of the adapters ascend, so that what is later
than a baseline is the end of one. `PlanningAssumption` says what the program's types and parsers
guarantee of the inputs: one explicit list at most, probes that differ, adaptive probes numbered in
their order, and recorded candidates with ids of their own, which the verifier demands first.

### DependencyExperiment, DependencySchedule, DependencyVerifier, AdaptiveScan

A vector or map of dependencies or changes is a function whose domain only tells its members
apart, a digest is the content it was taken of. A subset of the changes is the set; the
order of sorted id vectors is `Before`, by size and then by the least id in which two sets differ.

In `AdaptiveScan` one step executes one scenario, with every result `Scan`'s loop could give it
(`Attempts` enumerates the series of attempts, `Unfinished` the ways to fall short of one). The
plan is made by `plan_scenarios` at every extension. `DependencyVerifier` is written from
`verify.rs` alone: it looks results up where the runner goes through them in order, and states
by sets what the runner states by loops; the two share only what the two sides share in the
code, which is the schedule, the planner and the frontier.

### DeltaDebug, Ddmin

`DeltaDebug` knows what the last execution of each subset showed: the *same* failure, a
*different* outcome or an *unclear* one. Its suspects shrink only to subsets that showed the same
failure; it concludes only when every subset that 1-minimality is about showed what it should.
`Ddmin`'s executor may answer differently each time it is asked. Its loops take changes in the
order of their ids; the model allows any order.

### Sandbox

`box` is the container of each stage, `client` the engine's process that the code holds as a
`Child`, `written` and `taken` the two ends of its pipe. The parent polls; whether the deadline
or the exit comes first is open at every step, and a killed client is `dying` until it is reaped.
`Cleanup` removes the container, or fails, and may have removed it even so. The bytes of the
output are their positions, which makes a lost, repeated or misplaced byte visible. A request
the client has sent when it is killed either reaches the engine or not: the engine's
`Start` of a container after its client is gone would be a container started by a request
counted as not made, so `Start` needs a running client, and the two cases are a kill before and
a kill after `Start`. A client may also die on its own (`ClientDies`); its exit status is then a
failure or none, and `ResultMeansGone` does not promise a stopped container for such a
failure, because the code cannot know of it.

### SourceCapture

The owner writes, deletes, commits and reverts between any two steps of the capture, which
walks the tree as `copy_dir_filtered` and `walk_workspace` do: the entries of a directory come in
any order, a directory among them is opened when its turn comes (`Enter`) and read to its end
(`Leave`) before the next entry. A name read of an open directory must be visited, and a file gone
by then is an error (`ReadRefused`) — unless the reading had not come to the name yet, which
`Delete` leaves open; a file that appears after its directory was opened may be visited or missed. A
git command answers in one step, since git itself is external. `seen` and `restored` are history
variables that only properties read. `restored` is set when a path becomes again what it had been
during the capture, absent included: two listings can then agree on a mixture, which no comparison of
listings can exclude. What git is told to ignore (`unversioned`) is copied and inventoried like any
other file, and neither commits nor `git status` know of it. A remote source is fetched,
inventoried, checked out, captured like a local one that nobody edits, and bound to its commit at the
end. On checkout attributes may rewrite a file into more bytes (`grown`), fewer (`shrunk`) or as many
others (`recoded`), and git still calls the tree clean; a tree's bytes are its files, plus those grown
and minus those shrunk, so that rewritings can pass the count alone or by offsetting each other.

### Replay, EvidenceOps

One bundle, and one scenario of it that is replayed. `bundle` is a record of its files: the recorded
result (`original`), the attempt directories as a function from their numbers, the mirror
(`replay-result.json`), `staging` (the numbers of directories that hold no complete
attempt), report, claims and the checksum files. Of the other scenarios, which
`finalize_run_checksums` also rewrites, the model has the checksum files: one that is written
before the replayed scenario's and one after it (`earlier_sums`, `later_sums`), since the code
sorts the directories. What they list no operation changes, so that their right content is a
constant, but each write of them may fail and leave it torn. A digest is the content it was taken
of, so a checksum file is the record of what it lists; `Torn` is the content of a file whose
writing failed. `verify_run_root` is the conjunction of the inventory, digest, contiguity,
attempt and mirror checks over these files.

Each process runs one operation. Its program counter names the write it is about to make;
every file is written by one step, and every write, rename, removal or unlock may fail
instead or be the last thing the process does (`Crash`). After the first write a failure
starts the undo, which restores files one by one in the code's order, and may fail itself.
`saved` holds what the operation read before its first write (`Saves`): a report every scenario's
checksums, a replay only its own scenario's and the root's. `was` is a history variable with the
whole bundle of that moment.
The scan's own process is the `finisher`: claims, each scenario's checksums, run checksums, verify,
without lock or undo; it may stop anywhere.

| Action | Code |
|---|---|
| `VerifyFirst`, `Acquire`, `VerifyLocked` | `verify_replay_evidence`, `EvidenceOperationLock::acquire`, `load_stable_verified_manifest`; `load_verified_manifest` in the CLI |
| `Refuse`, `Prepare`, `Reserve` | the early returns, workspace copy and `reserve_replay_attempt` |
| `Execute` | fetch and test, `Reports` being all that can come of them |
| `Snapshot`, `Commit`, `DropStaging` | `complete_replay_attempt` up to the rename, `Drop` of the transaction |
| `WriteMirror`, `SumOther`, `SumScenario`, `SumRun`, `PostVerify` | the closure `finalize`: mirror, `finalize_run_checksums` file by file, verification |
| `WriteReport`, `CheckReport` | `render_report_transactionally` |
| `Fail`, `Undo`, `UndoVerify` | the closure `rollback`, `rollback_report` |
| `SnapshotFails` … `ReleaseFails`, `Crash` | I/O errors of the above, end of a process |
| `FinishClaims` … `FinishVerify` | `finish_scan` |

Abstractions: verifications in a row are one step (with no write between them the outcome
of the last is the outcome of all; if the finisher writes in between, a run in which an
earlier one already refuses is a run in which the operation came later or earlier);
taking an inventory and writing its checksums is one step; the temporary directory a
report is rendered in is outside the bundle and left out.

### Compare

Bundles are numbered in the order of their paths. A replay is a process that makes its bundle
unsound for a while under the same lock and leaves it sound or not; `EvidenceOps` has its
details. A process that dies keeps its lock files, as in the code.

## 4. Runs

| Run | Instance | Result |
|---|---|---|
| `Scan` | 3 planned scenarios, 2 attempts, 2 diagnostics, every exit code and fetch outcome, fair | six invariants and `ScanEnds` hold, 427 457 states |
| `EvidenceOps` | 2 processes with any operations, checksums of 3 scenarios, 2 faults, 2 recorded results, bundle with or without report, fair | eight invariants, `BrokenStaysBroken` and `OperationsEnd` hold, 523 294 states |
| `EvidenceRace` | 2 processes, the finisher, 1 fault | `OnlyAckedRemain` holds, 1 079 632 states |
| `Planning` | 3 ecosystems, 3 baselines, 6 explicit lists, budgets 1 to 7, experiments of both schemas, 7 recorded candidate lists | three invariants and `PlanIsExtended` hold, 165 288 states |
| `AdaptiveScan` | 3 changes, schema 2, budget 6, 3 attempts | five invariants and the refinement of `DeltaDebug` hold, 1 898 states |
| `Ddmin` | 3 changes, 3 required failures | `ExecutionsBounded` and the refinement hold, 24 358 states |
| `Sandbox` | retention 3, reads of up to 3, pipe of 2, output of up to 6 bytes, fair | three invariants and `CallReturns` hold, 102 856 states |
| `SourceCapture` | a manifest, a module in a directory of its own, every kind of file, 4 changes by the owner; budgets of 2 files and 5 bytes | three invariants hold, 3 749 017 states |
| `Compare` | 2 processes, 2 bundles, 3 scenarios each, 2 policies | three invariants hold, 2 115 080 states |
| `ReplayErrors` | 2 processes, no faults | `HandledErrorsAreRecorded` is violated |
| `ReplayStaging` | 2 processes, 1 fault | `StagingIsPreserved` is violated |
| `CaptureClean` | as `SourceCapture` | `CleanMeansCommit` is violated |

Each module states its type invariant as `TypeOK`. No run spends its time on it: it is
proved for `Scan`, `EvidenceOps`, `AdaptiveScan`, `Ddmin`, `DeltaDebug`, `Compare`, `Sandbox` and
`SourceCapture`. What the state of `Planning` is, theorem `PlanInvariant` says.

**Bounds.** *Scan*: three scenarios are a baseline, a first failure and something after it (a
later pass or failure), which is what the horizon distinguishes; two attempts distinguish repeated,
drifting and flaky. A third attempt, whose drift two equal failures hide, is in `AdaptiveScan` and
in theorem `HorizonCorrect`. Two diagnostics are equal or not. *EvidenceOps*: two processes
are a holder and a contender; since every operation but one is refused while the lock exists, a third
adds another sequential operation only. One other scenario before the replayed one and one
after it are the two places where the rewriting of checksums can stop. Two faults are a failure after the first write and one in its
undo, or a crash. *AdaptiveScan*: three changes have sets of one, two and three members, so that a
search can descend and an addition can be open; a budget of six cuts off some searches and not others.
The theorems about it cover every number of changes and every budget.
Schema 1 has as many scenarios as subsets: its schedule and derivations are compared on two changes in
the assumptions `ExhaustiveOrder` and `ExhaustiveAgreement` of `MCAdaptiveScan`, and `ProbesLoad`
loads every manifest with two entries over three artifacts. *Ddmin*: as *AdaptiveScan*; theorem
`RefinesDeltaDebug` covers the rest. *Sandbox*: three bytes are a head of one and a tail of two; six
overrun retention by more than a read and the pipe three times. *SourceCapture*: two files in
two directories are the least a mixture needs, and the least whose rewritings offset each other; four
changes are two edits and their undoing. The file budget is never exceeded with
two files: exceeding it is one more reason to refuse, like the unsafe kinds of files, which occur.
*Compare*: two bundles and two processes are the least that can meet crosswise; its theorems cover the rest.
`MaxFaults`, `MaxChanges`, `MaxOutput`, `Planned`, `RerunsOnFailure`, `MaxScenarios` and `Required` are
the only bounds; the last four are the program's own. No run with a liveness property uses symmetry.
Deadlock is not checked because every modelled activity ends.

**What the safety runs show.** `SealedBundleVerifies` is the scan against the verifier, over
every mixture of blocked, unsupported, flaky, coverage-only and failing scenarios.
`HorizonAuthorized` and `PassClaimIsComplete` say in terms of attempts alone what a horizon
and a PASS claim mean. `AckedSurvive` and `OnlyAckedRemain` together say that the attempts of
an unlocked, verifying bundle are exactly those that were reported. `UndoRestores` compares
the bundle with that of before the first write when every write of an undo succeeded: nothing
differs, except, after a replay, the checksums of other scenarios, which the replay rewrote and did
not read before. The verification that ends the undo notices that, so that a caller who hears of
the first failure only finds every file as it was. `OneFaultIsHarmless`
says that one I/O error never leaves an unlocked bundle that does not verify without the
caller knowing. A crash is excluded there only by the lock it leaves. `BrokenStaysBroken`
is the fail-closed rule, on steps: an unverifiable bundle is neither executed against nor
sealed again by an operation that comes to it. It does not hold with the finisher, which
takes no lock and seals whatever it finds; `EvidenceRace` therefore checks what does.

`ProvenIsMinimal` restates PROVEN_MINIMAL by the results alone, `UnprovenIsExplained` says when the
search may fall short of it, `TruncationIsRefused` that a bundle cannot be shortened to the probe at
which its claim was strongest even if everything derived is rewritten consistently. `PlanIsExtended`
is what lets results refer to a plan that is made anew for every probe. `ResultMeansGone`
quantifies over every order of exit, deadline, kill and removal. `CopyIsSnapshot` is about bytes,
`DirtyCopyIsMarked` about what the bundle says of those git versions, `RemoteCopyIsCounted` about what
counting files and bytes excludes once the tree's inventory was checked: other paths, and rewritings
whose growth is not offset. It does not make the bundle that of the commit byte for byte. `CapturedTogether` needs the first lock to
be kept while the second bundle is loaded, `SomeoneGoesThrough` the order of the locks.

**Fairness.** `ScanEnds` assumes weak fairness of the scan's steps: each is a computation or
an engine call with a deadline of its own. `Abort` is not forced. `OperationsEnd` assumes weak
fairness of each process's own steps, not of faults, and none of the finisher: no step waits
for another process, since the lock is tried once. The mutant that waits for the lock shows
that this is what the property rests on. `CallReturns` assumes weak fairness of the parent, of the
drain thread, of time (`Deadline`, and the drain's own deadline, `ReceiveFails`), but of engine and
container only where the deadline is `ample`, a variable chosen at the start: with it the container comes
to its end and must not be stalled by a reader that stops reading; without it the container may hang,
and the deadline has to end the call.

**Disagreements found.** (1) A replay whose test phase the engine cannot execute writes an
attempt of phase `test` without comparison flags; the verifier demands the flags of every
attempt of that phase, so post-verification fails and the undo removes the attempt. The
architecture document (step 5 of replay) and the report-format document say such errors
become failed attempts. Failures of the fetch phase do. `ExecutionsAreRecorded` is the part
that holds. (2) The error of a failed rename tells that the complete staging directory was
preserved; the transaction is dropped on return and removes it. (3) The state of the working tree
is sampled before and after the copy, and the copy is compared with the source, never with the commit: an
edit made and undone between the samples, or a commit between the two git commands of one sample, gives a
bundle marked clean whose bytes are not those of the commit it names. The architecture document says
identity and bytes are confirmed stable, `domain.rs` that no falsely clean tree is recorded.
`DirtyCopyIsMarked` is the part that holds.

A fourth has no run of its own, because `UndoRestores` states exactly what is left of the promise: the
architecture document (step 6 of replay) and the report-format document say that a failed transaction
restores the previous mirror and checksum state. `complete_replay_attempt` saves and restores the
checksums of the replayed scenario and of the root, while `finalize_run_checksums` rewrites in place
those of every scenario. When the write of another scenario's `checksums.txt` is torn, an undo whose
every write succeeds leaves it torn; the rollback's verification then refuses the bundle and the caller
hears that the rollback failed also. Reports save and restore all of them.

## 5. Proofs

Every theorem holds for all values of the constants that meet the named assumptions. An invariant that a
run checks is seldom inductive; the proof modules state the invariant that is, as a conjunction of named
parts, and TLC confirmed each of them on the instances of section 4 before it was proved.

`Scan_proofs`, for every set of diagnostics and every positive `Planned` and `RerunsOnFailure`
(`DiagnosticsAssumption`, `RerunsAssumption`, `PlannedAssumption`):

* `TypeCorrect`, after lemmas on the types of the verdict operators.
* `HorizonCorrect`: `Spec => []HorizonAuthorized`, which speaks of the final frontier: the invariant
  (`Evidence`) adds that a FUTURE_FAIL completed at least two attempts that all failed with one hash, and
  what `first_fail`, `confirmed` and `baseline_ok` remember. `Finalize` computes the frontier from these.
* `SealedCorrect`: `Spec => []SealedBundleVerifies`, with `NoSelfRefusal`: the scan never takes the branch
  in which its own verifier refuses. The invariant `ScanInv` says of every result what the verifier will
  ask of it (`ResultsSound`), what the execution in progress has already seen of it (`InProgress`), that
  candidates follow a passing baseline (`Gate`) and that `first_fail` is the least FUTURE_FAIL. The two
  sides meet in the least and greatest members of the horizon (`FirstOfLeast`, `LastOfGreatest`, by
  well-founded induction on the naturals).
* `PassCleanCorrect`, `GateCorrect`, `PreparationCorrect`, `ClaimCorrect`: the remaining invariants of the
  run, from the same `ScanInv`.

`EvidenceOps_proofs`, for any set of processes, recorded results and bound on faults (`OpsAssumption`):

* `LockCorrect`: `Spec => []LockExcludes`.
* `AckedCorrect`: `Spec => []AckedSurvive`. An undo removes the attempt numbered `number[p]`, so one has to
  know that this number was never acknowledged. The invariant `LogInv` adds that between its reservation
  and the end of its undo an operation's number is not acknowledged (`Own`), which `LockExcludes` keeps
  true while others act. The step that matters is `Reserve`, where the next number is taken from
  contiguous attempts; it uses cardinalities of intervals.
* `TypeCorrect`: `Spec => []TypeOK`. A file that is restored has its type only if what was saved has, where
  anything may yet be restored (`Kept`), and a removal that stops half way leaves the directory of a number
  that was reserved, never 0: an undo with an attempt to remove is that of a replay.
* `RemainCorrect`, `PassCorrect`: `TellInv` compares at every moment the attempts of the bundle with those
  reported: they are equal, or differ by the one of the process that holds the lock (`Pending`) or has
  crashed with it, or somebody was told that an undo failed.
* With no finishing scan (`~Finishing`; `OnlyAckedRemain` is what holds beside one): `UndoCorrect`,
  `OneFaultCorrect`, `ExecutesCorrect`, `RecordedCorrect` and the action property `BrokenCorrect`. The
  invariant `BundleInv` follows a transaction forwards and backwards: what each phase has already written,
  and, in an undo, that every file not yet to be restored, nor forgotten, is what it was (`Progress`); that
  the caller of a failed operation finds it so (`Undone`), because the last verification asks of a
  forgotten file what the first one did; what a bundle is
  worth after at most one fault (`Healthy`); what a replay holds of the bundle it verified (`Reservation`).
  The finisher seals whatever it finds and takes no lock, so that none of these is promised beside it.

`Dependency_proofs` begins with `AdaptiveScan`, for any nonempty finite set of changes, any
`MaxScenarios` and `RerunsOnFailure`, and either schema (`ChangesAssumption`, `VerifierAssumption`,
`ExperimentAssumption`):

* *Order.* `Before` is a strict total order of the subsets (`BeforeTotal`, `BeforeTransitive`, by the
  least change in which two differ, or three), so that `Smallest` exists and is unique, and ranks in it
  number the exhaustive probes without gaps (`RankOnto`, `ExhaustiveOk`). `PlanIs` says what the planner,
  sort included, makes of a sequence of probes: the baseline and a prefix of the probes.
* *Invariant.* `ScanInv` says that the plan is that of the probes and that every probe of an adaptive
  experiment was the one `next_dependency_subset` asked for, given the results of its predecessors
  (`Sought`). The verifier checks the same of a finished bundle; a running scan keeps it because results
  are only appended. `ProvenCorrect`, `ReplayCorrect`, `AcceptedCorrect`, `TruncationCorrect` and
  `TypeCorrect` rest on it. `TableIs` and `SameReduction` show that the verifier's lookup by subset
  finds what the runner's passes over the log find.
* *End of the search.* The schedule asks for a subset while something is open, the reduction is proven
  when nothing is, and these are the same sets (`ProvenSettled`). Where an open subset was executed before, that
  execution decided nothing (`DeletionDecides`) or an addition altered the failure; and an execution
  that decided nothing is the last (`UndecidedIsLast`). This gives `ExplainedCorrect`.
* *Refinement.* `ScanRefinesDeltaDebug`: `Spec => ImplementsDeltaDebug`. The suspects are recomputed from
  the whole log at every step, so it has to be shown that one more observation changes only its own
  outcome (`OutcomeStep`), and that when it becomes the smallest failing set it is a subset of the one
  before (`SuspectsStep`): for the adaptive schedule because only deletions make a set smaller
  (`AskedInOrder`), for the exhaustive one because sets come in their order after the full one (`InOrder`).

and continues with `DependencyExperiment`, for families of any size: `AllChangesGiveCandidate` (the
changes are the whole difference), `SubsetsResolve` (no subset of valid changes is an impossible
resolution, so `resolution_for_changes` refuses none), `ProbesDiffer` (two subsets never give one
resolution), `ProbesAreValid` (what a probe installs is a candidate set again).

`Planning_proofs`, for every configuration, catalogue place, experiment and budget that meets
`PlanningAssumption`:

* The stable sort (`Sorted`, by rank) is a permutation that keeps ids apart (`SortedDistinct`) and leaves
  alone what ascends (`SortedAscending`): a rank is a cardinality, and different candidates have
  different ones. `PlanIs` takes a plan apart into baseline, prefix of the single-axis scenarios and
  combination.
* `CompleteCorrect`, `ObservedCorrect`, `VerifiesCorrect` and the action property `ExtendedCorrect` follow
  from `PlanInv`: the candidates are what the inputs give, and the plan is that of the candidates.
  `ExtendedCorrect` also needs that all probes share one baseline, before and after one is added.

`Ddmin_proofs`, for any finite set of changes and any number of required executions from three
(`DdminAssumption`):

* `TypeCorrect`, and `RefinesDeltaDebug`: `Spec => ImplementsDeltaDebug`. Each step of `Ddmin` maps to a
  probe, a conclusion or a stutter. The invariant behind it says, per phase, what the executions counted
  as `settled` showed: that the current set failed as the original did, which additions kept the failure,
  which subtractions lost it. It is needed at `Return`, where `Conclude` of the abstraction demands all of
  them at once.
* `BoundCorrect`: `Spec => []ExecutionsBounded`. The invariant `Spent` charges each round of the search to
  the size of the set it leaves: the sum is quadratic, and the solver checks one step of it at a time.
* `MinimalCorrect`, `ShrinkCorrect`: what every `DeltaDebug` promises, and so `Ddmin` by refinement. They
  are stated of `AnySearch`, an instance over variables of its own.

`Compare_proofs`, for any processes, bundles, results and policies that meet `CompareAssumption`:

* `TypeCorrect`, `CaptureCorrect`: the invariant says that what a comparison has loaded it has locked
  (`LoadedOK`), and that nobody without the lock makes a bundle unsound.
* `ProgressCorrect`: `SomeoneGoesThrough` is about the end, where nothing of the way there is left. The
  invariant `Overtaken` remembers: who was turned away at a bundle was so by a process that ended
  otherwise, or by one still at work that holds a lock at least as high. Since locks are taken in path
  order (`OrderOK`), a process turned away while it holds a lower one is itself turned away at a higher
  one, and the witness moves up. This needs no bound on the processes.
* `GateCorrect`: from what an outcome says of the inputs of `Decide` (`OutcomeOK`) and `HorizonIsFirst`.

`Sandbox_proofs`, for every retention limit, read size, pipe and amount of output that meet
`SandboxAssumption`:

* `TypeCorrect`, `OutputWhole`: `OutputIsWhole` is about the end. The invariant `Drained` says at every
  moment which bytes head and tail are, as a function of the number of bytes read (`Retained`), and that
  a thread that has handed over left nothing in the pipe. Lemma `ReadRetains` shows that one read of any
  size keeps `Retained`: the runs of byte numbers it cuts and joins are runs again (`RunSlice`,
  `RunJoin`), by cases on where head and tail stand. `RenderWhole` takes what is rendered apart again.
* `ResultsAreOver`, `TestsOnFinishedCopy`: the invariant adds what the end of a client says of its
  container (`Ends`), where the parent stands by then (`Places`), and that nothing a result was made of
  changes afterwards (`Answered`).

`SourceCapture_proofs`, for any files, contents, commits, budgets and number of changes
(`CaptureAssumption` of `SourceCapture`): `TypeCorrect`, `SnapshotCorrect`, `DirtyCorrect`, `RemoteCorrect`. The
invariant `CaptureInv` has a part per phase. `Walking` says of a file that a reading passed over that it
was absent at some moment, also if its directory was opened late. `Copying` names the moment the copy is of:
at the end of the listing, some source that was seen agrees with every file that stands as it was copied or
was listed so, and lacks every file that is missing or was passed over (`Reopened`), because content that is
edited, or a file that is deleted, never comes back unless `restored` says so (`Contents`). `Committed`
follows what is as committed through the second status, for the files git versions; `Remoteness` is the
remote tree, where equal counts of bytes leave as many files grown as shrunk (`SameBytesSameCounts`).

Only model-checked: the three liveness properties `ScanEnds`, `OperationsEnd` and `CallReturns`; and the
three violated statements, for which TLC shows a behaviour. Liveness under fairness and `ENABLED` are outside the prover's reach. So is induction over
data: that the search ends after so many probes, or that what it proves is the least failing set of all, is
not stated. The theorems say what is known wherever it ends.

## 6. Not modelled

* Text: rendering of reports, command lines, image names, the grammar of versions, URLs, commits and
  ids, remote origins, parsing of configuration and manifests, redaction of secrets.
* The clock: recorded instants and the verifier's check that they are monotonic.
* Path and alias rules and the metrics of the verifier; external artifacts.
* The drain threads of a git command, which are joined without a bound after a timeout (`Sandbox` has
  the bounded form of the same code).
* Directories as such: they neither appear nor disappear during a capture, only the files in them.
* The replay of several scenarios of one bundle: replays of different scenarios take the same lock and
  differ in which checksum files are forgotten. `rollback_report` restores checksums in the order of
  `read_dir`, which is fixed in the model.
* The channel name `nightly`, which the rust adapter takes for `preview`; the lossy decoding of output
  that is not UTF-8.
* That `compare` drops its locks before it decides: it decides on what it loaded under them.
* Resolution and pulling of images: an engine call whose outcomes are in `Scan`.
* The GitHub action, the viewer, release and qualification scripts: no state of their own.
* Library functions no command uses: `ddmin_axes`, `binary_first_failure`, `classify_from_reruns`.

Weak spots seen while modelling that no property states, because no document promises otherwise: a replay's
finalisation digests every file again, so what another program changed after the last verification is
sealed; a FLAKY result joins the exit of its passing attempt with the failure of an earlier one; errors
while a staging directory is dropped are ignored, which leaves a bundle that does not verify; a checkout
that cannot be removed makes a finished remote scan report itself blocked; `HorizonDelta::Inconclusive` is
never returned, so a head whose candidates were all blocked prints as an improvement.
