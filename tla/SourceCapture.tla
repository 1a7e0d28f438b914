--------------------------- MODULE SourceCapture ---------------------------
(***************************************************************************)
(* How a scan takes the bytes it will judge: scan_local copies a source    *)
(* tree that its owner goes on editing, file by file, and samples what git *)
(* says of it before and after; scan_remote_github first materialises one  *)
(* exact commit in a private checkout and afterwards binds the bundle to   *)
(* the commit's tree.  A git command answers in one step.                  *)
(***************************************************************************)
EXTENDS Integers, FiniteSets, Sequences, SequencesExt, Functions

CONSTANTS
  Dirs, Root,  \* the directories of the source, and the top one
  Up,          \* the directory that each other directory is an entry of
  Files, Dir,  \* the paths of files, and the directory of each
  Manifests,   \* the paths that detection reads
  Kindings,    \* what may stand at the paths, of the functions to Kinds
  MaxChanges,  \* bound on what the owner of a local source does to it
  MaxFiles,    \* the file budget of a remote tree
  MaxDisk      \* the disk budget of a remote checkout

ASSUME CaptureAssumption ==
  /\ IsFiniteSet(Files) /\ Manifests \subseteq Files /\ Dir \in [Files -> Dirs]
  /\ Root \in Dirs /\ Up \in [Dirs \ {Root} -> Dirs]
  /\ MaxChanges \in Nat /\ MaxFiles \in Nat /\ MaxDisk \in Nat

\* A file that an attribute makes git rewrite on checkout: into more bytes, into
\* fewer, or into as many others.
Rewriting == {"grown", "shrunk", "recoded"}

\* What can stand at a path: a regular file; one below a directory that every
\* inventory leaves out; one that git is told to ignore and no inventory leaves
\* out; one that is no regular file or has an unsafe name; a rewritten one; an
\* attribute file for LFS.
Kinds == {"plain", "ignored", "unversioned", "forbidden", "lfs"} \cup Rewriting

ASSUME KindingsAssumption == Kindings \subseteq [Files -> Kinds]

VARIABLES
  origin,    \* "git", "directory" or "remote"
  kind,      \* what stands at each path
  tree,      \* the content of the source now, of the paths that exist
  commits,   \* the trees committed so far; HEAD is the last
  changes,   \* changes by the owner so far; each edit writes new content
  pc,        \* where the scan is
  detection, \* the manifests the adapter found in the source
  before,    \* the identity sampled before the copy
  reading,   \* the directories that the copy or the listing is in, innermost last
  names,     \* of each directory opened, the names that its reading will give
  copy,      \* the workspace, as far as it is copied
  manifest,  \* its inventory, workspace-manifest.json
  listing,   \* the inventory of the source after the copy, as far as it is read
  after,     \* the identity sampled after the copy
  requested, \* the commit a remote scan asks for
  recorded,  \* the identity in the sealed bundle
  remote,    \* the bundle's remote-source.json
  seen,      \* what the source has been since the scan began, and
  restored   \* whether a path became again what it had been, its absence included;
             \* only read by the properties

vars == <<origin, kind, tree, commits, changes, pc, detection, before, reading,
          names, copy, manifest, listing, after, requested, recorded, remote, seen, restored>>
source == <<origin, kind, tree, commits, changes, requested, seen, restored>>
bundle == <<recorded, remote>>
scan == <<pc, detection, before, reading, names, copy, manifest, listing, after, bundle>>

HEAD == Len(commits)
Unknown == [commit |-> 0, dirty |-> "unknown"]
NoRecord == [resolved |-> 0]
Inventoried == {f \in Files : kind[f] # "ignored"}
Inventory(t) == Restrict(t, Inventoried \cap DOMAIN t)
\* What git versions of it.
Versioned(t) == Restrict(t, {f \in DOMAIN t : kind[f] # "unversioned"})
Put(t, f, content) == [g \in DOMAIN t \cup {f} |-> IF g = f THEN content ELSE t[g]]

\* What a checkout of tree t leaves, and the bytes of a tree.
Converted(t) == [f \in DOMAIN t |-> IF kind[f] \in Rewriting THEN t[f] + 100 ELSE t[f]]
Rewritten(t, how) == {f \in DOMAIN t : t[f] >= 100 /\ kind[f] = how}
Bytes(t) == Cardinality(DOMAIN t)
              + Cardinality(Rewritten(t, "grown")) - Cardinality(Rewritten(t, "shrunk"))

TypeOK ==
  /\ pc \in {"fetch", "inventory", "checkout", "exact", "detect", "redetect",
             "head_before", "status_before", "open", "copy", "reopen", "compare",
             "stable", "head_after", "status_after", "captured", "scan",
             "attach", "attached", "cleanup", "finish", "done", "refused"}
  /\ reading \in Seq(Dirs) /\ DOMAIN names \subseteq Dirs
  /\ DOMAIN copy \subseteq Inventoried /\ DOMAIN listing \subseteq Inventoried
  /\ {before.commit, after.commit, recorded.commit} \subseteq 0..HEAD
  /\ {before.dirty, after.dirty, recorded.dirty} \subseteq {"unknown", "clean", "dirty"}

\* Detection reads the root directory only.
Init ==
  /\ origin \in {"git", "directory", "remote"}
  /\ kind \in Kindings /\ \A f \in Manifests : kind[f] # "ignored"
  /\ \A f \in Files :
       IF origin = "remote" THEN kind[f] # "unversioned" ELSE kind[f] \notin Rewriting \cup {"lfs"}
  /\ \E present \in SUBSET Files : tree = [f \in present |-> 0]
  /\ commits = <<Versioned(tree)>> /\ changes = 0 /\ requested = 1
  /\ pc = IF origin = "remote" THEN "fetch" ELSE "detect"
  /\ detection = {} /\ reading = << >> /\ names = << >>
  /\ copy = << >> /\ manifest = << >> /\ listing = << >>
  /\ before = Unknown /\ after = Unknown
  /\ recorded = Unknown /\ remote = NoRecord
  /\ seen = {tree} /\ restored = FALSE

----------------------------------------------------------------------------
(* The owner of a local source writes and deletes files, commits, and      *)
(* throws changes away.                                                    *)

Ended == pc \in {"done", "refused"}
Editable == origin # "remote" /\ ~Ended /\ changes < MaxChanges
Seen == seen' = {tree'} \cup (IF pc = "detect" THEN {} ELSE seen)

Edit(f) ==
  /\ Editable
  /\ tree' = Put(tree, f, changes + 1)
  /\ changes' = changes + 1 /\ Seen
  /\ UNCHANGED <<origin, kind, commits, requested, restored, scan>>

\* A name that a reading has not come to yet is gone with its file.
Delete(f) ==
  /\ Editable /\ f \in DOMAIN tree
  /\ tree' = Restrict(tree, DOMAIN tree \ {f})
  /\ changes' = changes + 1 /\ Seen
  /\ restored' = (restored \/ (pc # "detect" /\ \E t \in seen : f \notin DOMAIN t))
  /\ names' \in {names, [d \in DOMAIN names |-> names[d] \ {f}]}
  /\ UNCHANGED <<origin, kind, commits, requested,
                 pc, detection, before, reading, copy, manifest, listing, after, bundle>>

Commit ==
  /\ Editable /\ origin = "git" /\ Versioned(tree) # commits[HEAD]
  /\ commits' = Append(commits, Versioned(tree))
  /\ changes' = changes + 1
  /\ UNCHANGED <<origin, kind, tree, requested, seen, restored, scan>>

Revert ==
  /\ Editable /\ origin = "git" /\ Versioned(tree) # commits[HEAD]
  /\ tree' = [f \in DOMAIN commits[HEAD] \cup (DOMAIN tree \ DOMAIN Versioned(tree)) |->
               IF f \in DOMAIN commits[HEAD] THEN commits[HEAD][f] ELSE tree[f]]
  /\ changes' = changes + 1 /\ Seen
  /\ restored' = (pc # "detect")
  /\ UNCHANGED <<origin, kind, commits, requested, scan>>

----------------------------------------------------------------------------
(* The capture. *)

Go(next) == pc' = next
Refuse == pc' = "refused"

\* The adapter looks which manifests exist.
Detected(t) == Manifests \cap DOMAIN t

Detect ==
  /\ pc = "detect"
  /\ detection' = Detected(tree)
  /\ IF detection' # {} THEN Go("redetect") ELSE Refuse
  /\ UNCHANGED <<source, before, reading, names, copy, manifest, listing, after, bundle>>

\* scan_with_adapter detects again before it trusts what it was given.
Redetect ==
  /\ pc = "redetect"
  /\ IF Detected(tree) = detection THEN Go("head_before") ELSE Refuse
  /\ UNCHANGED <<source, detection, before, reading, names, copy, manifest, listing, after, bundle>>

\* capture_source_identity runs one git command for HEAD and a later one for
\* the status, which leaves ignored directories out and says nothing of a file
\* that git is told to ignore.  No repository, no commit.
Status(t) ==
  IF Inventory(Versioned(t)) = Inventory(commits[HEAD]) THEN "clean" ELSE "dirty"
Sampled == IF origin = "directory" THEN Unknown ELSE [commit |-> HEAD, dirty |-> "unknown"]
WithStatus(identity) ==
  IF identity.commit = 0 THEN identity
  ELSE [identity EXCEPT !.dirty = IF origin = "remote" THEN "clean" ELSE Status(tree)]

HeadBefore ==
  /\ pc = "head_before" /\ Go("status_before")
  /\ before' = Sampled
  /\ UNCHANGED <<source, detection, reading, names, copy, manifest, listing, after, bundle>>

StatusBefore ==
  /\ pc = "status_before" /\ Go("open")
  /\ before' = WithStatus(before)
  /\ UNCHANGED <<source, detection, reading, names, copy, manifest, listing, after, bundle>>

\* copy_dir_filtered and walk_workspace: the entries of a directory come in no
\* particular order; a directory among them is opened when its turn comes and read
\* to its end before the next entry.  A file that is created after its directory
\* was opened may be read or missed.
Inside(d) == {f \in Inventoried \cap DOMAIN tree : Dir[f] = d}
Here == Last(reading)
Done == IF pc = "copy" THEN copy ELSE listing
Visited(f) ==
  reading # << >> /\ Dir[f] = Here /\ f \in (Inventoried \cap DOMAIN tree) \ DOMAIN Done

Open(from, to) ==
  /\ pc = from /\ Go(to)
  /\ reading' = <<Root>> /\ names' = Put(<< >>, Root, Inside(Root))
  /\ UNCHANGED <<source, detection, before, copy, manifest, listing, after, bundle>>

Enter(d) ==
  /\ pc \in {"copy", "compare"} /\ reading # << >>
  /\ d # Root /\ Up[d] = Here /\ d \notin DOMAIN names
  /\ reading' = Append(reading, d) /\ names' = Put(names, d, Inside(d))
  /\ UNCHANGED <<source, pc, detection, before, copy, manifest, listing, after, bundle>>

Leave ==
  /\ pc \in {"copy", "compare"} /\ reading # << >>
  /\ names[Here] \subseteq DOMAIN Done
  /\ \A d \in Dirs \ {Root} : Up[d] = Here => d \in DOMAIN names
  /\ reading' = Front(reading)
  /\ UNCHANGED <<source, pc, detection, before, names, copy, manifest, listing, after, bundle>>

\* An entry of a kind that is refused, or gone after its name was read.
ReadRefused ==
  /\ pc \in {"copy", "compare"} /\ Refuse /\ reading # << >>
  /\ \/ \E f \in Files : Visited(f) /\ kind[f] = "forbidden"
     \/ ~(names[Here] \subseteq DOMAIN tree \cup DOMAIN Done)
  /\ UNCHANGED <<source, detection, before, reading, names, copy, manifest, listing, after, bundle>>

\* Every directory has been read to its end.
Finished == reading = << >> /\ DOMAIN names = Dirs

OpenSource == Open("open", "copy")

CopyFile(f) ==
  /\ pc = "copy" /\ Visited(f) /\ kind[f] # "forbidden"
  /\ copy' = Put(copy, f, tree[f])
  /\ UNCHANGED <<source, pc, detection, before, reading, names, manifest, listing, after, bundle>>

\* write_workspace_manifest inventories the copy.
Copied ==
  /\ pc = "copy" /\ Finished /\ Go("reopen")
  /\ manifest' = copy /\ names' = << >>
  /\ UNCHANGED <<source, detection, before, reading, copy, listing, after, bundle>>

\* verify_source_copy_stable inventories the source and compares.
ReopenSource == Open("reopen", "compare")

ListFile(f) ==
  /\ pc = "compare" /\ Visited(f) /\ kind[f] # "forbidden"
  /\ listing' = Put(listing, f, tree[f])
  /\ UNCHANGED <<source, pc, detection, before, reading, names, copy, manifest, after, bundle>>

\* Mutant: the copy is not compared with the source.
SameBytes_unchecked == TRUE

SameBytes == listing = manifest
Compare ==
  /\ pc = "compare" /\ Finished
  /\ IF SameBytes THEN Go("stable") ELSE Refuse
  /\ names' = << >> /\ listing' = << >>
  /\ UNCHANGED <<source, detection, before, reading, copy, manifest, after, bundle>>

CommitStable ==
  /\ pc = "stable"
  /\ IF Sampled.commit = before.commit THEN Go("head_after") ELSE Refuse
  /\ UNCHANGED <<source, detection, before, reading, names, copy, manifest, listing, after, bundle>>

HeadAfter ==
  /\ pc = "head_after" /\ Go("status_after")
  /\ after' = Sampled
  /\ UNCHANGED <<source, detection, before, reading, names, copy, manifest, listing, bundle>>

StatusAfter ==
  /\ pc = "status_after" /\ Go("captured")
  /\ after' = WithStatus(after)
  /\ UNCHANGED <<source, detection, before, reading, names, copy, manifest, listing, bundle>>

\* Mutant: only the identity sampled before the copy is kept.
MergedDirty_before == before.dirty

MergedDirty ==
  CASE "dirty" \in {before.dirty, after.dirty} -> "dirty"
    [] {before.dirty, after.dirty} = {"clean"} -> "clean"
    [] OTHER -> "unknown"
merge_source_identity == [before EXCEPT !.dirty = MergedDirty]

\* The identities must agree, and the copy must be detected as the source was.
Captured ==
  /\ pc = "captured"
  /\ IF before.commit = after.commit /\ Detected(copy) = detection
       THEN Go("scan") ELSE Refuse
  /\ UNCHANGED <<source, detection, before, reading, names, copy, manifest, listing, after, bundle>>

\* The scan runs on the copy and seals the bundle with the merged identity and
\* the hashes of the detected manifests.
manifest_hashes_for_detection == Restrict(copy, detection)
Scan ==
  /\ pc = "scan" /\ Go(IF origin = "remote" THEN "attach" ELSE "finish")
  /\ recorded' = [commit |-> merge_source_identity.commit, dirty |-> merge_source_identity.dirty,
                  manifest_hashes |-> manifest_hashes_for_detection]
  /\ UNCHANGED <<source, detection, before, reading, names, copy, manifest, listing, after, remote>>

\* Any command or any read of a file may fail.
Fails ==
  /\ ~Ended /\ Refuse
  /\ UNCHANGED <<source, detection, before, reading, names, copy, manifest, listing, after, bundle>>

----------------------------------------------------------------------------
(* What a verification of the sealed bundle asks of the source. *)

\* The workspace holds exactly the listed files with the listed bytes.
verify_workspace == copy = manifest

verify_manifest_hashes ==
  /\ DOMAIN recorded.manifest_hashes = detection
  /\ \A f \in detection : f \in DOMAIN manifest /\ recorded.manifest_hashes[f] = manifest[f]

\* A claimed commit demands that the state of the tree was established.
verify_identity ==
  /\ recorded.commit # 0 => recorded.dirty # "unknown"
  /\ verify_manifest_hashes

\* The index that containers see in place of .git names every listed file.
derive_synthetic_git_index_record == [f \in DOMAIN manifest |-> copy[f]]

verify_remote_source_identity ==
  remote # NoRecord =>
    /\ remote.resolved = remote.requested
    /\ recorded.commit = remote.resolved /\ recorded.dirty = "clean"
    /\ remote.files = Cardinality(DOMAIN manifest) /\ remote.files <= MaxFiles
    /\ remote.bytes = Bytes(manifest)
    /\ remote.index = derive_synthetic_git_index_record

verify_source == verify_workspace /\ verify_identity /\ verify_remote_source_identity

\* finish_scan verifies what it seals.
FinishScan ==
  /\ pc = "finish"
  /\ IF verify_source THEN Go("done") ELSE Refuse
  /\ UNCHANGED <<source, detection, before, reading, names, copy, manifest, listing, after, bundle>>

----------------------------------------------------------------------------
(* A remote source: one commit, fetched, inventoried and checked out.      *)

\* How a git command ends: by itself, or killed when it outlives the deadline or
\* outgrows the disk budget.  What it says beyond a bound is dropped.
GitRuns == {"success", "failure", "timeout", "over_budget", "truncated"}
checked(run) == run = "success"

\* The repository and the checkout together stay within the disk budget.
enforce_clone_disk_limit(trees) ==
  FoldSeq(LAMBDA t, total : Bytes(t) + total, 0, trees) <= MaxDisk

\* The server may answer with another commit.
Fetch ==
  /\ pc = "fetch"
  /\ \E run \in GitRuns, resolved \in {requested, requested + 1} :
       IF checked(run) /\ enforce_clone_disk_limit(commits) /\ resolved = requested
         THEN Go("inventory") ELSE Refuse
  /\ UNCHANGED <<source, detection, before, reading, names, copy, manifest, listing, after, bundle>>

\* Every entry a regular file with a safe path that no inventory leaves out,
\* within the budget.
validate_tree_inventory(t) ==
  /\ \A f \in DOMAIN t : kind[f] \notin {"ignored", "forbidden"}
  /\ Cardinality(DOMAIN t) <= MaxFiles

TreeInventory ==
  /\ pc = "inventory"
  /\ \E run \in GitRuns :
       IF checked(run) /\ validate_tree_inventory(commits[requested])
         THEN Go("checkout") ELSE Refuse
  /\ UNCHANGED <<source, detection, before, reading, names, copy, manifest, listing, after, bundle>>

reject_lfs_attributes(t) == \A f \in DOMAIN t : kind[f] # "lfs"

Checkout ==
  /\ pc = "checkout"
  /\ tree' = Converted(commits[requested])
  /\ seen' = {tree'}
  /\ \E run \in GitRuns :
       IF checked(run) /\ reject_lfs_attributes(tree')
          /\ enforce_clone_disk_limit(Append(commits, tree'))
         THEN Go("exact") ELSE Refuse
  /\ UNCHANGED <<origin, kind, commits, changes, requested, restored,
                 detection, before, reading, names, copy, manifest, listing, after, bundle>>

\* HEAD is the commit, and to git the converted files are clean.
ensure_exact_clean_checkout ==
  WithStatus(Sampled) = [commit |-> requested, dirty |-> "clean"]

ExactCheckout ==
  /\ pc = "exact"
  /\ \E run \in GitRuns :
       IF checked(run) /\ ensure_exact_clean_checkout THEN Go("detect") ELSE Refuse
  /\ UNCHANGED <<source, detection, before, reading, names, copy, manifest, listing, after, bundle>>

\* Mutant: the remote workspace is compared by its number of files alone.
TreeMatches_count ==
  Cardinality(DOMAIN manifest) = Cardinality(DOMAIN commits[requested])

TreeMatches ==
  /\ Cardinality(DOMAIN manifest) = Cardinality(DOMAIN commits[requested])
  /\ Bytes(manifest) = Bytes(commits[requested])

\* attach_remote_source_record compares the identity and the numbers of the
\* workspace with those of the commit's tree, then seals the bundle again.
AttachRemoteSource ==
  /\ pc = "attach"
  /\ \E run \in GitRuns :
       IF checked(run) /\ recorded.commit = requested /\ recorded.dirty = "clean"
          /\ ensure_exact_clean_checkout /\ TreeMatches
         THEN /\ Go("attached")
              /\ remote' = [requested |-> requested, resolved |-> requested,
                            files |-> Cardinality(DOMAIN manifest), bytes |-> Bytes(manifest),
                            index |-> derive_synthetic_git_index_record]
         ELSE Refuse /\ UNCHANGED remote
  /\ UNCHANGED <<source, detection, before, reading, names, copy, manifest, listing, after, recorded>>

VerifyAttached ==
  /\ pc = "attached"
  /\ IF verify_source THEN Go("cleanup") ELSE Refuse
  /\ UNCHANGED <<source, detection, before, reading, names, copy, manifest, listing, after, bundle>>

\* The checkout is deleted; a bundle whose checkout stays is not reported.
Cleanup ==
  /\ pc = "cleanup"
  /\ Go("finish") \/ Refuse
  /\ UNCHANGED <<source, detection, before, reading, names, copy, manifest, listing, after, bundle>>

----------------------------------------------------------------------------
Owner == (\E f \in Files : Edit(f) \/ Delete(f)) \/ Commit \/ Revert

Capture ==
  \/ Detect \/ Redetect \/ HeadBefore \/ StatusBefore
  \/ OpenSource \/ (\E d \in Dirs : Enter(d)) \/ Leave \/ ReadRefused
  \/ (\E f \in Files : CopyFile(f)) \/ Copied
  \/ ReopenSource \/ (\E f \in Files : ListFile(f)) \/ Compare
  \/ CommitStable \/ HeadAfter \/ StatusAfter \/ Captured \/ Scan \/ FinishScan

Remote ==
  \/ Fetch \/ TreeInventory \/ Checkout \/ ExactCheckout
  \/ AttachRemoteSource \/ VerifyAttached \/ Cleanup

Next == Owner \/ Capture \/ Remote \/ Fails

Spec == Init /\ [][Next]_vars
----------------------------------------------------------------------------
(* Properties. *)

\* Whatever the owner does while directories are opened and files copied one by one,
\* what the scan runs on is what the source was as a whole at some moment of the
\* capture: the second listing of verify_source_copy_stable excludes a mixture,
\* unless some path became again what it had been, its absence included.
CopyIsSnapshot ==
  pc \in {"scan", "attach", "attached", "cleanup", "finish", "done"} /\ ~restored
  => \E t \in seen : copy = Inventory(t)

\* A local bundle whose bytes still stand in the source, HEAD unmoved, is not recorded
\* as clean if what git versions of them differs from the commit it names, whenever
\* the edit was made and unless it was undone in between: merge_source_identity keeps
\* a dirty answer of either sample.  Of a file that git is told to ignore, and that is
\* copied with the others, neither sample says anything.
DirtyCopyIsMarked ==
  (pc = "done" /\ origin = "git" /\ ~restored /\ recorded.commit = HEAD
     /\ copy = Inventory(tree) /\ Versioned(copy) # Inventory(commits[HEAD]))
  => recorded.dirty = "dirty"

\* A remote bundle has exactly the paths of the requested commit's tree.  Where its
\* bytes differ, attributes rewrote them on checkout, and as many files grew as
\* shrank: the count of attach_remote_source_record lets through what keeps it.
RemoteCopyIsCounted ==
  pc = "done" /\ origin = "remote" =>
    LET asked == commits[requested]
        changed(how) == {f \in DOMAIN copy : copy[f] # asked[f] /\ kind[f] = how}
    IN  /\ DOMAIN copy = DOMAIN asked
        /\ \A f \in DOMAIN copy : copy[f] # asked[f] => kind[f] \in Rewriting
        /\ Cardinality(changed("grown")) = Cardinality(changed("shrunk"))

\* "Unknown must never be serialized as a falsely clean tree" (RunIdentity), and
\* the capture "confirms that source identity and bytes stayed stable": a bundle
\* recorded as clean holds the bytes of the commit it names.
CleanMeansCommit ==
  pc = "done" /\ recorded.dirty = "clean" => copy = Inventory(commits[recorded.commit])
=============================================================================
