------------------------- MODULE SourceCapture_proofs -------------------------
(***************************************************************************)
(* Captures of a source of any number of files, whatever its owner does to *)
(* it and however often.  The invariant follows single files: one that has *)
(* the content it was copied with, or committed with, has had it all along,*)
(* because every edit writes new content, and one that a reading missed    *)
(* was absent at some moment.                                              *)
(***************************************************************************)
EXTENDS SourceCapture, FiniteSetTheorems, TLAPS

Trees == UNION {[S -> Nat] : S \in SUBSET Files}
Identities == [commit : 0..HEAD, dirty : {"unknown", "clean", "dirty"}]

\* How far the capture is.
Sealed    == {"attached", "cleanup", "finish", "done"}
Scanned   == Sealed \cup {"attach"}
Accepted  == Scanned \cup {"scan"}
Resampled == Accepted \cup {"captured"}
Compared  == Resampled \cup {"stable", "head_after", "status_after"}
HasCopy   == Compared \cup {"reopen", "compare"}
Sampling  == HasCopy \cup {"open", "copy"}
Detecting == {"detect", "redetect", "head_before", "status_before", "open"}
Places    == {"exact"} \cup Detecting \cup Sampling
Listed    == {"checkout"} \cup Places
Fetching  == {"fetch", "inventory", "checkout", "exact"}
NoCopy    == Fetching \cup Detecting

Typed ==
  /\ TypeOK
  /\ origin \in {"git", "directory", "remote"} /\ kind \in [Files -> Kinds]
  /\ tree \in Trees /\ copy \in Trees /\ listing \in Trees
  /\ commits \in Seq(Trees) /\ HEAD >= 1
  /\ changes \in Nat /\ requested = 1 /\ restored \in BOOLEAN
  /\ \A d \in DOMAIN names : names[d] \subseteq Inventoried
  /\ before \in Identities /\ after \in Identities
  /\ tree \in seen

\* Content that an edit writes was never there before.
Contents ==
  origin # "remote" =>
    /\ \A f \in DOMAIN tree : tree[f] <= changes
    /\ \A f \in DOMAIN copy : copy[f] <= changes
    /\ \A f \in DOMAIN commits[HEAD] :
         commits[HEAD][f] <= changes /\ kind[f] # "unversioned"

\* The file stands in the source as it was copied; as it was committed.
Standing(f) == f \in DOMAIN tree /\ tree[f] = copy[f]
AsCommitted(f) ==
  f \in DOMAIN tree /\ f \in DOMAIN commits[HEAD] /\ tree[f] = commits[HEAD][f]

\* The file was not given by the reading of its directory, which is open or done.
Passed(f) == Dir[f] \in DOMAIN names /\ f \notin names[Dir[f]]
Absent(f) == \E t \in seen : f \notin DOMAIN t

\* A directory that was left gave every name it had.  A file that the copy missed
\* was absent at some moment.
Walking ==
  /\ pc \in {"copy", "compare"} =>
       \A d \in DOMAIN names \ Range(reading) : names[d] \subseteq DOMAIN Done
  /\ pc = "copy" => \A f \in Inventoried \ DOMAIN copy : Passed(f) => Absent(f)
  /\ pc \in {"reopen", "compare"} => \A f \in Inventoried \ DOMAIN copy : Absent(f)

\* The source was t when the copy was complete: what still stands as it was copied
\* stood so, and what is still missing was missing.
Reopened(t) ==
  /\ \A f \in DOMAIN copy :
       Standing(f) \/ (f \in DOMAIN listing /\ listing[f] = copy[f])
       => f \in DOMAIN t /\ t[f] = copy[f]
  /\ \A f \in Inventoried \ DOMAIN copy :
       f \notin DOMAIN tree \/ Passed(f) => f \notin DOMAIN t

Copying ==
  /\ pc \in NoCopy => copy = << >>
  /\ pc \in NoCopy \cup {"copy", "reopen"} => listing = << >>
  /\ pc \in HasCopy => manifest = copy
  /\ pc = "compare" /\ ~restored => \E t \in seen : Reopened(t)
  /\ pc \in Compared /\ ~restored => \E t \in seen : copy = Inventory(t)

\* While HEAD is where it was before the copy, what is as committed was copied,
\* and a clean second status says that what is as copied, and versioned, is as
\* committed.
Committed ==
  origin = "git" /\ ~restored /\ before.commit = HEAD =>
    /\ pc = "copy" => \A f \in Inventoried : AsCommitted(f) => ~Passed(f)
    /\ pc \in HasCopy => \A f \in Inventoried : AsCommitted(f) => f \in DOMAIN copy
    /\ pc \in Resampled /\ after.commit = HEAD /\ after.dirty = "clean" =>
         /\ \A f \in DOMAIN copy :
              Standing(f) /\ kind[f] # "unversioned"
              => f \in DOMAIN commits[HEAD] /\ commits[HEAD][f] = copy[f]
         /\ Inventoried \cap DOMAIN commits[HEAD] \subseteq DOMAIN copy

Identified ==
  /\ pc \in Fetching => origin = "remote"
  /\ origin = "directory" => before.commit = 0
  /\ origin = "git" /\ pc \in Resampled /\ after.commit # 0 => after.dirty # "unknown"
  /\ pc \in Accepted => before.commit = after.commit
  /\ pc \in Scanned =>
       recorded.commit = before.commit /\ recorded.dirty = MergedDirty

\* Nobody edits the checkout of a remote commit.
Remoteness ==
  origin = "remote" =>
    /\ HEAD = 1 /\ \A f \in DOMAIN commits[1] : commits[1][f] = 0
    /\ pc \in Listed => \A f \in DOMAIN commits[1] : kind[f] \notin {"ignored", "forbidden"}
    /\ pc \in Places => tree = Converted(commits[1])
    /\ pc = "copy" => /\ \A f \in DOMAIN tree : ~Passed(f)
                      /\ \A f \in DOMAIN copy : f \in DOMAIN tree /\ copy[f] = tree[f]
    /\ pc \in HasCopy => copy = tree
    /\ pc \in Sealed => Bytes(copy) = Bytes(commits[1])

CaptureInv ==
  Typed /\ Contents /\ Walking /\ Copying /\ Committed /\ Identified /\ Remoteness

-----------------------------------------------------------------------------
(* What the trees are. *)

LEMMA TreeType ==
  ASSUME NEW t \in Trees
  PROVE  /\ DOMAIN t \subseteq Files
         /\ t = [f \in DOMAIN t |-> t[f]]
         /\ \A f \in DOMAIN t : t[f] \in Nat
BY DEF Trees

\* A tree is known by its paths and their contents.
LEMMA SameTree ==
  ASSUME NEW s \in Trees, NEW t \in Trees, DOMAIN s = DOMAIN t,
         \A f \in DOMAIN s : s[f] = t[f]
  PROVE  s = t
BY TreeType

LEMMA EmptyTree == << >> \in Trees /\ DOMAIN << >> = {}
<1>1. << >> = [f \in {} |-> 0]
  OBVIOUS
<1> QED
  BY <1>1 DEF Trees

LEMMA PutTree ==
  ASSUME NEW t \in Trees, NEW f \in Files, NEW c \in Nat
  PROVE  /\ Put(t, f, c) \in Trees
         /\ DOMAIN Put(t, f, c) = DOMAIN t \cup {f}
         /\ Put(t, f, c)[f] = c
         /\ \A g \in DOMAIN t \ {f} : Put(t, f, c)[g] = t[g]
<1>1. /\ DOMAIN Put(t, f, c) = DOMAIN t \cup {f} /\ Put(t, f, c)[f] = c
      /\ \A g \in DOMAIN t \ {f} : Put(t, f, c)[g] = t[g]
  BY DEF Put
<1>2. Put(t, f, c) \in [DOMAIN t \cup {f} -> Nat]
  BY TreeType DEF Put
<1>3. DOMAIN t \cup {f} \in SUBSET Files
  BY TreeType
<1> QED
  BY <1>1, <1>2, <1>3 DEF Trees

LEMMA RestrictTree ==
  ASSUME NEW t \in Trees, NEW S \in SUBSET DOMAIN t
  PROVE  /\ Restrict(t, S) \in Trees /\ DOMAIN Restrict(t, S) = S
         /\ \A g \in S : Restrict(t, S)[g] = t[g]
BY TreeType DEF Restrict, Trees

LEMMA InventoryTree ==
  ASSUME NEW t \in Trees
  PROVE  /\ Inventory(t) \in Trees /\ DOMAIN Inventory(t) = Inventoried \cap DOMAIN t
         /\ \A g \in Inventoried \cap DOMAIN t : Inventory(t)[g] = t[g]
BY RestrictTree DEF Inventory

LEMMA ConvertedTree ==
  ASSUME NEW t \in Trees
  PROVE  /\ Converted(t) \in Trees /\ DOMAIN Converted(t) = DOMAIN t
         /\ \A g \in DOMAIN t :
              Converted(t)[g] = IF kind[g] \in Rewriting THEN t[g] + 100 ELSE t[g]
BY TreeType DEF Converted, Trees

LEMMA VersionedTree ==
  ASSUME NEW t \in Trees
  PROVE  /\ Versioned(t) \in Trees
         /\ DOMAIN Versioned(t) = {f \in DOMAIN t : kind[f] # "unversioned"}
         /\ \A g \in DOMAIN t : kind[g] # "unversioned" => Versioned(t)[g] = t[g]
BY RestrictTree DEF Versioned

\* A copy that matches the listed source file by file is its inventory.
LEMMA IsInventory ==
  ASSUME NEW c \in Trees, NEW t, DOMAIN c = Inventoried \cap DOMAIN t,
         \A f \in DOMAIN c : c[f] = t[f]
  PROVE  c = Inventory(t)
BY TreeType DEF Inventory, Restrict

LEMMA HeadTree ==
  ASSUME Typed
  PROVE  commits[HEAD] \in Trees /\ HEAD \in Nat /\ commits[1] \in Trees
BY DEF Typed, HEAD

-----------------------------------------------------------------------------
LEMMA InitInv == Init => CaptureInv
<1> SUFFICES ASSUME Init PROVE CaptureInv
  OBVIOUS
<1> USE EmptyTree
<1>1. /\ tree \in Trees /\ DOMAIN tree \subseteq Files
      /\ \A f \in DOMAIN tree : tree[f] = 0
  BY DEF Init, Trees
<1>2. /\ commits \in Seq(Trees) /\ HEAD = 1
      /\ \A f \in DOMAIN commits[1] : commits[1][f] = 0 /\ kind[f] # "unversioned"
  <2>1. commits = <<Versioned(tree)>>
    BY DEF Init
  <2>2. /\ Versioned(tree) \in Trees
        /\ \A f \in DOMAIN Versioned(tree) :
             Versioned(tree)[f] = 0 /\ kind[f] # "unversioned"
    BY <1>1, VersionedTree
  <2> DEFINE t == Versioned(tree)
  <2> HIDE DEF t
  <2>3. <<t>> \in Seq(Trees) /\ Len(<<t>>) = 1 /\ <<t>>[1] = t
    BY <2>2 DEF t
  <2> QED
    BY <2>1, <2>2, <2>3 DEF HEAD, t
<1>3. pc \in {"fetch", "detect"} /\ (pc = "fetch" <=> origin = "remote")
  BY DEF Init
<1>4. Typed
  <2>1. /\ origin \in {"git", "directory", "remote"} /\ kind \in [Files -> Kinds]
        /\ tree \in Trees /\ copy \in Trees /\ listing \in Trees
        /\ DOMAIN copy = {} /\ DOMAIN listing = {} /\ DOMAIN names = {} /\ tree \in seen
        /\ changes \in Nat /\ requested = 1 /\ restored \in BOOLEAN /\ reading \in Seq(Dirs)
    <3>1. kind \in [Files -> Kinds]
      BY KindingsAssumption DEF Init
    <3>2. reading \in Seq(Dirs) /\ DOMAIN names = {} /\ tree \in seen
      BY DEF Init
    <3> QED
      BY <1>1, <3>1, <3>2 DEF Init
  <2>2. before = Unknown /\ after = Unknown /\ recorded = Unknown
    BY DEF Init
  <2>3. Unknown \in Identities /\ Unknown.commit = 0 /\ Unknown.dirty = "unknown"
    BY <1>2 DEF Unknown, Identities
  <2>4. TypeOK
    BY <1>2, <1>3, <2>1, <2>2, <2>3 DEF TypeOK
  <2> QED
    BY <1>2, <2>1, <2>2, <2>3, <2>4 DEF Typed
<1>5. Contents
  BY <1>1, <1>2 DEF Init, Contents
<1>6. Copying /\ Walking
  BY <1>3 DEF Init, Copying, Walking, HasCopy, Compared, Resampled, Accepted, Scanned, Sealed
<1>7. Committed
  BY <1>2 DEF Init, Committed, Unknown
<1>8. Identified
  BY <1>3 DEF Init, Identified, Fetching, Unknown, Resampled, Accepted, Scanned, Sealed
<1>9. Remoteness
  BY <1>1, <1>2, <1>3 DEF Init, Remoteness, Listed, Places, Detecting, Sampling, HasCopy,
     Compared, Resampled, Accepted, Scanned, Sealed
<1> QED
  BY <1>4, <1>5, <1>6, <1>7, <1>8, <1>9 DEF CaptureInv

\* A refused scan promises nothing.
LEMMA RefusedKeeps ==
  ASSUME CaptureInv, Refuse, UNCHANGED <<source, before, reading, copy, after, bundle>>,
         names' \in {names, << >>}, listing' \in {listing, << >>}
  PROVE  CaptureInv'
<1>1. Typed'
  BY EmptyTree
     DEF CaptureInv, Typed, TypeOK, Refuse, source, bundle, HEAD, Identities, Inventoried
<1>2. Contents' /\ Committed'
  BY DEF CaptureInv, Contents, Committed, Refuse, source, bundle, HEAD, Inventoried,
     HasCopy, Compared, Resampled, Accepted, Scanned, Sealed
<1>3. Copying' /\ Walking'
  BY DEF Copying, Walking, Refuse, NoCopy, Fetching, Detecting, HasCopy, Compared, Resampled,
     Accepted, Scanned, Sealed
<1>4. Identified'
  BY DEF CaptureInv, Identified, Fetching, Refuse, source, bundle, Resampled, Accepted, Scanned,
     Sealed
<1>5. Remoteness'
  BY DEF CaptureInv, Remoteness, Refuse, source, HEAD, Listed, Places, Detecting, Sampling,
     HasCopy, Compared, Resampled, Accepted, Scanned, Sealed
<1> QED
  BY <1>1, <1>2, <1>3, <1>4, <1>5 DEF CaptureInv

\* What a step leaves when the capture itself does nothing but go on.
Rest == <<before, reading, names, copy, manifest, listing, after, bundle>>

\* The steps that only decide whether the capture goes on.
Quiet == {<<"fetch", "inventory">>, <<"inventory", "checkout">>, <<"exact", "detect">>,
          <<"detect", "redetect">>, <<"redetect", "head_before">>, <<"stable", "head_after">>,
          <<"captured", "scan">>, <<"attached", "cleanup">>, <<"cleanup", "finish">>,
          <<"finish", "done">>}

LEMMA QuietKeeps ==
  ASSUME CaptureInv, UNCHANGED <<source, Rest>>,
         NEW from, NEW to, <<from, to>> \in Quiet, pc = from, Go(to),
         to = "scan" => before.commit = after.commit,
         to = "checkout" => validate_tree_inventory(commits[requested])
  PROVE  CaptureInv'
<1> USE DEF Go
<1>1. Typed'
  BY DEF Quiet, CaptureInv, Typed, TypeOK, source, Rest, bundle, HEAD, Identities, Inventoried
<1>2. Contents'
  BY DEF CaptureInv, Contents, source, Rest, HEAD
<1>3. Copying' /\ Walking'
  BY DEF Quiet, CaptureInv, Copying, Walking, source, Rest, NoCopy, Fetching, Detecting, HasCopy,
     Compared, Resampled, Accepted, Scanned, Sealed, Inventory, Inventoried
<1>4. Committed'
  BY DEF Quiet, CaptureInv, Committed, AsCommitted, Standing, source, Rest, HEAD, Inventoried,
     HasCopy, Compared, Resampled, Accepted, Scanned, Sealed
<1>5. Identified'
  BY DEF Quiet, CaptureInv, Identified, Fetching, MergedDirty, source, Rest, bundle, Resampled,
     Accepted, Scanned, Sealed
<1>6. Remoteness'
  BY DEF Quiet, CaptureInv, Typed, Remoteness, source, Rest, HEAD, Converted, Bytes, Rewritten,
     Listed, Places, Detecting, Sampling, HasCopy, Compared, Resampled, Accepted, Scanned,
     Sealed, validate_tree_inventory
<1> QED
  BY <1>1, <1>2, <1>3, <1>4, <1>5, <1>6 DEF CaptureInv

-----------------------------------------------------------------------------
(* The owner. *)

\* What an edit writes is later than everything there is.
LEMMA Edited ==
  ASSUME CaptureInv, Editable
  PROVE  /\ origin # "remote" /\ changes + 1 \in Nat
         /\ \A f \in DOMAIN tree : tree[f] <= changes + 1
         /\ \A f \in DOMAIN copy : copy[f] <= changes + 1 /\ copy[f] # changes + 1
         /\ \A f \in DOMAIN commits[HEAD] :
              commits[HEAD][f] <= changes + 1 /\ commits[HEAD][f] # changes + 1
<1>1. origin # "remote" /\ Contents /\ Typed
  BY DEF CaptureInv, Editable
<1>2. /\ tree \in Trees /\ copy \in Trees /\ commits[HEAD] \in Trees /\ changes \in Nat
  BY <1>1, HeadTree DEF Typed
<1>3. /\ \A f \in DOMAIN tree : tree[f] \in Nat
      /\ \A f \in DOMAIN copy : copy[f] \in Nat
      /\ \A f \in DOMAIN commits[HEAD] : commits[HEAD][f] \in Nat
  BY <1>2, TreeType
<1>4. \A n \in Nat : n <= changes => n <= changes + 1 /\ n # changes + 1
  BY <1>2
<1> QED
  BY <1>1, <1>2, <1>3, <1>4 DEF Contents

\* A change of the source: what it leaves has the content it had, anything else
\* has a content that nothing had before, unless earlier bytes come back.
LEMMA ChangeKeeps ==
  ASSUME CaptureInv, Editable, Seen, changes' = changes + 1,
         UNCHANGED <<origin, kind, commits, requested, pc, before, reading, copy, manifest,
                     listing, after, bundle>>,
         DOMAIN names' = DOMAIN names,
         \A d \in DOMAIN names : /\ names'[d] \subseteq names[d]
                                 /\ names[d] \cap DOMAIN tree' \subseteq names'[d],
         tree' \in Trees, \A f \in DOMAIN tree' : tree'[f] <= changes',
         restored' \in BOOLEAN,
         \/ pc # "detect" => restored'
         \/ /\ restored' = restored
            /\ \A f \in DOMAIN tree' :
                 (f \in DOMAIN tree /\ tree'[f] = tree[f]) \/ tree'[f] = changes + 1
            /\ pc # "detect" => \A f \in DOMAIN tree \ DOMAIN tree' : ~Absent(f)
  PROVE  CaptureInv'
<1>1. Typed
  BY DEF CaptureInv
<1>2. /\ HEAD' = HEAD /\ commits' = commits /\ Inventoried' = Inventoried
      /\ copy' = copy /\ listing' = listing /\ reading' = reading /\ pc' = pc
      /\ before' = before /\ after' = after /\ origin' = origin /\ kind' = kind
      /\ manifest' = manifest /\ recorded' = recorded /\ Done' = Done
  BY DEF HEAD, Inventoried, Done, bundle
<1>3. tree' \in seen' /\ (pc # "detect" => seen \subseteq seen')
  BY DEF Seen
<1>4. ~restored' /\ pc # "detect" =>
        /\ ~restored
        /\ \A f \in DOMAIN copy : Standing(f)' => Standing(f)
        /\ \A f \in DOMAIN commits[HEAD] : AsCommitted(f)' => AsCommitted(f)
  <2> SUFFICES ASSUME ~restored', pc # "detect"
               PROVE  /\ ~restored
                      /\ \A f \in DOMAIN copy : Standing(f)' => Standing(f)
                      /\ \A f \in DOMAIN commits[HEAD] : AsCommitted(f)' => AsCommitted(f)
    OBVIOUS
  <2>1. /\ ~restored
        /\ \A f \in DOMAIN tree' :
             (f \in DOMAIN tree /\ tree'[f] = tree[f]) \/ tree'[f] = changes + 1
    OBVIOUS
  <2>2. /\ \A f \in DOMAIN copy : copy[f] # changes + 1
        /\ \A f \in DOMAIN commits[HEAD] : commits[HEAD][f] # changes + 1
    BY Edited
  <2> QED
    BY <1>2, <2>1, <2>2 DEF Standing, AsCommitted
<1>5. Typed'
  <2>1. TypeOK'
    BY <1>1, <1>2 DEF Typed, TypeOK
  <2>2. changes' \in Nat
    BY <1>1 DEF Typed
  <2> QED
    BY <1>1, <1>2, <1>3, <2>1, <2>2 DEF Typed, Identities
<1>6. Contents'
  <2>1. origin' # "remote" /\ changes' = changes + 1
    BY <1>2 DEF Editable
  <2>2. /\ \A f \in DOMAIN copy : copy[f] <= changes + 1
        /\ \A f \in DOMAIN commits[HEAD] : commits[HEAD][f] <= changes + 1
    BY Edited
  <2>3. \A f \in DOMAIN commits[HEAD] : kind[f] # "unversioned"
    BY DEF CaptureInv, Contents, Editable
  <2> QED
    BY <1>2, <2>1, <2>2, <2>3 DEF Contents
<1>7. pc # "detect" => \A f : Absent(f) => Absent(f)'
  BY <1>3 DEF Absent
<1>8. /\ \A f : Passed(f)' => Passed(f) \/ f \notin DOMAIN tree'
      /\ \A f : Passed(f) => Passed(f)'
  BY DEF Passed
<1>9. Walking'
  <2>1. ASSUME pc \in {"copy", "compare"}
        PROVE  \A d \in DOMAIN names' \ Range(reading) : names'[d] \subseteq DOMAIN Done
    BY <2>1 DEF CaptureInv, Walking
  <2>2. ASSUME pc = "copy", NEW f \in Inventoried \ DOMAIN copy, Passed(f)'
        PROVE  Absent(f)'
    <3>1. CASE Passed(f)
      BY <1>7, <2>2, <3>1 DEF CaptureInv, Walking
    <3>2. CASE f \notin DOMAIN tree'
      BY <1>3, <3>2 DEF Absent
    <3> QED
      BY <1>8, <2>2, <3>1, <3>2
  <2>3. ASSUME pc \in {"reopen", "compare"}, NEW f \in Inventoried \ DOMAIN copy
        PROVE  Absent(f)'
    BY <1>7, <2>3 DEF CaptureInv, Walking
  <2> QED
    BY <1>2, <2>1, <2>2, <2>3 DEF Walking
<1>10. Copying'
  <2>1. Copying
    BY DEF CaptureInv
  <2>2. ASSUME pc = "compare", ~restored'
        PROVE  (\E t \in seen : Reopened(t))'
    <3>1. PICK t \in seen : Reopened(t)
      BY <1>4, <2>1, <2>2 DEF Copying
    <3>2. ASSUME NEW f \in Inventoried \ DOMAIN copy, f \notin DOMAIN tree' \/ Passed(f)'
          PROVE  f \notin DOMAIN t
      <4>1. f \notin DOMAIN tree' \/ Passed(f)
        BY <1>8, <3>2
      <4>2. Absent(f)
        BY <2>2 DEF CaptureInv, Walking
      <4>3. f \notin DOMAIN tree \/ f \in DOMAIN tree'
        BY <2>2, <4>2
      <4> QED
        BY <3>1, <4>1, <4>3 DEF Reopened
    <3>3. Reopened(t)'
      BY <1>2, <1>4, <2>2, <3>1, <3>2 DEF Reopened
    <3> QED
      BY <1>3, <2>2, <3>3
  <2>3. ASSUME pc \in Compared, ~restored'
        PROVE  (\E t \in seen : copy = Inventory(t))'
    <3>1. pc # "detect"
      BY <2>3 DEF Compared, Resampled, Accepted, Scanned, Sealed
    <3>2. PICK t \in seen : copy = Inventory(t)
      BY <1>4, <2>1, <2>3, <3>1 DEF Copying
    <3>3. Inventory(t)' = Inventory(t)
      BY <1>2 DEF Inventory
    <3> QED
      BY <1>2, <1>3, <3>1, <3>2, <3>3
  <2> QED
    BY <1>2, <2>1, <2>2, <2>3 DEF Copying, Compared, HasCopy, NoCopy, Fetching, Detecting
<1>11. Committed'
  <2>1. Committed
    BY DEF CaptureInv
  <2> SUFFICES ASSUME (origin = "git" /\ ~restored /\ before.commit = HEAD)'
               PROVE  /\ pc = "copy" => \A f \in Inventoried : AsCommitted(f)' => ~Passed(f)'
                      /\ pc \in HasCopy =>
                           \A f \in Inventoried : AsCommitted(f)' => f \in DOMAIN copy
                      /\ pc \in Resampled /\ after.commit = HEAD /\ after.dirty = "clean" =>
                           /\ \A f \in DOMAIN copy :
                                Standing(f)' /\ kind[f] # "unversioned"
                                => f \in DOMAIN commits[HEAD] /\ commits[HEAD][f] = copy[f]
                           /\ Inventoried \cap DOMAIN commits[HEAD] \subseteq DOMAIN copy
    BY <1>2 DEF Committed
  <2>2. CASE pc = "detect"
    BY <2>2 DEF HasCopy, Compared, Resampled, Accepted, Scanned, Sealed
  <2>3. CASE pc # "detect"
    <3>1. \A f : AsCommitted(f)' => AsCommitted(f) /\ f \in DOMAIN tree'
      BY <1>2, <1>4, <2>3 DEF AsCommitted
    <3>2. \A f \in DOMAIN copy : Standing(f)' => Standing(f)
      BY <1>4, <2>3
    <3>3. origin = "git" /\ ~restored /\ before.commit = HEAD
      BY <1>2, <1>4, <2>3
    <3> QED
      BY <1>8, <2>1, <3>1, <3>2, <3>3 DEF Committed
  <2> QED
    BY <2>2, <2>3
<1>12. Identified'
  BY <1>2 DEF CaptureInv, Identified, Fetching, MergedDirty
<1>13. Remoteness'
  BY <1>2 DEF Remoteness, Editable
<1> QED
  BY <1>5, <1>6, <1>9, <1>10, <1>11, <1>12, <1>13 DEF CaptureInv

LEMMA EditKeeps == ASSUME CaptureInv, NEW f \in Files, Edit(f) PROVE CaptureInv'
<1>1. tree \in Trees /\ restored \in BOOLEAN /\ Editable
  BY DEF CaptureInv, Typed, Edit
<1>2. tree' = Put(tree, f, changes + 1) /\ changes' = changes + 1
  BY DEF Edit
<1>3. /\ tree' \in Trees
      /\ \A g \in DOMAIN tree' : (g \in DOMAIN tree /\ tree'[g] = tree[g]) \/ tree'[g] = changes + 1
  <2>1. changes + 1 \in Nat
    BY <1>1, Edited
  <2>2. /\ tree' \in Trees /\ DOMAIN tree' = DOMAIN tree \cup {f} /\ tree'[f] = changes + 1
        /\ \A g \in DOMAIN tree \ {f} : tree'[g] = tree[g]
    BY <1>1, <1>2, <2>1, PutTree
  <2> QED
    BY <2>2
<1>4. \A g \in DOMAIN tree' : tree'[g] <= changes'
  BY <1>1, <1>2, <1>3, Edited
<1>5. DOMAIN tree \subseteq DOMAIN tree'
  BY <1>2 DEF Put
<1> QED
  BY <1>1, <1>2, <1>3, <1>4, <1>5, ChangeKeeps DEF Edit, scan

LEMMA DeleteKeeps == ASSUME CaptureInv, NEW f \in Files, Delete(f) PROVE CaptureInv'
<1>1. tree \in Trees /\ restored \in BOOLEAN /\ Editable /\ f \in DOMAIN tree
  BY DEF CaptureInv, Typed, Delete
<1>2. tree' = Restrict(tree, DOMAIN tree \ {f}) /\ changes' = changes + 1
  BY DEF Delete
<1>3. /\ tree' \in Trees /\ DOMAIN tree' = DOMAIN tree \ {f}
      /\ \A g \in DOMAIN tree' : g \in DOMAIN tree /\ tree'[g] = tree[g]
  BY <1>1, <1>2, RestrictTree
<1>4. \A g \in DOMAIN tree' : tree'[g] <= changes'
  BY <1>1, <1>2, <1>3, Edited
<1>5. /\ DOMAIN names' = DOMAIN names
      /\ \A d \in DOMAIN names : /\ names'[d] \subseteq names[d]
                                 /\ names[d] \cap DOMAIN tree' \subseteq names'[d]
  <2>1. names' \in {names, [d \in DOMAIN names |-> names[d] \ {f}]}
    BY DEF Delete
  <2> QED
    BY <1>3, <2>1
<1>6. \/ pc # "detect" => restored'
      \/ restored' = restored /\ (pc # "detect" => ~Absent(f))
  <2>1. restored' = (restored \/ (pc # "detect" /\ Absent(f)))
    BY DEF Delete, Absent
  <2>2. CASE pc # "detect" /\ Absent(f)
    BY <1>1, <2>1, <2>2, Zenon
  <2>3. CASE ~(pc # "detect" /\ Absent(f))
    BY <1>1, <2>1, <2>3, Zenon
  <2> QED
    BY <2>2, <2>3
<1>7. restored' \in BOOLEAN
  BY <1>1, Zenon DEF Delete
<1>8. UNCHANGED <<origin, kind, commits, requested, pc, before, reading, copy, manifest,
                  listing, after, bundle>>
  BY DEF Delete
<1>9. Seen
  BY DEF Delete
<1>10. \/ pc # "detect" => restored'
       \/ /\ restored' = restored
          /\ \A g \in DOMAIN tree' :
               (g \in DOMAIN tree /\ tree'[g] = tree[g]) \/ tree'[g] = changes + 1
          /\ pc # "detect" => \A g \in DOMAIN tree \ DOMAIN tree' : ~Absent(g)
  BY <1>3, <1>6
<1> QED
  BY <1>1, <1>2, <1>3, <1>4, <1>5, <1>7, <1>8, <1>9, <1>10, ChangeKeeps

LEMMA RevertKeeps == ASSUME CaptureInv, Revert PROVE CaptureInv'
<1>1. Editable /\ changes' = changes + 1 /\ Typed
  BY DEF Revert, CaptureInv
<1>2. /\ tree \in Trees /\ commits[HEAD] \in Trees
      /\ DOMAIN tree' \subseteq DOMAIN commits[HEAD] \cup DOMAIN tree
      /\ tree' = [f \in DOMAIN tree' |->
                   IF f \in DOMAIN commits[HEAD] THEN commits[HEAD][f] ELSE tree[f]]
  BY <1>1, HeadTree DEF Revert, Typed
<1>3. /\ \A f \in DOMAIN tree' : tree'[f] \in Nat
      /\ DOMAIN tree' \in SUBSET Files
  BY <1>2, TreeType
<1>4. tree' \in Trees
  <2>1. tree' \in [DOMAIN tree' -> Nat]
    BY <1>2, <1>3
  <2> QED
    BY <1>3, <2>1 DEF Trees
<1>5. \A g \in DOMAIN tree' : tree'[g] <= changes'
  BY <1>1, <1>2, Edited
<1>6. restored' = (pc # "detect")
  BY DEF Revert
<1>7. restored' \in BOOLEAN /\ (pc # "detect" => restored')
  BY <1>6, Zenon
<1> QED
  BY <1>1, <1>4, <1>5, <1>7, ChangeKeeps DEF Revert, scan

\* A commit moves HEAD from where any earlier sample found it.
LEMMA CommitKeeps == ASSUME CaptureInv, Commit PROVE CaptureInv'
<1>1. Typed /\ Editable /\ origin = "git"
  BY DEF CaptureInv, Commit
<1>2. /\ commits' = Append(commits, Versioned(tree)) /\ changes' = changes + 1 /\ tree' = tree
      /\ seen' = seen /\ restored' = restored /\ requested' = requested
      /\ Inventoried' = Inventoried /\ kind' = kind /\ origin' = origin
      /\ copy' = copy /\ listing' = listing /\ names' = names /\ pc' = pc
      /\ reading' = reading
      /\ before' = before /\ after' = after /\ manifest' = manifest /\ recorded' = recorded
  BY DEF Commit, Inventoried, scan, bundle
<1>3. /\ commits' \in Seq(Trees) /\ HEAD' = HEAD + 1
      /\ commits'[HEAD'] = Versioned(tree)
  <2>1. commits \in Seq(Trees) /\ Versioned(tree) \in Trees
    BY <1>1, VersionedTree DEF Typed
  <2> QED
    BY <1>2, <2>1 DEF HEAD
<1>4. HEAD \in Nat /\ HEAD >= 1 /\ 0..HEAD \subseteq 0..(HEAD + 1)
  BY <1>1, HeadTree DEF Typed
<1>5. before.commit \in 0..HEAD /\ before.commit # HEAD'
  <2>1. before.commit \in 0..HEAD
    BY <1>1 DEF Typed, Identities
  <2> QED
    BY <1>3, <1>4, <2>1
<1>6. Typed'
  <2>1. TypeOK'
    BY <1>1, <1>2, <1>3, <1>4 DEF Typed, TypeOK
  <2>2. before' \in Identities' /\ after' \in Identities'
    BY <1>1, <1>2, <1>3, <1>4 DEF Typed, Identities
  <2>3. changes' \in Nat /\ HEAD' >= 1
    BY <1>1, <1>2, <1>3, <1>4 DEF Typed
  <2> QED
    BY <1>1, <1>2, <1>3, <2>1, <2>2, <2>3 DEF Typed
<1>7. Contents'
  <2>1. /\ DOMAIN Versioned(tree) \subseteq DOMAIN tree
        /\ \A f \in DOMAIN Versioned(tree) :
             Versioned(tree)[f] = tree[f] /\ kind[f] # "unversioned"
    BY <1>1, VersionedTree DEF Typed
  <2> QED
    BY <1>1, <1>2, <1>3, <2>1, Edited DEF Contents
<1>8. Copying' /\ Walking'
  <2>1. \A t : Inventory(t)' = Inventory(t) /\ (Reopened(t)' <=> Reopened(t))
    BY <1>2 DEF Inventory, Reopened, Standing, Passed
  <2>2. Done' = Done /\ \A f : (Passed(f)' <=> Passed(f)) /\ (Absent(f)' <=> Absent(f))
    BY <1>2 DEF Done, Passed, Absent
  <2> QED
    BY <1>2, <2>1, <2>2 DEF CaptureInv, Copying, Walking
<1>9. Committed'
  BY <1>2, <1>5 DEF Committed
<1>10. Identified' /\ Remoteness'
  BY <1>1, <1>2 DEF CaptureInv, Identified, Fetching, MergedDirty, Remoteness
<1> QED
  BY <1>6, <1>7, <1>8, <1>9, <1>10 DEF CaptureInv

-----------------------------------------------------------------------------
(* The capture. *)

LEMMA DetectKeeps == ASSUME CaptureInv, Detect \/ Redetect PROVE CaptureInv'
<1>1. UNCHANGED <<source, Rest>>
  BY DEF Detect, Redetect, Rest
<1>2. \/ Refuse
      \/ pc = "detect" /\ Go("redetect")
      \/ pc = "redetect" /\ Go("head_before")
  BY DEF Detect, Redetect
<1> QED
  BY <1>1, <1>2, RefusedKeeps, QuietKeeps DEF Quiet, Rest

\* A sample of the identity says where HEAD is.
LEMMA SampledType ==
  ASSUME CaptureInv
  PROVE  /\ Sampled \in Identities
         /\ origin = "directory" => Sampled.commit = 0
         /\ origin # "directory" => Sampled.commit = HEAD
         /\ \A i \in Identities :
              /\ WithStatus(i) \in Identities /\ WithStatus(i).commit = i.commit
              /\ i.commit # 0 => WithStatus(i).dirty # "unknown"
              /\ i.commit # 0 /\ origin # "remote" => WithStatus(i).dirty = Status(tree)
<1>1. HEAD \in Nat
  BY HeadTree DEF CaptureInv
<1>2. Status(tree) \in {"clean", "dirty"}
  BY DEF Status
<1>3. /\ Sampled \in Identities
      /\ origin = "directory" => Sampled.commit = 0
      /\ origin # "directory" => Sampled.commit = HEAD
  BY <1>1 DEF Sampled, Unknown, Identities
<1>4. ASSUME NEW i \in Identities
      PROVE  /\ WithStatus(i) \in Identities /\ WithStatus(i).commit = i.commit
             /\ i.commit # 0 => WithStatus(i).dirty # "unknown"
             /\ i.commit # 0 /\ origin # "remote" => WithStatus(i).dirty = Status(tree)
  BY <1>2 DEF WithStatus, Identities
<1> QED
  BY <1>3, <1>4

\* Before there is a copy, only the types and the contents say anything, and
\* that a remote checkout is what it is.
LEMMA BeforeKeeps ==
  ASSUME CaptureInv, HeadBefore \/ StatusBefore
  PROVE  CaptureInv'
<1>1. /\ pc \in {"head_before", "status_before"} /\ pc' \in {"status_before", "open"}
      /\ before' = Sampled \/ before' = WithStatus(before)
      /\ UNCHANGED <<source, reading, names, copy, manifest, listing, after, bundle>>
  BY DEF HeadBefore, StatusBefore, Go
<1>2. Typed /\ before \in Identities
  BY DEF CaptureInv, Typed
<1>3. before' \in Identities /\ (origin = "directory" => before'.commit = 0)
  BY <1>1, <1>2, SampledType DEF CaptureInv, Identified
<1>4. HEAD' = HEAD /\ Inventoried' = Inventoried
  BY <1>1 DEF source, HEAD, Inventoried
<1>5. Typed'
  BY <1>1, <1>2, <1>3, <1>4 DEF Typed, TypeOK, Identities, source, bundle
<1>6. Contents'
  BY <1>1, <1>4 DEF CaptureInv, Contents, source
<1>7. Copying' /\ Walking' /\ Committed'
  BY <1>1 DEF CaptureInv, Copying, Walking, Committed, NoCopy, Fetching, Detecting, HasCopy,
     Compared, Resampled, Accepted, Scanned, Sealed
<1>8. Identified'
  BY <1>1, <1>3 DEF CaptureInv, Identified, Fetching, source, Resampled, Accepted, Scanned, Sealed
<1>9. Remoteness'
  BY <1>1, <1>4 DEF CaptureInv, Remoteness, source, Converted, Listed, Places, Detecting,
     Sampling, HasCopy, Compared, Resampled, Accepted, Scanned, Sealed
<1> QED
  BY <1>5, <1>6, <1>7, <1>8, <1>9 DEF CaptureInv

\* No inventory leaves out anything of a remote checkout.
LEMMA RemoteTree ==
  ASSUME CaptureInv, origin = "remote", pc \in Places
  PROVE  DOMAIN tree \subseteq Inventoried
<1>1. /\ tree = Converted(commits[1]) /\ commits[1] \in Trees
      /\ \A f \in DOMAIN commits[1] : kind[f] # "ignored"
  BY HeadTree DEF CaptureInv, Remoteness, Listed
<1> QED
  BY <1>1, ConvertedTree, TreeType DEF Inventoried

\* What an opened directory holds is what stands in it.
LEMMA OpenedType ==
  ASSUME CaptureInv, NEW from, NEW to, Open(from, to)
  PROVE  /\ reading' \in Seq(Dirs) /\ Range(reading') = {Root}
         /\ DOMAIN names' = {Root} /\ names'[Root] = Inside(Root)
         /\ DOMAIN names' \subseteq Dirs
<1>1. Root \in Dirs
  BY CaptureAssumption
<1>2. reading' = <<Root>> /\ names' = Put(<< >>, Root, Inside(Root))
  BY DEF Open
<1> QED
  BY <1>1, <1>2 DEF Put, Range

LEMMA OpenKeeps == ASSUME CaptureInv, OpenSource PROVE CaptureInv'
<1>1. /\ pc = "open" /\ pc' = "copy" /\ DOMAIN names' = {Root} /\ names'[Root] = Inside(Root)
      /\ Range(reading') = {Root} /\ reading' \in Seq(Dirs) /\ DOMAIN names' \subseteq Dirs
      /\ UNCHANGED <<source, before, copy, manifest, listing, after, bundle>>
  BY OpenedType DEF OpenSource, Open, Go
<1>2. /\ HEAD' = HEAD /\ Inventoried' = Inventoried /\ DOMAIN copy = {}
      /\ Inside(Root) = {f \in Inventoried \cap DOMAIN tree : Dir[f] = Root}
      /\ tree \in seen /\ seen' = seen /\ tree' = tree /\ kind' = kind /\ commits' = commits
  BY <1>1, EmptyTree DEF source, HEAD, Inventoried, CaptureInv, Typed, Copying, NoCopy, Fetching,
     Detecting, Inside
<1>3. \A f : Passed(f)' => f \notin Inventoried \cap DOMAIN tree
  BY <1>1, <1>2 DEF Passed
<1>4. Typed'
  BY <1>1, <1>2 DEF CaptureInv, Typed, TypeOK, Identities, source, bundle
<1>5. Contents'
  BY <1>1, <1>2 DEF CaptureInv, Contents, source
<1>6. Copying'
  BY <1>1 DEF CaptureInv, Copying, NoCopy, Fetching, Detecting, HasCopy, Compared, Resampled,
     Accepted, Scanned, Sealed
<1>7. Walking'
  BY <1>1, <1>2, <1>3 DEF Walking, Absent
<1>8. Committed'
  BY <1>1, <1>2, <1>3 DEF CaptureInv, Committed, AsCommitted, HasCopy, Compared, Resampled,
     Accepted, Scanned, Sealed
<1>9. Identified'
  BY <1>1 DEF CaptureInv, Identified, Fetching, source, Resampled, Accepted, Scanned, Sealed
<1>10. Remoteness'
  <2> SUFFICES ASSUME origin = "remote" PROVE Remoteness'
    BY <1>1 DEF Remoteness, source
  <2>1. DOMAIN tree \subseteq Inventoried
    BY <1>1, RemoteTree DEF Places, Detecting
  <2> QED
    BY <1>1, <1>2, <1>3, <2>1 DEF CaptureInv, Remoteness, source, Converted, Listed, Places,
       Detecting, Sampling, HasCopy, Compared, Resampled, Accepted, Scanned, Sealed
<1> QED
  BY <1>4, <1>5, <1>6, <1>7, <1>8, <1>9, <1>10 DEF CaptureInv

\* A directory is opened in its turn: what is missing of it then is absent.
LEMMA EnterKeeps == ASSUME CaptureInv, NEW d \in Dirs, Enter(d) PROVE CaptureInv'
<1>1. /\ pc \in {"copy", "compare"} /\ pc' = pc /\ d \notin DOMAIN names
      /\ reading' = Append(reading, d)
      /\ DOMAIN names' = DOMAIN names \cup {d} /\ names'[d] = Inside(d)
      /\ \A e \in DOMAIN names : names'[e] = names[e]
      /\ UNCHANGED <<source, before, copy, manifest, listing, after, bundle>>
  BY DEF Enter, Put
<1>2. /\ HEAD' = HEAD /\ Inventoried' = Inventoried /\ seen' = seen /\ tree' = tree
      /\ Inside(d) = {f \in Inventoried \cap DOMAIN tree : Dir[f] = d} /\ tree \in seen
      /\ kind' = kind /\ commits' = commits /\ Done' = Done
  BY <1>1 DEF source, HEAD, Inventoried, Inside, CaptureInv, Typed, Done
<1>3. /\ reading' \in Seq(Dirs) /\ Range(reading') = Range(reading) \cup {d}
      /\ DOMAIN names \subseteq Dirs
  <2>1. reading \in Seq(Dirs) /\ DOMAIN names \subseteq Dirs
    BY DEF CaptureInv, Typed, TypeOK
  <2> QED
    BY <1>1, <2>1 DEF Range
<1>4. \A f : Passed(f)' => Passed(f) \/ f \notin Inventoried \cap DOMAIN tree
  BY <1>1, <1>2 DEF Passed
<1>5. Typed'
  BY <1>1, <1>2, <1>3 DEF CaptureInv, Typed, TypeOK, Identities, source, bundle
<1>6. Contents'
  BY <1>1, <1>2 DEF CaptureInv, Contents, source
<1>7. Walking'
  <2>1. \A f : (Absent(f)' <=> Absent(f)) /\ (f \notin DOMAIN tree => Absent(f))
    BY <1>2 DEF Absent
  <2> QED
    BY <1>1, <1>2, <1>3, <1>4, <2>1 DEF CaptureInv, Walking
<1>8. Copying'
  <2>1. ASSUME NEW t \in seen, Reopened(t)
        PROVE  Reopened(t)'
    BY <1>1, <1>2, <1>4, <2>1 DEF Reopened, Standing
  <2> QED
    BY <1>1, <1>2, <2>1 DEF CaptureInv, Copying, NoCopy, Fetching, Detecting, HasCopy, Compared,
       Resampled, Accepted, Scanned, Sealed, source
<1>9. Committed'
  BY <1>1, <1>2, <1>4 DEF CaptureInv, Committed, AsCommitted, source, HasCopy, Compared,
     Resampled, Accepted, Scanned, Sealed
<1>10. Identified'
  BY <1>1 DEF CaptureInv, Identified, Fetching, source, Resampled, Accepted, Scanned, Sealed
<1>11. Remoteness'
  <2>1. origin = "remote" => DOMAIN tree \subseteq Inventoried
    BY <1>1, RemoteTree DEF Places, Sampling, HasCopy
  <2> QED
    BY <1>1, <1>2, <1>4, <2>1 DEF CaptureInv, Remoteness, source, Converted, Listed, Places,
       Detecting, Sampling, HasCopy, Compared, Resampled, Accepted, Scanned, Sealed
<1> QED
  BY <1>5, <1>6, <1>7, <1>8, <1>9, <1>10, <1>11 DEF CaptureInv

\* A directory is left when all its names were given.
LEMMA LeaveKeeps == ASSUME CaptureInv, Leave PROVE CaptureInv'
<1>1. /\ pc \in {"copy", "compare"} /\ pc' = pc /\ reading # << >>
      /\ names[Here] \subseteq DOMAIN Done /\ reading' = Front(reading)
      /\ UNCHANGED <<source, before, names, copy, manifest, listing, after, bundle>>
  BY DEF Leave
<1>2. /\ HEAD' = HEAD /\ Inventoried' = Inventoried /\ seen' = seen /\ Done' = Done
      /\ \A f : /\ Passed(f)' <=> Passed(f)
                /\ Absent(f)' <=> Absent(f)
                /\ AsCommitted(f)' <=> AsCommitted(f)
      /\ \A t : Reopened(t)' <=> Reopened(t)
  BY <1>1 DEF source, HEAD, Inventoried, Done, Passed, Absent, AsCommitted, Reopened, Standing
<1>3. reading' \in Seq(Dirs) /\ Range(reading) \subseteq Range(reading') \cup {Here}
  <2>1. reading \in Seq(Dirs) /\ reading # << >>
    BY <1>1 DEF CaptureInv, Typed, TypeOK
  <2>2. /\ reading' = [k \in 1..(Len(reading) - 1) |-> reading[k]]
        /\ Here = reading[Len(reading)] /\ Len(reading) \in Nat /\ Len(reading) >= 1
    BY <1>1, <2>1 DEF Front, Here, Last
  <2>3. reading' \in Seq(Dirs)
    BY <1>1, <2>1 DEF Front
  <2>4. ASSUME NEW k \in DOMAIN reading PROVE reading[k] \in Range(reading') \cup {Here}
    <3>1. k \in 1..Len(reading)
      BY <2>1
    <3>2. CASE k = Len(reading)
      BY <2>2, <3>2
    <3>3. CASE k # Len(reading)
      <4>1. k \in 1..(Len(reading) - 1)
        BY <2>2, <3>1, <3>3
      <4> QED
        BY <2>2, <4>1 DEF Range
    <3> QED
      BY <3>2, <3>3
  <2> QED
    BY <2>3, <2>4 DEF Range
<1>4. Typed'
  BY <1>1, <1>2, <1>3 DEF CaptureInv, Typed, TypeOK, Identities, source, bundle
<1>5. Contents'
  BY <1>1, <1>2 DEF CaptureInv, Contents, source
<1>6. Walking'
  BY <1>1, <1>2, <1>3 DEF CaptureInv, Walking
<1>7. Copying'
  BY <1>1, <1>2 DEF CaptureInv, Copying, NoCopy, Fetching, Detecting, HasCopy, Compared,
     Resampled, Accepted, Scanned, Sealed, source
<1>8. Committed'
  BY <1>1, <1>2 DEF CaptureInv, Committed, source, HasCopy, Compared, Resampled, Accepted,
     Scanned, Sealed
<1>9. Identified'
  BY <1>1 DEF CaptureInv, Identified, Fetching, source, Resampled, Accepted, Scanned, Sealed
<1>10. Remoteness'
  BY <1>1, <1>2 DEF CaptureInv, Remoteness, source, Converted, Listed, Places, Detecting,
     Sampling, HasCopy, Compared, Resampled, Accepted, Scanned, Sealed
<1> QED
  BY <1>4, <1>5, <1>6, <1>7, <1>8, <1>9, <1>10 DEF CaptureInv

\* When every directory was read to its end, each has given all its names.
LEMMA ReadToEnd ==
  ASSUME CaptureInv, pc \in {"copy", "compare"}, Finished, NEW f \in Files
  PROVE  Passed(f) \/ f \in DOMAIN Done
<1>1. Dir[f] \in Dirs /\ DOMAIN names = Dirs /\ Range(reading) = {}
  BY CaptureAssumption DEF Finished, Range
<1> QED
  BY <1>1 DEF CaptureInv, Walking, Passed

LEMMA CopyFileKeeps == ASSUME CaptureInv, NEW f \in Files, CopyFile(f) PROVE CaptureInv'
<1>1. /\ pc = "copy" /\ pc' = pc /\ f \in Inventoried \cap DOMAIN tree
      /\ copy' = Put(copy, f, tree[f])
      /\ UNCHANGED <<source, before, reading, names, manifest, listing, after, bundle>>
  BY DEF CopyFile, Visited
<1>2. /\ HEAD' = HEAD /\ Inventoried' = Inventoried /\ seen' = seen
      /\ \A g : (Passed(g)' <=> Passed(g)) /\ (Absent(g)' <=> Absent(g))
  BY <1>1 DEF source, HEAD, Inventoried, Passed, Absent
<1>3. tree \in Trees /\ copy \in Trees /\ tree[f] \in Nat
  BY <1>1, TreeType DEF CaptureInv, Typed
<1>4. /\ copy' \in Trees /\ DOMAIN copy' = DOMAIN copy \cup {f} /\ copy'[f] = tree[f]
      /\ \A g \in DOMAIN copy \ {f} : copy'[g] = copy[g]
  <2> DEFINE c == tree[f]
  <2>1. copy' = Put(copy, f, c) /\ c \in Nat /\ copy \in Trees
    BY <1>1, <1>3
  <2> HIDE DEF c
  <2>2. /\ copy' \in Trees /\ DOMAIN copy' = DOMAIN copy \cup {f} /\ copy'[f] = c
        /\ \A g \in DOMAIN copy \ {f} : copy'[g] = copy[g]
    BY <2>1, PutTree
  <2> QED
    BY <2>2 DEF c
<1>5. Typed'
  BY <1>1, <1>2, <1>4 DEF CaptureInv, Typed, TypeOK, Identities, source, bundle
<1>6. Contents'
  BY <1>1, <1>2, <1>4 DEF CaptureInv, Contents, source
<1>7. Copying'
  BY <1>1 DEF CaptureInv, Copying, NoCopy, Fetching, Detecting, HasCopy, Compared, Resampled,
     Accepted, Scanned, Sealed
<1>8. Walking'
  <2>1. Done' = copy' /\ Done = copy
    BY <1>1 DEF Done
  <2> QED
    BY <1>1, <1>2, <1>4, <2>1 DEF CaptureInv, Walking
<1>9. Committed'
  BY <1>1, <1>2 DEF CaptureInv, Committed, AsCommitted, source, HasCopy, Compared, Resampled,
     Accepted, Scanned, Sealed
<1>10. Identified'
  BY <1>1 DEF CaptureInv, Identified, Fetching, source, Resampled, Accepted, Scanned, Sealed
<1>11. Remoteness'
  <2>1. ASSUME origin = "remote", NEW g \in DOMAIN copy'
        PROVE  g \in DOMAIN tree /\ copy'[g] = tree[g]
    <3>1. CASE g = f
      BY <1>1, <1>4, <3>1
    <3>2. CASE g # f
      BY <1>1, <1>4, <2>1, <3>2 DEF CaptureInv, Remoteness
    <3> QED
      BY <3>1, <3>2
  <2>2. tree' = tree /\ origin' = origin /\ kind' = kind /\ commits' = commits
    BY <1>1 DEF source
  <2> QED
    BY <1>1, <1>2, <2>1, <2>2 DEF CaptureInv, Remoteness, Converted, Listed, Places, Detecting,
       Sampling, HasCopy, Compared, Resampled, Accepted, Scanned, Sealed
<1> QED
  BY <1>5, <1>6, <1>7, <1>8, <1>9, <1>10, <1>11 DEF CaptureInv

LEMMA CopiedKeeps == ASSUME CaptureInv, Copied PROVE CaptureInv'
<1>1. /\ pc = "copy" /\ pc' = "reopen" /\ Finished
      /\ manifest' = copy /\ names' = << >>
      /\ UNCHANGED <<source, before, reading, copy, listing, after, bundle>>
  BY DEF Copied, Go
<1>2. HEAD' = HEAD /\ Inventoried' = Inventoried /\ \A f : Absent(f)' <=> Absent(f)
  BY <1>1 DEF source, HEAD, Inventoried, Absent
<1>3. \A f \in Files : Passed(f) \/ f \in DOMAIN copy
  BY <1>1, ReadToEnd DEF Done
<1>4. Typed'
  BY <1>1, <1>2, EmptyTree DEF CaptureInv, Typed, TypeOK, Identities, source, bundle
<1>5. Contents'
  BY <1>1, <1>2 DEF CaptureInv, Contents, source
<1>6. Copying'
  BY <1>1 DEF CaptureInv, Copying, NoCopy, Fetching, Detecting, HasCopy, Compared, Resampled,
     Accepted, Scanned, Sealed
<1>7. Committed'
  BY <1>1, <1>2, <1>3 DEF Inventoried, CaptureInv, Committed, AsCommitted, source, HasCopy,
     Compared, Resampled, Accepted, Scanned, Sealed
<1>8. Identified'
  BY <1>1 DEF CaptureInv, Identified, Fetching, source, Resampled, Accepted, Scanned, Sealed
<1>9. Remoteness'
  <2>1. ASSUME origin = "remote" PROVE copy = tree
    <3>1. tree \in Trees /\ copy \in Trees
      BY DEF CaptureInv, Typed
    <3>2. /\ \A f \in DOMAIN tree : ~Passed(f)
          /\ \A f \in DOMAIN copy : f \in DOMAIN tree /\ copy[f] = tree[f]
      BY <1>1, <2>1 DEF CaptureInv, Remoteness
    <3> QED
      BY <1>3, <3>1, <3>2, SameTree, TreeType
  <2>2. tree' = tree /\ origin' = origin /\ kind' = kind /\ commits' = commits
    BY <1>1 DEF source
  <2> QED
    BY <1>1, <1>2, <2>1, <2>2 DEF CaptureInv, Remoteness, Converted, Listed, Places, Detecting,
       Sampling, HasCopy, Compared, Resampled, Accepted, Scanned, Sealed
<1>10. Walking'
  BY <1>1, <1>2, <1>3 DEF CaptureInv, Walking, Inventoried
<1> QED
  BY <1>4, <1>5, <1>6, <1>7, <1>8, <1>9, <1>10 DEF CaptureInv

\* From here on the copy, and what is recorded of it, stays what it is.
LEMMA Later ==
  ASSUME CaptureInv, UNCHANGED <<source, copy, manifest, bundle>>, pc' # "copy",
         pc \in HasCopy, pc' \in HasCopy, pc' \in Scanned => pc \in Scanned,
         pc' \in Accepted => pc \in Accepted, pc' \in Sealed => pc \in Sealed,
         pc' \in Resampled => UNCHANGED <<before, after>> /\ pc \in Resampled,
         before' = before
  PROVE  Contents' /\ Committed' /\ Identified' /\ Remoteness'
<1>1. HEAD' = HEAD /\ Inventoried' = Inventoried
  BY DEF source, HEAD, Inventoried
<1>2. Contents'
  BY <1>1 DEF CaptureInv, Contents, source
<1>3. Committed'
  BY <1>1 DEF CaptureInv, Committed, AsCommitted, Standing, source
<1>4. Identified'
  BY DEF CaptureInv, Identified, Fetching, MergedDirty, source, bundle, HasCopy, Compared,
     Resampled, Accepted, Scanned, Sealed
<1>5. Remoteness'
  BY <1>1 DEF CaptureInv, Remoteness, Converted, Bytes, Rewritten, source, Listed, Places, Sampling
<1> QED
  BY <1>2, <1>3, <1>4, <1>5

LEMMA ReopenKeeps == ASSUME CaptureInv, ReopenSource PROVE CaptureInv'
<1>1. /\ pc = "reopen" /\ pc' = "compare" /\ DOMAIN names' = {Root}
      /\ names'[Root] = Inside(Root) /\ DOMAIN names' \subseteq Dirs
      /\ Range(reading') = {Root} /\ reading' \in Seq(Dirs)
      /\ UNCHANGED <<source, before, copy, manifest, listing, after, bundle>>
  BY OpenedType DEF ReopenSource, Open, Go
<1>2. /\ HEAD' = HEAD /\ Inventoried' = Inventoried /\ tree' = tree /\ seen' = seen
      /\ tree \in seen /\ DOMAIN listing = {} /\ \A f : Absent(f)' <=> Absent(f)
      /\ Inside(Root) = {f \in Inventoried \cap DOMAIN tree : Dir[f] = Root}
  BY <1>1, EmptyTree DEF Inside, Absent, source, HEAD, Inventoried, CaptureInv, Typed, Copying
<1>3. Typed'
  BY <1>1, <1>2 DEF CaptureInv, Typed, TypeOK, Identities, source, bundle
<1>4. Reopened(tree)'
  BY <1>1, <1>2 DEF Reopened, Standing, Passed
<1>5. Copying'
  BY <1>1, <1>2, <1>4 DEF CaptureInv, Copying, NoCopy, Fetching, Detecting, HasCopy, Compared,
     Resampled, Accepted, Scanned, Sealed
<1>6. Contents' /\ Committed' /\ Identified' /\ Remoteness'
  BY <1>1, Later DEF HasCopy, Compared, Resampled, Accepted, Scanned, Sealed
<1>7. Walking'
  BY <1>1, <1>2 DEF CaptureInv, Walking
<1> QED
  BY <1>3, <1>5, <1>6, <1>7 DEF CaptureInv

LEMMA ListFileKeeps == ASSUME CaptureInv, NEW f \in Files, ListFile(f) PROVE CaptureInv'
<1>1. /\ pc = "compare" /\ pc' = pc /\ f \in Inventoried \cap DOMAIN tree
      /\ listing' = Put(listing, f, tree[f])
      /\ UNCHANGED <<source, before, reading, names, copy, manifest, after, bundle>>
  BY DEF ListFile, Visited
<1>2. HEAD' = HEAD /\ Inventoried' = Inventoried /\ tree' = tree /\ seen' = seen
      /\ \A g : (Passed(g)' <=> Passed(g)) /\ (Absent(g)' <=> Absent(g))
  BY <1>1 DEF source, HEAD, Inventoried, Passed, Absent
<1>3. tree \in Trees /\ listing \in Trees /\ tree[f] \in Nat
  BY <1>1, TreeType DEF CaptureInv, Typed
<1>4. /\ listing' \in Trees /\ DOMAIN listing' = DOMAIN listing \cup {f}
      /\ listing'[f] = tree[f]
      /\ \A g \in DOMAIN listing \ {f} : listing'[g] = listing[g]
  <2> DEFINE c == tree[f]
  <2>1. listing' = Put(listing, f, c) /\ c \in Nat /\ listing \in Trees
    BY <1>1, <1>3
  <2> HIDE DEF c
  <2>2. /\ listing' \in Trees /\ DOMAIN listing' = DOMAIN listing \cup {f} /\ listing'[f] = c
        /\ \A g \in DOMAIN listing \ {f} : listing'[g] = listing[g]
    BY <2>1, PutTree
  <2> QED
    BY <2>2 DEF c
<1>5. Typed'
  BY <1>1, <1>2, <1>4 DEF CaptureInv, Typed, TypeOK, Identities, source, bundle
<1>6. ASSUME NEW t \in seen, Reopened(t)
      PROVE  Reopened(t)'
  <2>1. ASSUME NEW g \in DOMAIN copy,
               Standing(g)' \/ (g \in DOMAIN listing' /\ listing'[g] = copy[g])
        PROVE  Standing(g) \/ (g \in DOMAIN listing /\ listing[g] = copy[g])
    BY <1>1, <1>2, <1>4, <2>1 DEF Standing
  <2> QED
    BY <1>1, <1>2, <1>6, <2>1 DEF Reopened
<1>7. Copying'
  BY <1>1, <1>2, <1>6 DEF CaptureInv, Copying, NoCopy, Fetching, Detecting, HasCopy, Compared,
     Resampled, Accepted, Scanned, Sealed, source
<1>8. Contents' /\ Committed' /\ Identified' /\ Remoteness'
  BY <1>1, Later DEF HasCopy, Compared, Resampled, Accepted, Scanned, Sealed
<1>9. Walking'
  <2>1. Done' = listing' /\ Done = listing
    BY <1>1 DEF Done
  <2> QED
    BY <1>1, <1>2, <1>4, <2>1 DEF CaptureInv, Walking
<1> QED
  BY <1>5, <1>7, <1>8, <1>9 DEF CaptureInv

\* A listing that equals the copy is of the source when it was reopened: a file
\* that was listed with the content of the copy had it then.
LEMMA CompareKeeps == ASSUME CaptureInv, Compare PROVE CaptureInv'
<1>1. /\ pc = "compare" /\ pc' \in {"stable", "refused"} /\ Finished
      /\ pc' = "stable" => listing = manifest
      /\ names' = << >> /\ listing' = << >>
      /\ UNCHANGED <<source, before, reading, copy, manifest, after, bundle>>
  BY DEF Compare, Go, Refuse, SameBytes
<1>2. /\ HEAD' = HEAD /\ Inventoried' = Inventoried /\ tree' = tree /\ seen' = seen
      /\ restored' = restored
  BY <1>1 DEF source, HEAD, Inventoried
<1>3. Typed'
  BY <1>1, <1>2, EmptyTree DEF CaptureInv, Typed, TypeOK, Identities, source, bundle
<1>4. ASSUME pc' = "stable", ~restored
      PROVE  \E t \in seen : copy = Inventory(t)'
  <2>1. copy = listing
    BY <1>1, <1>4 DEF CaptureInv, Copying, HasCopy
  <2>2. PICK t \in seen : Reopened(t)
    BY <1>1, <1>4 DEF CaptureInv, Copying
  <2>3. /\ DOMAIN copy = Inventoried \cap DOMAIN t
        /\ \A f \in DOMAIN copy : copy[f] = t[f]
    <3>1. DOMAIN copy \subseteq Inventoried
      BY DEF CaptureInv, Typed, TypeOK
    <3>2. \A f \in Files : Passed(f) \/ f \in DOMAIN copy
      BY <1>1, <2>1, ReadToEnd DEF Done
    <3> QED
      BY <2>1, <2>2, <3>1, <3>2 DEF Reopened, Inventoried
  <2>4. copy = Inventory(t)
    BY <2>3, IsInventory DEF CaptureInv, Typed
  <2> QED
    BY <1>2, <2>4 DEF Inventory
<1>5. CASE pc' = "stable"
  <2>1. Copying' /\ Walking'
    BY <1>1, <1>2, <1>4, <1>5 DEF CaptureInv, Copying, Walking, NoCopy, Fetching, Detecting,
       HasCopy, Compared, Resampled, Accepted, Scanned, Sealed
  <2>2. Contents' /\ Committed' /\ Identified' /\ Remoteness'
    BY <1>1, <1>5, Later DEF HasCopy, Compared, Resampled, Accepted, Scanned, Sealed
  <2> QED
    BY <1>3, <2>1, <2>2 DEF CaptureInv
<1>6. CASE Refuse
  BY <1>1, <1>6, RefusedKeeps
<1> QED
  BY <1>1, <1>5, <1>6 DEF Refuse

LEMMA HeadAfterKeeps == ASSUME CaptureInv, HeadAfter PROVE CaptureInv'
<1>1. /\ pc = "head_after" /\ pc' = "status_after" /\ after' = Sampled
      /\ UNCHANGED <<source, before, reading, names, copy, manifest, listing, bundle>>
  BY DEF HeadAfter, Go
<1>2. HEAD' = HEAD /\ Inventoried' = Inventoried /\ seen' = seen /\ restored' = restored
  BY <1>1 DEF source, HEAD, Inventoried
<1>3. Typed'
  BY <1>1, <1>2, SampledType DEF CaptureInv, Typed, TypeOK, Identities, source, bundle
<1>4. Copying' /\ Walking'
  BY <1>1, <1>2 DEF CaptureInv, Copying, Walking, NoCopy, Fetching, Detecting, HasCopy,
     Compared, Resampled, Accepted, Scanned, Sealed, Inventory
<1>5. Contents' /\ Committed' /\ Identified' /\ Remoteness'
  BY <1>1, Later DEF HasCopy, Compared, Resampled, Accepted, Scanned, Sealed
<1> QED
  BY <1>3, <1>4, <1>5 DEF CaptureInv

\* A clean status after the copy: the source is as committed, hence what is as
\* copied is as committed and all of it was copied.
LEMMA StatusAfterKeeps == ASSUME CaptureInv, StatusAfter PROVE CaptureInv'
<1>1. /\ pc = "status_after" /\ pc' = "captured" /\ after' = WithStatus(after)
      /\ UNCHANGED <<source, before, reading, names, copy, manifest, listing, bundle>>
  BY DEF StatusAfter, Go
<1>2. /\ HEAD' = HEAD /\ Inventoried' = Inventoried /\ seen' = seen /\ restored' = restored
      /\ tree' = tree /\ commits' = commits /\ origin' = origin /\ before' = before
      /\ kind' = kind /\ copy' = copy /\ pc' # "copy"
  BY <1>1 DEF source, HEAD, Inventoried
<1>3. after \in Identities
  BY DEF CaptureInv, Typed
<1>4. /\ after' \in Identities /\ after'.commit = after.commit
      /\ after'.commit # 0 => after'.dirty # "unknown"
      /\ after'.commit # 0 /\ origin # "remote" => after'.dirty = Status(tree)
  BY <1>1, <1>3, SampledType
<1>5. Typed'
  BY <1>1, <1>2, <1>4 DEF CaptureInv, Typed, TypeOK, Identities, source, bundle
<1>6. Contents'
  BY <1>1, <1>2 DEF CaptureInv, Contents, source
<1>7. Copying' /\ Walking'
  BY <1>1, <1>2 DEF CaptureInv, Copying, Walking, NoCopy, Fetching, Detecting, HasCopy,
     Compared, Resampled, Accepted, Scanned, Sealed, Inventory
<1>8. Committed'
  <2> SUFFICES ASSUME origin = "git", ~restored, before.commit = HEAD
               PROVE  Committed'
    BY <1>2 DEF Committed
  <2>1. \A f \in Inventoried : AsCommitted(f) => f \in DOMAIN copy
    BY <1>1 DEF CaptureInv, Committed, HasCopy, Compared
  <2>2. ASSUME after'.commit = HEAD, after'.dirty = "clean"
        PROVE  /\ \A f \in DOMAIN copy :
                    Standing(f) /\ kind[f] # "unversioned"
                    => f \in DOMAIN commits[HEAD] /\ commits[HEAD][f] = copy[f]
               /\ Inventoried \cap DOMAIN commits[HEAD] \subseteq DOMAIN copy
    <3>1. HEAD # 0 /\ tree \in Trees /\ commits[HEAD] \in Trees
      BY HeadTree DEF CaptureInv, Typed
    <3>2. Inventory(Versioned(tree)) = Inventory(commits[HEAD])
      BY <1>4, <2>2, <3>1 DEF Status
    <3>3. \A f \in Inventoried :
            \/ f \in DOMAIN tree /\ kind[f] # "unversioned"
            \/ f \in DOMAIN commits[HEAD]
            => AsCommitted(f)
      <4>1. /\ Versioned(tree) \in Trees
            /\ DOMAIN Versioned(tree) = {f \in DOMAIN tree : kind[f] # "unversioned"}
            /\ \A g \in DOMAIN tree : kind[g] # "unversioned" => Versioned(tree)[g] = tree[g]
        BY <3>1, VersionedTree
      <4>2. /\ DOMAIN Inventory(Versioned(tree)) = Inventoried \cap DOMAIN Versioned(tree)
            /\ \A f \in Inventoried \cap DOMAIN Versioned(tree) :
                 Inventory(Versioned(tree))[f] = Versioned(tree)[f]
        BY <4>1, InventoryTree
      <4>3. /\ DOMAIN Inventory(commits[HEAD]) = Inventoried \cap DOMAIN commits[HEAD]
            /\ \A f \in Inventoried \cap DOMAIN commits[HEAD] :
                 Inventory(commits[HEAD])[f] = commits[HEAD][f]
        BY <3>1, InventoryTree
      <4>4. /\ Inventoried \cap DOMAIN Versioned(tree) = Inventoried \cap DOMAIN commits[HEAD]
            /\ \A f \in Inventoried \cap DOMAIN Versioned(tree) :
                 Versioned(tree)[f] = commits[HEAD][f]
        BY <3>2, <4>2, <4>3
      <4> QED
        BY <4>1, <4>4 DEF AsCommitted
    <3>4. DOMAIN copy \subseteq Inventoried
      BY DEF CaptureInv, Typed, TypeOK
    <3> QED
      BY <2>1, <3>3, <3>4 DEF Standing, AsCommitted
  <2> QED
    BY <1>1, <1>2, <2>1, <2>2 DEF Committed, AsCommitted, Standing
<1>9. Identified'
  BY <1>1, <1>2, <1>4 DEF CaptureInv, Identified, Fetching, Accepted, Scanned, Sealed
<1>10. Remoteness'
  BY <1>1, <1>2 DEF CaptureInv, Remoteness, Converted, source, Listed, Places, Sampling,
     HasCopy, Compared, Resampled, Accepted, Scanned, Sealed
<1> QED
  BY <1>5, <1>6, <1>7, <1>8, <1>9, <1>10 DEF CaptureInv

LEMMA ScanKeeps == ASSUME CaptureInv, Scan PROVE CaptureInv'
<1>1. /\ pc = "scan" /\ pc' = IF origin = "remote" THEN "attach" ELSE "finish"
      /\ recorded'.commit = before.commit /\ recorded'.dirty = MergedDirty
      /\ UNCHANGED <<source, before, reading, names, copy, manifest, listing, after, remote>>
  BY DEF Scan, Go, merge_source_identity, CaptureInv, Typed, Identities
<1>2. /\ HEAD' = HEAD /\ Inventoried' = Inventoried /\ seen' = seen /\ restored' = restored
      /\ tree' = tree /\ kind' = kind /\ commits' = commits /\ origin' = origin /\ before' = before
      /\ copy' = copy /\ pc' \in {"attach", "finish"} /\ MergedDirty' = MergedDirty
      /\ origin = "remote" => pc' = "attach"
  BY <1>1 DEF source, HEAD, Inventoried, MergedDirty
<1>3. Typed'
  <2>1. before.commit \in 0..HEAD /\ MergedDirty \in {"unknown", "clean", "dirty"}
    BY DEF CaptureInv, Typed, Identities, MergedDirty
  <2> QED
    BY <1>1, <1>2, <2>1 DEF CaptureInv, Typed, TypeOK, Identities, source
<1>4. Contents'
  BY <1>1, <1>2 DEF CaptureInv, Contents, source
<1>5. Copying' /\ Walking'
  BY <1>1, <1>2 DEF CaptureInv, Copying, Walking, NoCopy, Fetching, Detecting, HasCopy,
     Compared, Resampled, Accepted, Scanned, Sealed, Inventory
<1>6. Committed'
  BY <1>1, <1>2 DEF CaptureInv, Committed, AsCommitted, Standing, HasCopy, Compared, Resampled,
     Accepted, Scanned, Sealed
<1>7. Identified'
  BY <1>1, <1>2 DEF CaptureInv, Identified, Fetching, Resampled, Accepted, Scanned, Sealed
<1>8. Remoteness'
  BY <1>1, <1>2 DEF CaptureInv, Remoteness, Converted, source, Listed, Places, Sampling,
     HasCopy, Compared, Resampled, Accepted, Scanned, Sealed
<1> QED
  BY <1>3, <1>4, <1>5, <1>6, <1>7, <1>8 DEF CaptureInv

\* The checks of the capture and of a verification of its bundle.
LEMMA CheckKeeps ==
  ASSUME CaptureInv,
         \/ ReadRefused \/ CommitStable \/ Captured \/ FinishScan
         \/ Fetch \/ TreeInventory \/ ExactCheckout \/ VerifyAttached \/ Cleanup \/ Fails
  PROVE  CaptureInv'
<1>1. UNCHANGED <<source, Rest>>
  BY DEF ReadRefused, CommitStable, Captured, FinishScan, Fetch, TreeInventory,
     ExactCheckout, VerifyAttached, Cleanup, Fails, Rest
<1>2. \/ Refuse
      \/ pc = "fetch" /\ Go("inventory")
      \/ /\ pc = "inventory" /\ Go("checkout")
         /\ validate_tree_inventory(commits[requested])
      \/ pc = "exact" /\ Go("detect")
      \/ pc = "stable" /\ Go("head_after")
      \/ pc = "captured" /\ Go("scan") /\ before.commit = after.commit
      \/ pc = "attached" /\ Go("cleanup")
      \/ pc = "cleanup" /\ Go("finish")
      \/ pc = "finish" /\ Go("done")
  BY DEF ReadRefused, CommitStable, Captured, FinishScan, Fetch, TreeInventory,
     ExactCheckout, VerifyAttached, Cleanup, Fails
<1>3. CASE Refuse
  BY <1>1, <1>3, RefusedKeeps DEF Rest
<1>4. CASE /\ pc = "inventory" /\ Go("checkout")
           /\ validate_tree_inventory(commits[requested])
  BY <1>1, <1>4, QuietKeeps DEF Quiet
<1>5. CASE pc = "captured" /\ Go("scan") /\ before.commit = after.commit
  BY <1>1, <1>5, QuietKeeps DEF Quiet
<1> QED
  BY <1>1, <1>2, <1>3, <1>4, <1>5, QuietKeeps DEF Quiet

-----------------------------------------------------------------------------
(* A remote source. *)

LEMMA CheckoutKeeps == ASSUME CaptureInv, Checkout PROVE CaptureInv'
<1>1. /\ pc = "checkout" /\ pc' \in {"exact", "refused"} /\ origin = "remote"
      /\ requested = 1 /\ tree' = Converted(commits[1]) /\ tree' \in seen'
      /\ UNCHANGED <<origin, kind, commits, changes, requested, restored, before, reading, names,
                     copy, manifest, listing, after, bundle>>
  BY DEF Checkout, Go, Refuse, CaptureInv, Typed, Identified, Fetching
<1>2. HEAD' = HEAD /\ Inventoried' = Inventoried
  BY <1>1 DEF HEAD, Inventoried
<1>3. tree' \in Trees
  BY <1>1, HeadTree, ConvertedTree DEF CaptureInv
<1>4. Typed'
  BY <1>1, <1>2, <1>3 DEF CaptureInv, Typed, TypeOK, Identities, bundle
<1>5. Contents' /\ Committed'
  BY <1>1 DEF Contents, Committed
<1>6. Copying' /\ Walking'
  BY <1>1 DEF CaptureInv, Copying, Walking, NoCopy, Fetching, Detecting, HasCopy, Compared,
     Resampled, Accepted, Scanned, Sealed
<1>7. Identified'
  BY <1>1 DEF CaptureInv, Identified, Fetching, Resampled, Accepted, Scanned, Sealed
<1>8. Remoteness'
  BY <1>1, <1>2 DEF CaptureInv, Remoteness, Converted, Listed, Places, Detecting, Sampling,
     HasCopy, Compared, Resampled, Accepted, Scanned, Sealed
<1> QED
  BY <1>4, <1>5, <1>6, <1>7, <1>8 DEF CaptureInv

\* The files of a commit that a checkout rewrites in one way.
LEMMA RewrittenFiles ==
  ASSUME NEW t \in Trees, \A f \in DOMAIN t : t[f] = 0, NEW how \in Rewriting
  PROVE  /\ Rewritten(t, how) = {}
         /\ Rewritten(Converted(t), how) = {f \in DOMAIN t : kind[f] = how}
         /\ IsFiniteSet({f \in DOMAIN t : kind[f] = how})
<1>1. /\ DOMAIN Converted(t) = DOMAIN t
      /\ \A f \in DOMAIN t :
           Converted(t)[f] = IF kind[f] \in Rewriting THEN t[f] + 100 ELSE t[f]
  BY ConvertedTree
<1>2. IsFiniteSet({f \in DOMAIN t : kind[f] = how})
  <2>1. {f \in DOMAIN t : kind[f] = how} \subseteq Files
    BY TreeType
  <2> QED
    BY <2>1, CaptureAssumption, FS_Subset
<1> QED
  BY <1>1, <1>2 DEF Rewritten

\* A checkout has as many bytes as the tree of its commit when as many files grew as
\* shrank.
LEMMA SameBytesSameCounts ==
  ASSUME NEW t \in Trees, \A f \in DOMAIN t : t[f] = 0, Bytes(Converted(t)) = Bytes(t)
  PROVE  Cardinality({f \in DOMAIN t : kind[f] = "grown"})
           = Cardinality({f \in DOMAIN t : kind[f] = "shrunk"})
<1> DEFINE of(how) == {f \in DOMAIN t : kind[f] = how}
<1>1. IsFiniteSet(DOMAIN t) /\ DOMAIN Converted(t) = DOMAIN t
  BY TreeType, CaptureAssumption, FS_Subset, ConvertedTree
<1>2. ASSUME NEW how \in {"grown", "shrunk"}
      PROVE  /\ Rewritten(t, how) = {} /\ Rewritten(Converted(t), how) = of(how)
             /\ Cardinality(of(how)) \in Nat
  <2>1. /\ Rewritten(t, how) = {} /\ Rewritten(Converted(t), how) = of(how)
        /\ IsFiniteSet(of(how))
    <3>1. how \in Rewriting
      BY <1>2 DEF Rewriting
    <3> QED
      BY <3>1, RewrittenFiles
  <2> HIDE DEF of
  <2> QED
    BY <2>1, FS_CardinalityType
<1>3. Cardinality(DOMAIN t) \in Nat /\ Cardinality({}) = 0
  BY <1>1, FS_CardinalityType, FS_EmptySet
<1>4. /\ Bytes(t) = Cardinality(DOMAIN t) + 0 - 0
      /\ Bytes(Converted(t))
           = Cardinality(DOMAIN t) + Cardinality(of("grown")) - Cardinality(of("shrunk"))
  BY <1>1, <1>2, <1>3 DEF Bytes
<1> QED
  BY <1>2, <1>3, <1>4

LEMMA AttachKeeps == ASSUME CaptureInv, AttachRemoteSource PROVE CaptureInv'
<1>1. /\ pc = "attach" /\ requested = 1
      /\ Refuse \/ (pc' = "attached" /\ TreeMatches)
      /\ UNCHANGED <<source, before, reading, names, copy, manifest, listing, after, recorded>>
  BY DEF AttachRemoteSource, Go, CaptureInv, Typed
<1>2. /\ HEAD' = HEAD /\ Inventoried' = Inventoried /\ seen' = seen /\ restored' = restored
      /\ tree' = tree /\ kind' = kind /\ commits' = commits /\ origin' = origin /\ before' = before
      /\ copy' = copy /\ MergedDirty' = MergedDirty
  BY <1>1 DEF source, HEAD, Inventoried, MergedDirty
<1>3. ASSUME pc' = "attached"
      PROVE  Bytes(copy) = Bytes(commits[1])
  BY <1>1, <1>3 DEF CaptureInv, Copying, TreeMatches, Refuse, HasCopy, Compared, Resampled,
     Accepted, Scanned
<1>4. pc' \in {"attached", "refused"}
  BY <1>1 DEF Refuse
<1>5. Typed'
  BY <1>1, <1>2, <1>4 DEF CaptureInv, Typed, TypeOK, Identities, source
<1>6. Contents'
  BY <1>1, <1>2 DEF CaptureInv, Contents, source
<1>7. Copying' /\ Walking'
  BY <1>1, <1>2, <1>4 DEF CaptureInv, Copying, Walking, NoCopy, Fetching, Detecting, HasCopy,
     Compared, Resampled, Accepted, Scanned, Sealed, Inventory
<1>8. Committed'
  BY <1>1, <1>2, <1>4 DEF CaptureInv, Committed, AsCommitted, Standing, HasCopy, Compared,
     Resampled, Accepted, Scanned, Sealed
<1>9. Identified'
  BY <1>1, <1>2, <1>4 DEF CaptureInv, Identified, Fetching, Resampled, Accepted, Scanned,
     Sealed
<1>10. Remoteness'
  BY <1>1, <1>2, <1>3, <1>4 DEF CaptureInv, Remoteness, Bytes, Rewritten, Converted, source,
     Listed, Places, Detecting, Sampling, HasCopy, Compared, Resampled, Accepted, Scanned,
     Sealed
<1> QED
  BY <1>5, <1>6, <1>7, <1>8, <1>9, <1>10 DEF CaptureInv

-----------------------------------------------------------------------------
LEMMA StutterKeeps == ASSUME CaptureInv, UNCHANGED vars PROVE CaptureInv'
<1> USE DEF vars, bundle
<1>1. HEAD' = HEAD /\ Inventoried' = Inventoried /\ MergedDirty' = MergedDirty
  BY DEF HEAD, Inventoried, MergedDirty
<1>2. Typed' /\ Contents'
  BY <1>1 DEF CaptureInv, Typed, TypeOK, Identities, Contents
<1>3. Copying' /\ Walking'
  BY <1>1 DEF CaptureInv, Copying, Walking, Reopened, Standing, Inventory, Passed, Absent, Done
<1>4. Committed' /\ Identified' /\ Remoteness'
  BY <1>1 DEF CaptureInv, Committed, AsCommitted, Standing, Passed, Identified,
     Remoteness, Converted, Bytes, Rewritten
<1> QED
  BY <1>2, <1>3, <1>4 DEF CaptureInv

LEMMA StepInv == CaptureInv /\ [Next]_vars => CaptureInv'
<1> SUFFICES ASSUME CaptureInv, [Next]_vars PROVE CaptureInv'
  OBVIOUS
<1>1. CASE Owner
  BY <1>1, EditKeeps, DeleteKeeps, CommitKeeps, RevertKeeps DEF Owner
<1>2. CASE Capture
  BY <1>2, DetectKeeps, BeforeKeeps, OpenKeeps, EnterKeeps, LeaveKeeps, CopyFileKeeps,
     CopiedKeeps, ReopenKeeps, ListFileKeeps, CompareKeeps, HeadAfterKeeps, StatusAfterKeeps,
     ScanKeeps, CheckKeeps DEF Capture
<1>3. CASE Remote
  BY <1>3, CheckoutKeeps, AttachKeeps, CheckKeeps DEF Remote
<1>4. CASE Fails
  BY <1>4, CheckKeeps
<1> QED
  BY <1>1, <1>2, <1>3, <1>4, StutterKeeps DEF Next

LEMMA Invariant == Spec => []CaptureInv
BY InitInv, StepInv, PTL DEF Spec

-----------------------------------------------------------------------------
\* The variables of the capture keep their types.
THEOREM TypeCorrect == Spec => []TypeOK
<1>1. CaptureInv => TypeOK
  BY DEF CaptureInv, Typed
<1> QED
  BY <1>1, Invariant, PTL

\* What the scan runs on is what the source was as a whole at some moment of the
\* capture, however many files are copied one by one under its owner's hands:
\* the comparison of verify_source_copy_stable is enough.
THEOREM SnapshotCorrect == Spec => []CopyIsSnapshot
<1>1. CaptureInv => CopyIsSnapshot
  BY DEF CaptureInv, Copying, CopyIsSnapshot, Compared, Resampled, Accepted, Scanned, Sealed
<1> QED
  BY <1>1, Invariant, PTL

\* A finished remote scan has exactly the paths of the commit it was asked for; where
\* its bytes differ attributes rewrote them, and as many files grew as shrank.
THEOREM RemoteCorrect == Spec => []RemoteCopyIsCounted
<1>1. CaptureInv => RemoteCopyIsCounted
  <2> DEFINE t == commits[1]
             changed(how) == {f \in DOMAIN copy : copy[f] # t[f] /\ kind[f] = how}
  <2> SUFFICES ASSUME CaptureInv, pc = "done", origin = "remote"
               PROVE  /\ DOMAIN copy = DOMAIN t
                      /\ \A f \in DOMAIN copy : copy[f] # t[f] => kind[f] \in Rewriting
                      /\ Cardinality(changed("grown")) = Cardinality(changed("shrunk"))
    BY DEF RemoteCopyIsCounted, CaptureInv, Typed
  <2>1. /\ t \in Trees /\ \A f \in DOMAIN t : t[f] = 0
        /\ copy = Converted(t) /\ Bytes(copy) = Bytes(t)
    BY HeadTree DEF CaptureInv, Remoteness, Places, Sampling, HasCopy, Compared, Resampled,
       Accepted, Scanned, Sealed
  <2>2. /\ DOMAIN copy = DOMAIN t
        /\ \A f \in DOMAIN t : copy[f] = IF kind[f] \in Rewriting THEN t[f] + 100 ELSE t[f]
    BY <2>1, ConvertedTree
  <2>3. ASSUME NEW how \in {"grown", "shrunk"}
        PROVE  changed(how) = {f \in DOMAIN t : kind[f] = how}
    BY <2>1, <2>2 DEF Rewriting
  <2>4. Cardinality({f \in DOMAIN t : kind[f] = "grown"})
          = Cardinality({f \in DOMAIN t : kind[f] = "shrunk"})
    BY <2>1, SameBytesSameCounts
  <2> HIDE DEF t, changed
  <2>5. Cardinality(changed("grown")) = Cardinality(changed("shrunk"))
    BY <2>3, <2>4
  <2> QED
    BY <2>2, <2>5
<1> QED
  BY <1>1, Invariant, PTL

\* A local bundle whose bytes stand in the source is recorded as dirty when what git
\* versions of them is not the commit it names, HEAD unmoved.
THEOREM DirtyCorrect == Spec => []DirtyCopyIsMarked
<1>1. CaptureInv => DirtyCopyIsMarked
  <2> SUFFICES ASSUME CaptureInv, pc = "done", origin = "git", ~restored,
                      recorded.commit = HEAD, copy = Inventory(tree), recorded.dirty # "dirty"
               PROVE  Versioned(copy) = Inventory(commits[HEAD])
    BY DEF DirtyCopyIsMarked
  <2>1. /\ tree \in Trees /\ copy \in Trees /\ commits[HEAD] \in Trees /\ HEAD >= 1
        /\ before \in Identities /\ after \in Identities
    BY HeadTree DEF CaptureInv, Typed
  <2>2. /\ before.commit = HEAD /\ after.commit = HEAD /\ recorded.dirty = MergedDirty
    BY DEF CaptureInv, Identified, Accepted, Scanned, Sealed
  <2>3. after.dirty = "clean"
    <3>1. after.dirty # "unknown"
      BY <2>1, <2>2 DEF CaptureInv, Identified, Resampled, Accepted, Scanned, Sealed
    <3>2. after.dirty # "dirty"
      BY <2>2 DEF MergedDirty
    <3> QED
      BY <2>1, <3>1, <3>2 DEF Identities
  <2>4. /\ \A f \in DOMAIN copy :
             Standing(f) /\ kind[f] # "unversioned"
             => f \in DOMAIN commits[HEAD] /\ commits[HEAD][f] = copy[f]
        /\ Inventoried \cap DOMAIN commits[HEAD] \subseteq DOMAIN copy
    BY <2>2, <2>3 DEF CaptureInv, Committed, Resampled, Accepted, Scanned, Sealed
  <2>5. \A f \in DOMAIN copy : Standing(f) /\ f \in Inventoried
    BY <2>1, InventoryTree DEF Standing
  <2>6. \A f \in DOMAIN commits[HEAD] : kind[f] # "unversioned"
    BY DEF CaptureInv, Contents
  <2>7. /\ Versioned(copy) \in Trees
        /\ DOMAIN Versioned(copy) = {f \in DOMAIN copy : kind[f] # "unversioned"}
        /\ \A g \in DOMAIN copy : kind[g] # "unversioned" => Versioned(copy)[g] = copy[g]
    BY <2>1, VersionedTree
  <2>8. /\ DOMAIN Versioned(copy) = Inventoried \cap DOMAIN commits[HEAD]
        /\ \A f \in DOMAIN Versioned(copy) : Versioned(copy)[f] = commits[HEAD][f]
    BY <2>4, <2>5, <2>6, <2>7
  <2> QED
    BY <2>7, <2>8, IsInventory
<1> QED
  BY <1>1, Invariant, PTL
=============================================================================
