-------------------------- MODULE DependencyExperiment --------------------------
(***************************************************************************)
(* Exact dependency resolutions: how .tomorrowci-dependencies.json becomes  *)
(* a baseline set, a candidate set and the changes between them, and what a *)
(* probe of some of the changes has to install.                             *)
(*                                                                         *)
(* A vector or map of dependencies, or of changes, is a family: a function  *)
(* whose domain only tells its members apart.  Ecosystem and package        *)
(* manager are the experiment's throughout.  An artifact is a version, a    *)
(* source and the content declared for it.                                  *)
(***************************************************************************)
EXTENDS Naturals, FiniteSets, Functions

CONSTANTS
  Absent,       \* no dependency
  Refused,      \* an error in place of a value
  Sources,      \* the canonical workspace-relative paths
  WheelSources  \* those that end in .whl

Dependency(id, name, artifact) == [id |-> id, name |-> name, artifact |-> artifact]

NamesOf(family) == {family[i].name : i \in DOMAIN family}

Member(family, name) ==
  IF name \in NamesOf(family)
  THEN family[CHOOSE i \in DOMAIN family : family[i].name = name] ELSE Absent

Distinct(family) ==
  \A i, j \in DOMAIN family :
    i # j => family[i].id # family[j].id /\ family[i].name # family[j].name

DependencyOk(d) == d.artifact.source \in Sources

SetOk(family) == Distinct(family) /\ \A i \in DOMAIN family : DependencyOk(family[i])

Presence(change) ==
  CASE change.kind = "add"    -> change.before = Absent /\ change.after # Absent
    [] change.kind = "update" -> change.before # Absent /\ change.after # Absent
    [] change.kind = "remove" -> change.before # Absent /\ change.after = Absent

ChangeOk(change) ==
  /\ Presence(change)
  /\ \A d \in {change.before, change.after} \ {Absent} :
       DependencyOk(d) /\ d.name = change.name
  /\ change.kind = "update" => change.before # change.after

\* DependencyCandidateSet::validate: the changes are the whole difference.
CandidateSetOk(set) ==
  /\ SetOk(set.baseline) /\ SetOk(set.candidate)
  /\ DOMAIN set.changes # {} /\ Distinct(set.changes)
  /\ \A i \in DOMAIN set.changes : ChangeOk(set.changes[i])
  /\ \A name \in NamesOf(set.baseline) \cup NamesOf(set.candidate) :
       LET before == Member(set.baseline, name)
           after  == Member(set.candidate, name)
           change == Member(set.changes, name)
       IN  IF before = after THEN name \notin NamesOf(set.changes)
           ELSE /\ name \in NamesOf(set.changes)
                /\ change.before = before /\ change.after = after
  /\ NamesOf(set.changes) \subseteq NamesOf(set.baseline) \cup NamesOf(set.candidate)

-----------------------------------------------------------------------------
(* resolution_for_changes: the baseline with some of the changes applied.
   Names are distinct, so every change finds the baseline's member.         *)

\* Each change asked for is a declared one, and none is asked for twice.
Declared(set, changes) ==
  /\ \A i \in DOMAIN changes : \E j \in DOMAIN set.changes : set.changes[j] = changes[i]
  /\ \A i, j \in DOMAIN changes : i # j => changes[i].id # changes[j].id

Applies(change, baseline) ==
  IF change.kind = "add" THEN change.name \notin NamesOf(baseline)
  ELSE Member(baseline, change.name) = change.before

After(baseline, changes, name) ==
  IF name \in NamesOf(changes) THEN Member(changes, name).after ELSE Member(baseline, name)

Removed(changes) ==
  {changes[i].name : i \in {j \in DOMAIN changes : changes[j].kind = "remove"}}

\* The members by name.
Applied(baseline, changes) ==
  [name \in (NamesOf(baseline) \cup NamesOf(changes)) \ Removed(changes)
     |-> After(baseline, changes, name)]

resolution_for_changes(set, changes) ==
  IF /\ CandidateSetOk(set) /\ Declared(set, changes)
     /\ \A i \in DOMAIN changes : Applies(changes[i], set.baseline)
     /\ SetOk(Applied(set.baseline, changes))
  THEN Applied(set.baseline, changes) ELSE Refused

-----------------------------------------------------------------------------
(* The manifest: entries, each an update of one dependency from artifact
   before to after, or an unchanged one, whose two artifacts are the same. *)
Changing(manifest) == {i \in DOMAIN manifest.entries : ~manifest.entries[i].unchanged}

BaselineOf(manifest) ==
  [i \in DOMAIN manifest.entries |->
     LET e == manifest.entries[i] IN Dependency(e.id, e.name, e.before)]

CandidateOf(manifest) ==
  [i \in DOMAIN manifest.entries |->
     LET e == manifest.entries[i] IN Dependency(e.id, e.name, e.after)]

ChangesOf(manifest) ==
  [i \in Changing(manifest) |->
     [id |-> manifest.entries[i].id, name |-> manifest.entries[i].name, kind |-> "update",
      before |-> BaselineOf(manifest)[i], after |-> CandidateOf(manifest)[i]]]

CandidateSetOf(manifest) ==
  [baseline |-> BaselineOf(manifest), candidate |-> CandidateOf(manifest),
   changes |-> ChangesOf(manifest)]

\* What either schema asks of a manifest.  A wheel manifest has Python wheels,
\* canonical set names that no probe can have, and packages named by their id.
SchemaOk(manifest) ==
  IF manifest.schema = 1
  THEN \A i \in DOMAIN manifest.entries : ~manifest.entries[i].unchanged
  ELSE /\ manifest.ecosystem = "python" /\ manifest.set_ids_canonical
       /\ Cardinality(Changing(manifest)) <= 64
       /\ \A i \in DOMAIN manifest.entries :
            LET e == manifest.entries[i]
            IN  /\ {e.before.source, e.after.source} \subseteq WheelSources
                /\ e.id = e.name /\ e.name_normalized

ImageOk(manifest) == manifest.image_pinned

\* to_candidate_set
to_candidate_set(manifest) ==
  IF /\ manifest.schema \in {1, 2} /\ SchemaOk(manifest) /\ ImageOk(manifest)
     /\ CandidateSetOk(CandidateSetOf(manifest))
  THEN CandidateSetOf(manifest) ELSE Refused

\* probe_for_subset: a candidate set of its own, with the chosen changes.
probe_for_subset(manifest, chosen) ==
  LET full    == to_candidate_set(manifest)
      changes == Restrict(full.changes, chosen)
      probe   == [baseline |-> full.baseline,
                  candidate |-> resolution_for_changes(full, changes),
                  changes |-> changes]
  IN  IF /\ full # Refused /\ chosen \subseteq DOMAIN full.changes
         /\ resolution_for_changes(full, changes) # Refused
         /\ CandidateSetOk(probe)
      THEN probe ELSE Refused

-----------------------------------------------------------------------------
(* The artifacts: files gives the content of each file of the workspace.    *)
ArtifactsMatch(manifest, files) ==
  \A i \in DOMAIN manifest.entries :
    \A a \in {manifest.entries[i].before, manifest.entries[i].after} :
      a.source \in DOMAIN files /\ files[a.source] = a.content

\* validate_manifest: the experiment is about this project and its baseline.
ManifestOk(manifest, project) ==
  /\ manifest.schema \in {1, 2}
  /\ manifest.ecosystem = project.ecosystem /\ manifest.runtime = project.runtime
  /\ ImageOk(manifest) /\ Changing(manifest) # {}
  /\ Distinct(Restrict(manifest.entries, Changing(manifest)))

\* The probes an accepted experiment starts with, as sets of changes.
FirstProbes(manifest) ==
  IF manifest.schema = 2 THEN {Changing(manifest)}
  ELSE (SUBSET Changing(manifest)) \ {{}}

load_dependency_experiment(manifest, project, files) ==
  IF /\ ManifestOk(manifest, project)
     /\ to_candidate_set(manifest) # Refused
     /\ ArtifactsMatch(manifest, files)
     /\ Cardinality(Changing(manifest)) <= IF manifest.schema = 1 THEN 8 ELSE 64
     /\ \A chosen \in FirstProbes(manifest) : probe_for_subset(manifest, chosen) # Refused
  THEN [baseline |-> BaselineOf(manifest), probes |-> FirstProbes(manifest)]
  ELSE Refused

\* verify_dependency_semantics: what the verifier asks of the experiment and the
\* workspace of a bundle, and of the candidate that claims to be a probe.
experiment_verifies(manifest, project, files) ==
  /\ manifest.ecosystem = project.ecosystem /\ manifest.runtime = project.runtime
  /\ to_candidate_set(manifest) # Refused
  /\ ArtifactsMatch(manifest, files)

candidate_verifies(manifest, chosen, candidate) ==
  LET full == to_candidate_set(manifest)
  IN  /\ candidate.baseline = full.baseline
      /\ candidate.changes = Restrict(full.changes, chosen)
      /\ candidate.candidate = resolution_for_changes(full, candidate.changes)

=============================================================================
