-------------------------- MODULE EvidenceOps_proofs --------------------------
(***************************************************************************)
(* Proofs about EvidenceOps, for any number of processes, recorded results *)
(* and faults: the lock file excludes, an attempt that was reported is     *)
(* never lost or changed, and what a command answers is what it left in    *)
(* the bundle.  The last part is about a bundle whose scan has finished.   *)
(***************************************************************************)
EXTENDS EvidenceOps, FiniteSetTheorems, TLAPS

BundleFields == {"original", "report", "attempts", "mirror", "staging", "claims",
                 "earlier_sums", "scenario_sums", "later_sums", "root_sums"}

\* The shapes the proofs need of the variables.
Shape ==
  /\ DOMAIN bundle = BundleFields
  /\ IsFiniteSet(DOMAIN bundle.attempts)
  /\ pc \in [Procs -> Phases]
  /\ job \in [Procs -> {"replay", "report", "read"}]
  /\ number \in [Procs -> Nat]
  /\ DOMAIN record = Procs
  /\ todo \in [Procs -> Seq(Files)]

\* Where an operation has an attempt of its own or may yet undo.
Working == {"execute", "snapshot", "commit", "drop", "mirror", "report", "check",
            "earlier_sums", "scenario_sums", "later_sums", "root_sums", "verify", "undo"}

ReplayOnly == {"prepare", "reserve", "execute", "commit", "drop", "mirror"}
ReportOnly == {"report", "check"}

\* The phases of a replay between its reservation and its outcome, and those of
\* them in which its attempt is committed.
Reserved  == {"execute", "snapshot", "commit", "mirror", "earlier_sums", "scenario_sums",
              "later_sums", "root_sums", "verify"}
Committed == {"mirror", "earlier_sums", "scenario_sums", "later_sums", "root_sums", "verify"}

\* The attempt an operation works on is its own and nobody was told of it yet.
Own(p) ==
  /\ pc[p] \in ReplayOnly => job[p] = "replay"
  /\ pc[p] \in ReportOnly => job[p] = "report"
  /\ pc[p] \in Working => job[p] # "read" /\ number[p] \notin DOMAIN acked
  /\ job[p] # "replay" => number[p] = 0
  /\ job[p] = "replay" /\ pc[p] \in Reserved => number[p] # 0
  /\ job[p] = "replay" /\ pc[p] \in Committed =>
        /\ number[p] \in DOMAIN bundle.attempts
        /\ bundle.attempts[number[p]] = record[p]

Ownership == \A p \in Procs : Own(p)

LogInv == Shape /\ LockExcludes /\ Ownership /\ 0 \notin DOMAIN acked /\ AckedSurvive

-----------------------------------------------------------------------------
\* The invariant holds at first: nothing is acknowledged, nobody holds the lock.
LEMMA LogInit == Init => LogInv
<1> SUFFICES ASSUME Init PROVE LogInv
  OBVIOUS
<1>1. Shape
  <2>1. DOMAIN bundle = BundleFields
    BY DEF Init, Sealed, BundleFields
  <2>2. todo \in [Procs -> Seq(Files)]
    BY DEF Init
  <2>3. bundle.attempts = NoAttempts
    BY DEF Init, Sealed
  <2>4. IsFiniteSet(DOMAIN bundle.attempts)
    BY <2>3, FS_EmptySet DEF NoAttempts
  <2>. QED
    BY <2>1, <2>2, <2>4 DEF Init, Shape, Phases, Inside
<1>2. LockExcludes
  BY DEF Init, LockExcludes, Inside
<1>3. DOMAIN acked = {}
  BY DEF Init, NoAttempts
<1>4. Ownership
  BY DEF Init, Ownership, Own, ReplayOnly, ReportOnly, Working, Reserved, Committed
<1>. QED
  BY <1>1, <1>2, <1>3, <1>4 DEF LogInv, AckedSurvive

\* A step of a process that holds the lock: nobody else is inside, so only its
\* own part of the invariant can be disturbed.
LEMMA StepInside ==
  ASSUME LogInv, NEW p \in Procs, pc[p] \in Inside, Shape', job' = job,
         \A q \in Procs \ {p} : pc'[q] = pc[q] /\ number'[q] = number[q],
         pc'[p] \in Inside => lock' = lock,
         Own(p)', 0 \notin DOMAIN acked', AckedSurvive'
  PROVE  LogInv'
<1>1. lock = p
  BY DEF LogInv, LockExcludes
<1>2. \A q \in Procs \ {p} : pc'[q] \notin Inside
  BY <1>1 DEF LogInv, LockExcludes
<1>3. LockExcludes'
  BY <1>1, <1>2 DEF LockExcludes
<1>4. ASSUME NEW q \in Procs PROVE Own(q)'
  <2>1. CASE q = p
    BY <2>1
  <2>2. CASE q # p
    <3>1. pc'[q] \notin ReplayOnly \cup ReportOnly \cup Working \cup Reserved \cup Committed
      BY <1>2, <2>2 DEF Inside, ReplayOnly, ReportOnly, Working, Reserved, Committed
    <3>. QED
      BY <2>2, <3>1 DEF LogInv, Ownership, Own
  <2>. QED
    BY <2>1, <2>2
<1>. QED
  BY <1>3, <1>4 DEF LogInv, Ownership

\* A step to a phase without the lock that changes nothing else.
LEMMA StepOutside ==
  ASSUME LogInv, NEW p \in Procs, NEW phase \in Phases \ Inside,
         pc' = [pc EXCEPT ![p] = phase],
         UNCHANGED <<bundle, lock, job, number, record, todo, acked>>
  PROVE  LogInv'
<1>1. Shape'
  BY DEF LogInv, Shape
<1>2. LockExcludes'
  BY DEF LogInv, LockExcludes, Shape
<1>3. ASSUME NEW q \in Procs PROVE Own(q)'
  <2>1. CASE q = p
    <3>1. pc'[q] \notin ReplayOnly \cup ReportOnly \cup Working \cup Reserved \cup Committed
      BY <2>1 DEF LogInv, Shape, Inside, ReplayOnly, ReportOnly, Working, Reserved, Committed
    <3>. QED
      BY <3>1 DEF LogInv, Ownership, Own
  <2>2. CASE q # p
    BY <2>2 DEF LogInv, Ownership, Own, Shape
  <2>. QED
    BY <2>1, <2>2
<1>. QED
  BY <1>1, <1>2, <1>3 DEF LogInv, Ownership, AckedSurvive

\* A step of a process that holds the lock to another phase, which leaves the
\* attempts and the locals alone: what it does, and where it may go.
Frame(p, phase) ==
  /\ pc' = [pc EXCEPT ![p] = phase]
  /\ DOMAIN bundle' = BundleFields /\ bundle'.attempts = bundle.attempts
  /\ todo' \in [Procs -> Seq(Files)]
  /\ phase \in Inside => lock' = lock
  /\ UNCHANGED <<job, number, record, acked>>

Allowed(p, phase) ==
  /\ pc[p] \in Inside /\ phase \in Phases
  /\ phase \in ReplayOnly => job[p] = "replay"
  /\ phase \in ReportOnly => job[p] = "report"
  /\ phase \in Working => pc[p] \in Working \/ (job[p] = "report" /\ phase = "snapshot")
  /\ phase \in Reserved /\ job[p] = "replay" => pc[p] \in Reserved
  /\ phase \in Committed /\ job[p] = "replay" => pc[p] \in Committed

LEMMA StepPhase ==
  ASSUME LogInv, NEW p \in Procs, NEW phase, Frame(p, phase), Allowed(p, phase)
  PROVE  LogInv'
<1>1. Shape'
  BY DEF LogInv, Shape, Frame, Allowed
<1>2. pc'[p] = phase /\ \A q \in Procs \ {p} : pc'[q] = pc[q] /\ number'[q] = number[q]
  BY DEF LogInv, Shape, Frame
<1>3. Own(p)
  BY DEF LogInv, Ownership
<1>4. Own(p)'
  BY <1>2, <1>3 DEF Own, LogInv, Frame, Allowed
<1>5. AckedSurvive'
  BY DEF LogInv, AckedSurvive, Frame
<1>6. pc[p] \in Inside /\ job' = job /\ 0 \notin DOMAIN acked'
  BY DEF LogInv, Frame, Allowed
<1>7. pc'[p] \in Inside => lock' = lock
  BY <1>2 DEF Frame
<1>. QED
  BY <1>1, <1>2, <1>4, <1>5, <1>6, <1>7, StepInside

\* A failure inside a transaction: from here on only the undo is left.
LEMMA StepFail ==
  ASSUME LogInv, NEW p \in Procs, Fail(p), pc[p] \in Working,
         DOMAIN bundle' = BundleFields, bundle'.attempts = bundle.attempts,
         UNCHANGED <<lock, job, number, record, acked>>
  PROVE  LogInv'
<1>0. Shape /\ Own(p)
  BY DEF LogInv, Ownership
<1>1. UndoOrder[job[p]] \in Seq(Files)
  <2>1. /\ <<"attempts", "mirror", "scenario_sums", "root_sums">> \in Seq(Files)
        /\ <<"report", "root_sums", "earlier_sums", "scenario_sums", "later_sums">>
              \in Seq(Files)
    BY DEF Files
  <2>2. job[p] \in {"replay", "report"}
    BY <1>0 DEF Own, Shape
  <2>. QED
    BY <2>1, <2>2, UndoOrder["replay"] \in Seq(Files), UndoOrder["report"] \in Seq(Files)
       DEF UndoOrder
<1>2. Frame(p, "undo")
  BY <1>0, <1>1 DEF Fail, Move, Frame, Shape
<1>3. Allowed(p, "undo")
  BY <1>0 DEF Allowed, Own, Inside, Phases, ReplayOnly, ReportOnly, Working, Reserved,
     Committed
<1>. QED
  BY <1>2, <1>3, StepPhase

\* Every step, of an operation, a fault or the scan, keeps the invariant.
LEMMA LogStep == LogInv /\ [Next]_vars => LogInv'
<1> SUFFICES ASSUME LogInv, [Next]_vars PROVE LogInv'
  OBVIOUS
<1>0. Shape /\ \A p \in Procs : Own(p)
  BY DEF LogInv, Ownership
<1>1. ASSUME NEW p \in Procs, VerifyFirst(p) PROVE LogInv'
  <2>1. CASE verify_run_root(bundle)
    <3>a. "lock" \in Phases \ Inside
      BY DEF Phases, Inside
    <3>. QED
      BY <1>1, <2>1, <3>a, StepOutside DEF VerifyFirst, Move
  <2>2. CASE ~(verify_run_root(bundle))
    <3>a. "ended" \in Phases \ Inside
      BY DEF Phases, Inside
    <3>. QED
      BY <1>1, <2>2, <3>a, StepOutside DEF VerifyFirst, Move
  <2>. QED
    BY <2>1, <2>2
<1>2. ASSUME NEW p \in Procs, Acquire(p) PROVE LogInv'
  <2>1. CASE lock = None
    <3>a. lock' = p /\ pc' = [pc EXCEPT ![p] = "locked"]
          /\ UNCHANGED <<bundle, job, number, record, todo, acked>>
      BY <1>2, <2>1 DEF Acquire, Move
    <3>b. \A q \in Procs : pc[q] \notin Inside
      BY <2>1, OpsAssumption DEF LogInv, LockExcludes
    <3>c. Shape' /\ LockExcludes'
      BY <1>0, <3>a, <3>b DEF Shape, LockExcludes, Phases, Inside
    <3>d. ASSUME NEW q \in Procs PROVE Own(q)'
      BY <1>0, <3>a DEF Shape, Own, Inside, Phases, ReplayOnly, ReportOnly, Working,
         Reserved, Committed
    <3>. QED
      BY <3>a, <3>c, <3>d DEF LogInv, Ownership, AckedSurvive
  <2>2. CASE ~(lock = None)
    <3>a. "ended" \in Phases \ Inside
      BY DEF Phases, Inside
    <3>. QED
      BY <1>2, <2>2, <3>a, StepOutside DEF Acquire, Move
  <2>. QED
    BY <2>1, <2>2
<1>3. ASSUME NEW p \in Procs, VerifyLocked(p) PROVE LogInv'
  <2>1. CASE verify_run_root(bundle) /\ job[p] = "replay"
    <3>a. Frame(p, "prepare")
      BY <1>0, <1>3, <2>1 DEF VerifyLocked, Frame, Move, Shape, Inside, BundleFields,
         AfterLoad
    <3>b. Allowed(p, "prepare")
      BY <1>0, <1>3, <2>1 DEF VerifyLocked, Allowed, Own, Inside, Phases, ReplayOnly,
         ReportOnly, Working, Reserved, Committed
    <3>. QED
      BY <3>a, <3>b, StepPhase
  <2>2. CASE verify_run_root(bundle) /\ job[p] = "report"
    <3>a. Frame(p, "snapshot")
      BY <1>0, <1>3, <2>2 DEF VerifyLocked, Frame, Move, Shape, Inside, BundleFields,
         AfterLoad
    <3>b. Allowed(p, "snapshot")
      BY <1>0, <1>3, <2>2 DEF VerifyLocked, Allowed, Own, Inside, Phases, ReplayOnly,
         ReportOnly, Working, Reserved, Committed
    <3>. QED
      BY <3>a, <3>b, StepPhase
  <2>3. CASE verify_run_root(bundle) /\ job[p] = "read"
    <3>a. Frame(p, "release")
      BY <1>0, <1>3, <2>3 DEF VerifyLocked, Frame, Move, Shape, Inside, BundleFields,
         AfterLoad
    <3>b. Allowed(p, "release")
      BY <1>0, <1>3, <2>3 DEF VerifyLocked, Allowed, Own, Inside, Phases, ReplayOnly,
         ReportOnly, Working, Reserved, Committed
    <3>. QED
      BY <3>a, <3>b, StepPhase
  <2>4. CASE ~verify_run_root(bundle)
    <3>a. Frame(p, "release")
      BY <1>0, <1>3, <2>4 DEF VerifyLocked, Frame, Move, Shape, Inside, BundleFields
    <3>b. Allowed(p, "release")
      BY <1>0, <1>3, <2>4 DEF VerifyLocked, Allowed, Own, Inside, Phases, ReplayOnly,
         ReportOnly, Working, Reserved, Committed
    <3>. QED
      BY <3>a, <3>b, StepPhase
  <2>. QED
    BY <1>0, <2>1, <2>2, <2>3, <2>4 DEF Shape
<1>4. ASSUME NEW p \in Procs, Refuse(p) PROVE LogInv'
  <2>a. Frame(p, "release")
    BY <1>0, <1>4 DEF Refuse, Frame, Move, Shape, Inside, BundleFields
  <2>b. Allowed(p, "release")
    BY <1>0, <1>4 DEF Refuse, Allowed, Own, Inside, Phases, ReplayOnly, ReportOnly,
       Working, Reserved, Committed
  <2>. QED
    BY <2>a, <2>b, StepPhase
<1>5. ASSUME NEW p \in Procs, Release(p) PROVE LogInv'
  <2>a. Frame(p, "ended")
    BY <1>0, <1>5 DEF Release, Frame, Move, Shape, Inside, BundleFields
  <2>b. Allowed(p, "ended")
    BY <1>0, <1>5 DEF Release, Allowed, Own, Inside, Phases, ReplayOnly, ReportOnly,
       Working, Reserved, Committed
  <2>. QED
    BY <2>a, <2>b, StepPhase
<1>6. ASSUME NEW p \in Procs, Prepare(p) PROVE LogInv'
  <2>1. CASE verify_run_root(bundle)
    <3>a. Frame(p, "reserve")
      BY <1>0, <1>6, <2>1 DEF Prepare, Frame, Move, Shape, Inside, BundleFields
    <3>b. Allowed(p, "reserve")
      BY <1>0, <1>6, <2>1 DEF Prepare, Allowed, Own, Inside, Phases, ReplayOnly,
         ReportOnly, Working, Reserved, Committed
    <3>. QED
      BY <3>a, <3>b, StepPhase
  <2>2. CASE ~(verify_run_root(bundle))
    <3>a. Frame(p, "release")
      BY <1>0, <1>6, <2>2 DEF Prepare, Frame, Move, Shape, Inside, BundleFields
    <3>b. Allowed(p, "release")
      BY <1>0, <1>6, <2>2 DEF Prepare, Allowed, Own, Inside, Phases, ReplayOnly,
         ReportOnly, Working, Reserved, Committed
    <3>. QED
      BY <3>a, <3>b, StepPhase
  <2>. QED
    BY <2>1, <2>2
<1>7. ASSUME NEW p \in Procs, Reserve(p) PROVE LogInv'
  <2>1. CASE bundle.staging = {} /\ Contiguous(bundle)
    <3>a. pc'[p] = "execute" /\ job' = job /\ lock' = lock /\ pc[p] \in Inside
          /\ \A q \in Procs \ {p} : pc'[q] = pc[q] /\ number'[q] = number[q]
      BY <1>0, <1>7, <2>1 DEF Reserve, Move, Shape, Inside
    <3>0. Cardinality(DOMAIN bundle.attempts) \in Nat
      BY <1>0, FS_CardinalityType DEF Shape
    <3>1. /\ DOMAIN bundle.attempts = 1..Cardinality(DOMAIN bundle.attempts)
          /\ number' = [number EXCEPT ![p] = Cardinality(DOMAIN bundle.attempts) + 1]
          /\ bundle'.attempts = bundle.attempts /\ DOMAIN bundle' = BundleFields
          /\ acked' = acked
      BY <1>0, <1>7, <2>1 DEF Reserve, inspect_replay_attempts, Shape, Contiguous,
         BundleFields
    <3>b. Shape'
      <4>1. number' \in [Procs -> Nat]
        BY <1>0, <3>0, <3>1 DEF Shape
      <4>. QED
        BY <1>0, <1>7, <2>1, <3>1, <4>1 DEF Reserve, Move, Shape, Phases, Inside
    <3>2. number'[p] \notin DOMAIN bundle.attempts /\ number'[p] # 0
      BY <1>0, <3>0, <3>1 DEF Shape
    <3>c. Own(p)'
      BY <1>0, <1>7, <3>a, <3>1, <3>2 DEF Reserve, LogInv, AckedSurvive, Own, Inside,
         Phases, ReplayOnly, ReportOnly, Working, Reserved, Committed
    <3>d. 0 \notin DOMAIN acked' /\ AckedSurvive'
      BY <3>1 DEF LogInv, AckedSurvive
    <3>. QED
      BY <3>a, <3>b, <3>c, <3>d, StepInside
  <2>2. CASE ~(bundle.staging = {} /\ Contiguous(bundle))
    <3>a. Frame(p, "release")
      BY <1>0, <1>7, <2>2 DEF Reserve, Frame, Move, Shape, Inside, BundleFields
    <3>b. Allowed(p, "release")
      BY <1>0, <1>7, <2>2 DEF Reserve, Allowed, Own, Inside, Phases, ReplayOnly,
         ReportOnly, Working, Reserved, Committed
    <3>. QED
      BY <3>a, <3>b, StepPhase
  <2>. QED
    BY <2>1, <2>2
<1>8. ASSUME NEW p \in Procs, Execute(p) PROVE LogInv'
  <2>a. pc'[p] = "snapshot" /\ job' = job /\ lock' = lock /\ pc[p] \in Inside
        /\ \A q \in Procs \ {p} : pc'[q] = pc[q] /\ number'[q] = number[q]
    BY <1>0, <1>8 DEF Execute, Move, Shape, Inside
  <2>b. Shape'
    BY <1>0, <1>8 DEF Execute, Move, Shape, Phases, Inside, BundleFields
  <2>c. Own(p)'
    BY <1>0, <1>8, <2>a DEF Execute, Own, Inside, Phases, ReplayOnly, ReportOnly,
       Working, Reserved, Committed
  <2>d. 0 \notin DOMAIN acked' /\ AckedSurvive'
    BY <1>8 DEF Execute, LogInv, AckedSurvive
  <2>. QED
    BY <2>a, <2>b, <2>c, <2>d, StepInside
<1>9. ASSUME NEW p \in Procs, Snapshot(p) PROVE LogInv'
  <2>1. CASE job[p] = "replay"
    <3>a. Frame(p, "commit")
      BY <1>0, <1>9, <2>1 DEF Snapshot, Frame, Move, Shape, Inside, BundleFields,
         AfterSnapshot
    <3>b. Allowed(p, "commit")
      BY <1>0, <1>9, <2>1 DEF Snapshot, Allowed, Own, Inside, Phases, ReplayOnly,
         ReportOnly, Working, Reserved, Committed
    <3>. QED
      BY <3>a, <3>b, StepPhase
  <2>2. CASE job[p] = "report"
    <3>a. Frame(p, "report")
      BY <1>0, <1>9, <2>2 DEF Snapshot, Frame, Move, Shape, Inside, BundleFields,
         AfterSnapshot
    <3>b. Allowed(p, "report")
      BY <1>0, <1>9, <2>2 DEF Snapshot, Allowed, Own, Inside, Phases, ReplayOnly,
         ReportOnly, Working, Reserved, Committed
    <3>. QED
      BY <3>a, <3>b, StepPhase
  <2>. QED
    BY <1>0, <1>9, <2>1, <2>2 DEF Snapshot, Shape, Own, Working
<1>10. ASSUME NEW p \in Procs, Commit(p) PROVE LogInv'
  <2>1. CASE number[p] \in DOMAIN bundle.attempts
    <3>a. Frame(p, "drop")
      BY <1>0, <1>10, <2>1 DEF Commit, Frame, Move, Shape, Inside, BundleFields
    <3>b. Allowed(p, "drop")
      BY <1>0, <1>10, <2>1 DEF Commit, Allowed, Own, Inside, Phases, ReplayOnly,
         ReportOnly, Working, Reserved, Committed
    <3>. QED
      BY <3>a, <3>b, StepPhase
  <2>2. CASE ~(number[p] \in DOMAIN bundle.attempts)
    <3>a. pc'[p] = "mirror" /\ job' = job /\ lock' = lock /\ pc[p] \in Inside
          /\ \A q \in Procs \ {p} : pc'[q] = pc[q] /\ number'[q] = number[q]
      BY <1>0, <1>10, <2>2 DEF Commit, Move, Shape, Inside
    <3>1. bundle'.attempts = With(bundle.attempts, number[p], record[p])
          /\ UNCHANGED <<number, record, acked>>
      BY <1>0, <1>10, <2>2 DEF Commit, Shape, BundleFields
    <3>2. IsFiniteSet(DOMAIN bundle'.attempts)
      <4>1. DOMAIN bundle'.attempts = DOMAIN bundle.attempts \cup {number[p]}
        BY <3>1 DEF With
      <4>2. IsFiniteSet(DOMAIN bundle.attempts)
        BY <1>0 DEF Shape
      <4>. QED
        BY <4>1, <4>2, FS_AddElement
    <3>b. Shape'
      BY <1>0, <1>10, <2>2, <3>2 DEF Commit, Move, Shape, Phases, Inside, BundleFields
    <3>c. Own(p)'
      BY <1>0, <1>10, <3>a, <3>1 DEF Commit, With, Own, Inside, Phases, ReplayOnly,
         ReportOnly, Working, Reserved, Committed
    <3>d. 0 \notin DOMAIN acked' /\ AckedSurvive'
      BY <2>2, <3>1 DEF LogInv, AckedSurvive, With
    <3>. QED
      BY <3>a, <3>b, <3>c, <3>d, StepInside
  <2>. QED
    BY <2>1, <2>2
<1>11. ASSUME NEW p \in Procs, DropStaging(p) PROVE LogInv'
  <2>a. Frame(p, "release")
    BY <1>0, <1>11 DEF DropStaging, Frame, Move, Shape, Inside, BundleFields
  <2>b. Allowed(p, "release")
    BY <1>0, <1>11 DEF DropStaging, Allowed, Own, Inside, Phases, ReplayOnly,
       ReportOnly, Working, Reserved, Committed
  <2>. QED
    BY <2>a, <2>b, StepPhase
<1>12. ASSUME NEW p \in Procs, WriteMirror(p) PROVE LogInv'
  <2>a. Frame(p, "earlier_sums")
    BY <1>0, <1>12 DEF WriteMirror, Frame, Move, Shape, Inside, BundleFields
  <2>b. Allowed(p, "earlier_sums")
    BY <1>0, <1>12 DEF WriteMirror, Allowed, Own, Inside, Phases, ReplayOnly,
       ReportOnly, Working, Reserved, Committed
  <2>. QED
    BY <2>a, <2>b, StepPhase
<1>13. ASSUME NEW p \in Procs, WriteReport(p) PROVE LogInv'
  <2>a. Frame(p, "check")
    BY <1>0, <1>13 DEF WriteReport, Frame, Move, Shape, Inside, BundleFields
  <2>b. Allowed(p, "check")
    BY <1>0, <1>13 DEF WriteReport, Allowed, Own, Inside, Phases, ReplayOnly,
       ReportOnly, Working, Reserved, Committed
  <2>. QED
    BY <2>a, <2>b, StepPhase
<1>14. ASSUME NEW p \in Procs, CheckReport(p) PROVE LogInv'
  <2>1. CASE verify_only_report_changed(bundle)
    <3>a. Frame(p, "earlier_sums")
      BY <1>0, <1>14, <2>1 DEF CheckReport, Frame, Move, Shape, Inside, BundleFields
    <3>b. Allowed(p, "earlier_sums")
      BY <1>0, <1>14, <2>1 DEF CheckReport, Allowed, Own, Inside, Phases, ReplayOnly,
         ReportOnly, Working, Reserved, Committed
    <3>. QED
      BY <3>a, <3>b, StepPhase
  <2>2. CASE ~(verify_only_report_changed(bundle))
    <3>1. Fail(p) /\ DOMAIN bundle' = BundleFields /\ bundle'.attempts = bundle.attempts
          /\ UNCHANGED <<lock, job, number, record, acked>> /\ pc[p] \in Working
      BY <1>0, <1>14, <2>2 DEF CheckReport, Shape, BundleFields, Working
    <3>. QED
      BY <3>1, StepFail
  <2>. QED
    BY <2>1, <2>2
<1>15. ASSUME NEW p \in Procs, SumScenario(p) PROVE LogInv'
  <2>1. CASE bundle.staging = {}
    <3>a. Frame(p, "later_sums")
      BY <1>0, <1>15, <2>1 DEF SumScenario, Frame, Move, Shape, Inside, BundleFields
    <3>b. Allowed(p, "later_sums")
      BY <1>0, <1>15, <2>1 DEF SumScenario, Allowed, Own, Inside, Phases, ReplayOnly,
         ReportOnly, Working, Reserved, Committed
    <3>. QED
      BY <3>a, <3>b, StepPhase
  <2>2. CASE ~(bundle.staging = {})
    <3>1. Fail(p) /\ DOMAIN bundle' = BundleFields /\ bundle'.attempts = bundle.attempts
          /\ UNCHANGED <<lock, job, number, record, acked>> /\ pc[p] \in Working
      BY <1>0, <1>15, <2>2 DEF SumScenario, Shape, BundleFields, Working
    <3>. QED
      BY <3>1, StepFail
  <2>. QED
    BY <2>1, <2>2
<1>30. ASSUME NEW p \in Procs, SumOther(p) PROVE LogInv'
  <2>1. CASE pc[p] = "earlier_sums"
    <3>a. Frame(p, "scenario_sums")
      BY <1>0, <1>30, <2>1 DEF SumOther, OtherSums, AfterOther, Frame, Move, Shape, Inside,
         BundleFields
    <3>b. Allowed(p, "scenario_sums")
      BY <1>0, <2>1 DEF Allowed, Own, Inside, Phases, ReplayOnly, ReportOnly, Working,
         Reserved, Committed
    <3>. QED
      BY <3>a, <3>b, StepPhase
  <2>2. CASE pc[p] = "later_sums"
    <3>a. Frame(p, "root_sums")
      BY <1>0, <1>30, <2>2 DEF SumOther, OtherSums, AfterOther, Frame, Move, Shape, Inside,
         BundleFields
    <3>b. Allowed(p, "root_sums")
      BY <1>0, <2>2 DEF Allowed, Own, Inside, Phases, ReplayOnly, ReportOnly, Working,
         Reserved, Committed
    <3>. QED
      BY <3>a, <3>b, StepPhase
  <2>. QED
    BY <1>30, <2>1, <2>2 DEF SumOther, OtherSums
<1>16. ASSUME NEW p \in Procs, SumRun(p) PROVE LogInv'
  <2>a. Frame(p, "verify")
    BY <1>0, <1>16 DEF SumRun, Frame, Move, Shape, Inside, BundleFields
  <2>b. Allowed(p, "verify")
    BY <1>0, <1>16 DEF SumRun, Allowed, Own, Inside, Phases, ReplayOnly, ReportOnly,
       Working, Reserved, Committed
  <2>. QED
    BY <2>a, <2>b, StepPhase
<1>17. ASSUME NEW p \in Procs, PostVerify(p) PROVE LogInv'
  <2>1. CASE verify_run_root(bundle)
    <3>a. pc'[p] = "release" /\ job' = job /\ lock' = lock /\ pc[p] \in Inside
          /\ \A q \in Procs \ {p} : pc'[q] = pc[q] /\ number'[q] = number[q]
      BY <1>0, <1>17, <2>1 DEF PostVerify, Move, Shape, Inside
    <3>b. Shape'
      BY <1>0, <1>17, <2>1 DEF PostVerify, Move, Shape, Phases, Inside, BundleFields
    <3>c. Own(p)'
      BY <1>0, <1>17, <2>1, <3>a DEF PostVerify, Own, Inside, Phases, ReplayOnly,
         ReportOnly, Working, Reserved, Committed
    <3>1. job[p] = "replay" => 0 \notin DOMAIN acked' /\ AckedSurvive'
      <4> SUFFICES ASSUME job[p] = "replay" PROVE 0 \notin DOMAIN acked' /\ AckedSurvive'
        OBVIOUS
      <4>1. acked' = With(acked, number[p], record[p]) /\ bundle' = bundle
        BY <1>17, <2>1 DEF PostVerify
      <4>2. /\ number[p] # 0 /\ number[p] \in DOMAIN bundle.attempts
            /\ bundle.attempts[number[p]] = record[p]
        BY <1>0, <1>17 DEF PostVerify, Own, Reserved, Committed
      <4>. QED
        BY <4>1, <4>2 DEF LogInv, AckedSurvive, With
    <3>2. job[p] # "replay" => 0 \notin DOMAIN acked' /\ AckedSurvive'
      BY <1>17, <2>1 DEF PostVerify, LogInv, AckedSurvive
    <3>d. 0 \notin DOMAIN acked' /\ AckedSurvive'
      BY <3>1, <3>2
    <3>. QED
      BY <3>a, <3>b, <3>c, <3>d, StepInside
  <2>2. CASE ~(verify_run_root(bundle))
    <3>1. Fail(p) /\ DOMAIN bundle' = BundleFields /\ bundle'.attempts = bundle.attempts
          /\ UNCHANGED <<lock, job, number, record, acked>> /\ pc[p] \in Working
      BY <1>0, <1>17, <2>2 DEF PostVerify, Shape, BundleFields, Working
    <3>. QED
      BY <3>1, StepFail
  <2>. QED
    BY <2>1, <2>2
<1>18. ASSUME NEW p \in Procs, Undo(p) PROVE LogInv'
  <2>a. pc'[p] = "undo" /\ job' = job /\ lock' = lock /\ pc[p] \in Inside
        /\ \A q \in Procs \ {p} : pc'[q] = pc[q] /\ number'[q] = number[q]
    BY <1>0, <1>18 DEF Undo, Move, Shape, Inside, Files
  <2>1. Head(todo[p]) \in Files /\ acked' = acked
    BY <1>0, <1>18 DEF Undo, Shape
  <2>2. \A n \in DOMAIN acked : n # number[p]
    BY <1>0, <1>18 DEF Undo, Own, Working
  <2>3. bundle'.attempts = bundle.attempts
        \/ bundle'.attempts = Without(bundle.attempts, number[p])
    BY <1>0, <1>18, <2>1 DEF Undo, Restored, Shape, BundleFields, Files
  <2>4. IsFiniteSet(DOMAIN bundle'.attempts)
    BY <1>0, <2>3, FS_Subset DEF Without, Shape
  <2>b. Shape'
    BY <1>0, <1>18, <2>4 DEF Undo, Move, Shape, Phases, Inside, BundleFields, Files
  <2>c. Own(p)'
    BY <1>0, <1>18, <2>a DEF Undo, Own, Inside, Phases, ReplayOnly, ReportOnly, Working,
       Reserved, Committed
  <2>d. 0 \notin DOMAIN acked' /\ AckedSurvive'
    BY <2>1, <2>2, <2>3 DEF LogInv, AckedSurvive, Without
  <2>. QED
    BY <2>a, <2>b, <2>c, <2>d, StepInside
<1>19. ASSUME NEW p \in Procs, UndoVerify(p) PROVE LogInv'
  <2>a. Frame(p, "release")
    BY <1>0, <1>19 DEF UndoVerify, Frame, Move, Shape, Inside, BundleFields
  <2>b. Allowed(p, "release")
    BY <1>0, <1>19 DEF UndoVerify, Allowed, Own, Inside, Phases, ReplayOnly, ReportOnly,
       Working, Reserved, Committed
  <2>. QED
    BY <2>a, <2>b, StepPhase
<1>20. ASSUME NEW p \in Procs, SnapshotFails(p) PROVE LogInv'
  <2>a. Frame(p, "drop")
    BY <1>0, <1>20 DEF SnapshotFails, Frame, Move, Shape, Inside, BundleFields
  <2>b. Allowed(p, "drop")
    BY <1>0, <1>20 DEF SnapshotFails, Allowed, Own, Inside, Phases, ReplayOnly,
       ReportOnly, Working, Reserved, Committed
  <2>. QED
    BY <2>a, <2>b, StepPhase
<1>21. ASSUME NEW p \in Procs, RenameFails(p) PROVE LogInv'
  <2>a. Frame(p, "drop")
    BY <1>0, <1>21 DEF RenameFails, Frame, Move, Shape, Inside, BundleFields
  <2>b. Allowed(p, "drop")
    BY <1>0, <1>21 DEF RenameFails, Allowed, Own, Inside, Phases, ReplayOnly,
       ReportOnly, Working, Reserved, Committed
  <2>. QED
    BY <2>a, <2>b, StepPhase
<1>22. ASSUME NEW p \in Procs, DropFails(p) PROVE LogInv'
  <2>a. Frame(p, "release")
    BY <1>0, <1>22 DEF DropFails, Frame, Move, Shape, Inside, BundleFields
  <2>b. Allowed(p, "release")
    BY <1>0, <1>22 DEF DropFails, Allowed, Own, Inside, Phases, ReplayOnly, ReportOnly,
       Working, Reserved, Committed
  <2>. QED
    BY <2>a, <2>b, StepPhase
<1>23. ASSUME NEW p \in Procs, WriteFails(p) PROVE LogInv'
  <2>1. Fail(p) /\ DOMAIN bundle' = BundleFields /\ bundle'.attempts = bundle.attempts
        /\ UNCHANGED <<lock, job, number, record, acked>> /\ pc[p] \in Working
    BY <1>0, <1>23 DEF WriteFails, Shape, BundleFields, Working, Written, Damaged
  <2>. QED
    BY <2>1, StepFail
<1>24. ASSUME NEW p \in Procs, CheckFails(p) PROVE LogInv'
  <2>1. Fail(p) /\ DOMAIN bundle' = BundleFields /\ bundle'.attempts = bundle.attempts
        /\ UNCHANGED <<lock, job, number, record, acked>> /\ pc[p] \in Working
    BY <1>0, <1>24 DEF CheckFails, Shape, BundleFields, Working
  <2>. QED
    BY <2>1, StepFail
<1>25. ASSUME NEW p \in Procs, UndoFails(p) PROVE LogInv'
  <2>a. pc'[p] = "release" /\ job' = job /\ lock' = lock /\ pc[p] \in Inside
        /\ \A q \in Procs \ {p} : pc'[q] = pc[q] /\ number'[q] = number[q]
    BY <1>0, <1>25 DEF UndoFails, Move, Shape, Inside
  <2>1. acked' = acked /\ \A n \in DOMAIN acked : n # number[p]
    BY <1>0, <1>25 DEF UndoFails, Own, Working
  <2>2. bundle'.attempts = bundle.attempts
        \/ bundle'.attempts = Without(bundle.attempts, number[p])
    BY <1>0, <1>25 DEF UndoFails, HalfRemoved, Damaged, Shape, BundleFields, Files
  <2>3. IsFiniteSet(DOMAIN bundle'.attempts)
    BY <1>0, <2>2, FS_Subset DEF Without, Shape
  <2>4. DOMAIN bundle' = BundleFields
    BY <1>0, <1>25 DEF UndoFails, HalfRemoved, Damaged, Shape, BundleFields
  <2>5. todo' \in [Procs -> Seq(Files)]
    <3>1. <<>> \in Seq(Files)
      OBVIOUS
    <3>. QED
      BY <1>0, <1>25, <3>1 DEF UndoFails, Shape
  <2>b. Shape'
    BY <1>0, <1>25, <2>3, <2>4, <2>5 DEF UndoFails, Move, Shape, Phases, Inside
  <2>c. Own(p)'
    BY <1>0, <1>25, <2>a DEF UndoFails, Own, Inside, Phases, ReplayOnly, ReportOnly,
       Working, Reserved, Committed
  <2>d. 0 \notin DOMAIN acked' /\ AckedSurvive'
    BY <2>1, <2>2 DEF LogInv, AckedSurvive, Without
  <2>. QED
    BY <2>a, <2>b, <2>c, <2>d, StepInside
<1>26. ASSUME NEW p \in Procs, ReleaseFails(p) PROVE LogInv'
  <2>a. "ended" \in Phases \ Inside
    BY DEF Phases, Inside
  <2>. QED
    BY <1>26, <2>a, StepOutside DEF ReleaseFails, Move
<1>27. ASSUME NEW p \in Procs, Crash(p) PROVE LogInv'
  <2>a. "crashed" \in Phases \ Inside
    BY DEF Phases, Inside
  <2>. QED
    BY <1>27, <2>a, StepOutside DEF Crash, Move
<1>28. CASE FinishScan
  <2>1. bundle'.attempts = bundle.attempts /\ DOMAIN bundle' = BundleFields
    BY <1>0, <1>28 DEF FinishScan, FinishClaims, FinishSumOther, OtherSums,
       FinishSumScenario, FinishSumRun,
       FinishVerify, Finish, Shape, BundleFields
  <2>2. UNCHANGED <<lock, pc, job, number, record, todo, acked>>
    BY <1>28 DEF FinishScan, FinishClaims, FinishSumOther, OtherSums,
       FinishSumScenario, FinishSumRun,
       FinishVerify, Finish
  <2>. QED
    BY <2>1, <2>2 DEF LogInv, Shape, LockExcludes, Ownership, Own, AckedSurvive
<1>29. CASE UNCHANGED vars
  BY <1>29 DEF vars, LogInv, Shape, LockExcludes, Ownership, Own, AckedSurvive
<1>. QED
  BY <1>1, <1>2, <1>3, <1>4, <1>5, <1>6, <1>7, <1>8, <1>9, <1>10, <1>11, <1>12, <1>13,
     <1>14, <1>15, <1>16, <1>17, <1>18, <1>19, <1>20, <1>21, <1>22, <1>23, <1>24, <1>25,
     <1>26, <1>27, <1>28, <1>29, <1>30 DEF Next, Step, FaultStep

\* The invariant holds of every behaviour.
LEMMA LogCorrect == Spec => []LogInv
<1>1. Init => LogInv
  BY LogInit
<1>2. LogInv /\ [Next]_vars => LogInv'
  BY LogStep
<1>. QED
  BY <1>1, <1>2, PTL DEF Spec

\* However many processes and whatever fails or crashes, whoever works on the
\* bundle owns the lock file.
THEOREM LockCorrect == Spec => []LockExcludes
<1>1. LogInv => LockExcludes
  BY DEF LogInv
<1>. QED
  BY <1>1, LogCorrect, PTL

\* However many operations follow, fail, undo or crash, and whatever the scan
\* rewrites meanwhile, an attempt that was reported stays as it was written.
THEOREM AckedCorrect == Spec => []AckedSurvive
<1>1. LogInv => AckedSurvive
  BY DEF LogInv
<1>. QED
  BY <1>1, LogCorrect, PTL

-----------------------------------------------------------------------------
(* The types: what an undo restores is what the bundle held.                *)

BundleType(b) ==
  /\ b.original \in Originals /\ AttemptsType(b.attempts)
  /\ b.mirror \in ReplayRecords \cup {Absent, Torn}
  /\ b.staging \subseteq Nat \ {0}
  /\ b.claims \in {"scan", "final"} /\ b.report \in ReportContents

RestType ==
  /\ lock \in Procs \cup {None} /\ result \in [Procs -> Results]
  /\ record \in [Procs -> ReplayRecords \cup {Absent}] /\ AttemptsType(acked)
  /\ finisher \in {"claims", "earlier_sums", "scenario_sums", "later_sums", "root_sums",
                   "verify", "done", "failed"}
  /\ faults \in 0..MaxFaults

\* Where an operation has the bundle of before its first write to restore, and
\* where a replay has the report it executed.
Restoring == {"commit", "mirror", "report", "check", "earlier_sums", "scenario_sums",
              "later_sums", "root_sums", "verify", "undo"}
Recording == {"snapshot", "commit", "mirror", "earlier_sums", "scenario_sums", "later_sums",
              "root_sums", "verify"}

\* Of the files yet to restore none is an attempt: the undo of a report.
NoAttempt(s) == \A i \in DOMAIN s : s[i] # "attempts"

\* Of the files yet to restore every other one was read.
OnlySaved(s, j) == \A i \in DOMAIN s : s[i] = "attempts" \/ s[i] \in Saves[j]

Kept(p) ==
  /\ pc[p] \in Restoring => /\ BundleType(was[p])
                           /\ saved[p] = [f \in Saves[job[p]] |-> was[p][f]]
  /\ job[p] = "replay" /\ pc[p] \in Recording => record[p] \in ReplayRecords
  /\ pc[p] = "undo" => /\ number[p] # 0 \/ NoAttempt(todo[p])
                      /\ OnlySaved(todo[p], job[p])

Locals == DOMAIN saved = Procs /\ DOMAIN was = Procs

Typed ==
  /\ BundleType(bundle) /\ RestType /\ Locals
  /\ \A p \in Procs : Kept(p)

\* What a replay reports is a record.
LEMMA ReportsAreRecords == \A o \in Originals : Reports(o) \subseteq ReplayRecords
<1>1. \A raw \in RawResults :
        /\ raw.exit_code \in ExitCodes /\ raw.timed_out \in BOOLEAN
        /\ replay_signature(raw) \in Diagnostics \cup ReservedHashes
  BY DEF RawResults, replay_signature, normalize_failure, Failure, ReservedHashes
<1>2. ASSUME NEW o, NEW raw \in RawResults PROVE Compared(o, raw) \in ReplayRecords
  <2>1. exit_match(o, raw) \in BOOLEAN /\ signature_match(o, raw) \in BOOLEAN
    BY DEF exit_match, signature_match
  <2>2. \A b \in BOOLEAN : Flag(b) \in {None, "true", "false"}
    BY DEF Flag
  <2> QED
    BY <1>1, <2>1, <2>2 DEF Compared, Report, ReplayRecords
<1>3. ASSUME NEW phase \in {"fetch", "test"}, NEW late \in BOOLEAN
      PROVE  Failed(phase, late) \in ReplayRecords
  BY DEF Failed, Report, ReplayRecords, ExitCodes, ReservedHashes
<1> QED
  BY <1>2, <1>3 DEF Reports

\* An attempt more or less leaves attempts.
LEMMA WithType ==
  ASSUME NEW f, AttemptsType(f), NEW n \in Nat \ {0}, NEW r \in ReplayRecords
  PROVE  AttemptsType(With(f, n, r))
BY DEF AttemptsType, With

LEMMA WithoutType ==
  ASSUME NEW f, AttemptsType(f), NEW n
  PROVE  AttemptsType(Without(f, n))
BY DEF AttemptsType, Without

\* The files after a step.
LEMMA BundleTypes == LogInv /\ Typed /\ [Next]_vars => BundleType(bundle')
<1> SUFFICES ASSUME LogInv, Typed, [Next]_vars PROVE BundleType(bundle')
  OBVIOUS
<1>0. Shape /\ BundleType(bundle) /\ \A p \in Procs : Kept(p) /\ Own(p)
  BY DEF LogInv, Typed, Ownership
<1>1. ASSUME bundle' = bundle PROVE BundleType(bundle')
  BY <1>0, <1>1 DEF BundleType
<1>2. ASSUME NEW p \in Procs, Reserve(p) PROVE BundleType(bundle')
  <2>1. inspect_replay_attempts(bundle) \in Nat \ {0}
    BY <1>0, FS_CardinalityType DEF inspect_replay_attempts, Shape
  <2>2. CASE bundle.staging = {} /\ Contiguous(bundle)
    <3>1. bundle' = [bundle EXCEPT !.staging = {inspect_replay_attempts(bundle)}]
      BY <1>2, <2>2 DEF Reserve
    <3> QED
      BY <1>0, <2>1, <3>1 DEF BundleType, Shape, BundleFields
  <2>3. CASE ~(bundle.staging = {} /\ Contiguous(bundle))
    BY <1>1, <1>2, <2>3 DEF Reserve
  <2> QED
    BY <2>2, <2>3
<1>3. ASSUME NEW p \in Procs, Commit(p) PROVE BundleType(bundle')
  <2>1. number[p] \in Nat \ {0} /\ record[p] \in ReplayRecords
    BY <1>0, <1>3 DEF Commit, Own, ReplayOnly, Reserved, Kept, Recording, Shape
  <2>2. AttemptsType(With(bundle.attempts, number[p], record[p]))
    BY <1>0, <2>1, WithType DEF BundleType
  <2>3. CASE number[p] \in DOMAIN bundle.attempts
    BY <1>1, <1>3, <2>3 DEF Commit
  <2>4. CASE number[p] \notin DOMAIN bundle.attempts
    <3>1. bundle' = [bundle EXCEPT !.staging = @ \ {number[p]},
                                   !.attempts = With(@, number[p], record[p])]
      BY <1>3, <2>4 DEF Commit
    <3> QED
      BY <1>0, <2>2, <3>1 DEF BundleType, Shape, BundleFields
  <2> QED
    BY <2>3, <2>4
<1>4. ASSUME NEW p \in Procs, DropStaging(p) PROVE BundleType(bundle')
  BY <1>0, <1>4 DEF DropStaging, BundleType, Shape, BundleFields
<1>5. ASSUME NEW p \in Procs, WriteMirror(p) PROVE BundleType(bundle')
  <2>1. record[p] \in ReplayRecords
    BY <1>0, <1>5 DEF WriteMirror, Own, ReplayOnly, Kept, Recording
  <2> QED
    BY <1>0, <1>5, <2>1 DEF WriteMirror, BundleType, Shape, BundleFields
<1>6. ASSUME NEW p \in Procs, WriteReport(p) PROVE BundleType(bundle')
  BY <1>0, <1>6 DEF WriteReport, BundleType, Shape, BundleFields, ReportContents
<1>7. ASSUME NEW p \in Procs, SumScenario(p) PROVE BundleType(bundle')
  BY <1>0, <1>7 DEF SumScenario, BundleType, Shape, BundleFields
<1>14. ASSUME NEW p \in Procs, SumOther(p) PROVE BundleType(bundle')
  BY <1>0, <1>14 DEF SumOther, OtherSums, BundleType, Shape, BundleFields
<1>8. ASSUME NEW p \in Procs, SumRun(p) PROVE BundleType(bundle')
  BY <1>0, <1>8 DEF SumRun, BundleType, Shape, BundleFields
<1>9. ASSUME NEW p \in Procs, Undo(p) PROVE BundleType(bundle')
  <2>1. Head(todo[p]) \in Files
    BY <1>0, <1>9 DEF Undo, Shape
  <2>2. /\ BundleType(was[p]) /\ saved[p] = [f \in Saves[job[p]] |-> was[p][f]]
        /\ OnlySaved(todo[p], job[p])
    BY <1>0, <1>9 DEF Undo, Kept, Restoring
  <2>3. AttemptsType(Without(bundle.attempts, number[p]))
    BY <1>0, WithoutType DEF BundleType
  <2> DEFINE file == Head(todo[p])
  <2>4. bundle' = [bundle EXCEPT ![file] = Restored(p, file)]
    BY <1>9 DEF Undo
  <2> HIDE DEF file
  <2>5. file \in Files
    BY <2>1 DEF file
  <2>6. file = "attempts" \/ file \in Saves[job[p]]
    <3>1. 1 \in DOMAIN todo[p] /\ todo[p][1] = file
      BY <1>0, <1>9 DEF Undo, Shape, file
    <3> QED
      BY <2>2, <3>1 DEF OnlySaved
  <2>7. file # "attempts" => Restored(p, file) = was[p][file]
    BY <2>2, <2>6 DEF Restored
  <2>8. file = "attempts" => Restored(p, file) = Without(bundle.attempts, number[p])
    BY DEF Restored
  <2> QED
    BY <1>0, <2>2, <2>3, <2>4, <2>5, <2>7, <2>8 DEF BundleType, Shape, BundleFields, Files
<1>10. ASSUME NEW file \in Files \ {"attempts"},
              bundle' \in Damaged(file)
       PROVE  BundleType(bundle')
  BY <1>0, <1>10 DEF Damaged, Files, BundleType, Shape, BundleFields, ReportContents
<1>11. ASSUME NEW p \in Procs, WriteFails(p) PROVE BundleType(bundle')
  BY <1>10, <1>11 DEF WriteFails, Written, Files
<1>12. ASSUME NEW p \in Procs, UndoFails(p) PROVE BundleType(bundle')
  <2>1. CASE todo[p] = <<>>
    BY <1>1, <1>12, <2>1 DEF UndoFails
  <2>2. CASE todo[p] # <<>>
    <3>1. Head(todo[p]) \in Files
      BY <1>0, <2>2 DEF Shape
    <3>2. CASE Head(todo[p]) = "attempts"
      <4>1. bundle' \in HalfRemoved(p)
        BY <1>12, <2>2, <3>2 DEF UndoFails
      <4>2. number[p] \in Nat \ {0}
        <5>1. pc[p] = "undo"
          BY <1>12 DEF UndoFails
        <5>2. 1 \in DOMAIN todo[p] /\ todo[p][1] = "attempts"
          BY <1>0, <2>2, <3>2 DEF Shape
        <5>3. ~NoAttempt(todo[p])
          BY <5>2 DEF NoAttempt
        <5>4. Kept(p) /\ number[p] \in Nat
          BY <1>0 DEF Shape
        <5> QED
          BY <5>1, <5>3, <5>4 DEF Kept
      <4>3. AttemptsType(Without(bundle.attempts, number[p]))
        BY <1>0, WithoutType DEF BundleType
      <4> QED
        <5> DEFINE half == [bundle EXCEPT !.attempts = Without(@, number[p]),
                                          !.staging = @ \cup {number[p]}]
        <5>1. bundle' = bundle \/ bundle' = half
          BY <4>1 DEF HalfRemoved
        <5>2. BundleType(half)
          BY <1>0, <4>2, <4>3 DEF BundleType, Shape, BundleFields
        <5> HIDE DEF half
        <5> QED
          BY <1>1, <5>1, <5>2
    <3>3. CASE Head(todo[p]) # "attempts"
      BY <1>10, <1>12, <2>2, <3>1, <3>3 DEF UndoFails, Files
    <3> QED
      BY <3>2, <3>3
  <2> QED
    BY <2>1, <2>2
<1>13. CASE FinishScan
  BY <1>0, <1>13 DEF FinishScan, FinishClaims, FinishSumOther, OtherSums, FinishSumScenario,
     FinishSumRun, FinishVerify, BundleType, Shape, BundleFields
<1> QED
  BY <1>1, <1>2, <1>3, <1>4, <1>5, <1>6, <1>7, <1>8, <1>9, <1>10, <1>11, <1>12, <1>13, <1>14
     DEF Next, Step, FaultStep, VerifyFirst, Acquire, VerifyLocked, Refuse, Release,
     Prepare, Execute, Snapshot, CheckReport, PostVerify, UndoVerify, SnapshotFails,
     RenameFails, DropFails, CheckFails, ReleaseFails, Crash, vars

\* A step of one process that moves it on and leaves its locals alone.
MovesOn(p, phase) ==
  /\ pc' = [pc EXCEPT ![p] = phase]
  /\ UNCHANGED <<job, number, record, saved, was>>
  /\ phase # "undo" => todo' = todo
  /\ phase = "undo" => Fail(p) /\ pc[p] \in Restoring \ {"undo"}
  /\ phase \in Restoring => pc[p] \in Restoring
  /\ phase \in Recording => pc[p] \in Recording \cup {"check"}

\* Such a step keeps what every operation holds.
LEMMA KeptQuiet ==
  ASSUME LogInv, \A q \in Procs : Kept(q), NEW p \in Procs, NEW phase, MovesOn(p, phase)
  PROVE  (\A q \in Procs : Kept(q))'
<1>0. Shape /\ Own(p)
  BY DEF LogInv, Ownership
<1> SUFFICES ASSUME NEW q \in Procs PROVE Kept(q)'
  OBVIOUS
<1>1. CASE q = p
  <2>1. /\ pc'[p] = phase /\ job'[p] = job[p] /\ record'[p] = record[p]
        /\ saved'[p] = saved[p] /\ was'[p] = was[p]
    BY <1>0 DEF MovesOn, Shape
  <2>2. ASSUME phase = "undo"
        PROVE  (number'[p] # 0 \/ NoAttempt(todo'[p])) /\ OnlySaved(todo'[p], job[p])
    <3>1. job[p] \in {"replay", "report"} /\ todo'[p] = UndoOrder[job[p]]
          /\ number' = number
      BY <1>0, <2>2 DEF MovesOn, Fail, Own, Working, Restoring, Shape
    <3>2. CASE job[p] = "replay"
      <4>1. number[p] # 0
        BY <1>0, <2>2, <3>2 DEF MovesOn, Own, Restoring, Reserved, ReportOnly
      <4>2. todo'[p] = <<"attempts", "mirror", "scenario_sums", "root_sums">>
            /\ Saves[job[p]] = {"mirror", "scenario_sums", "root_sums"}
        BY <3>1, <3>2 DEF UndoOrder, Saves
      <4> QED
        BY <3>1, <4>1, <4>2 DEF OnlySaved
    <3>3. CASE job[p] = "report"
      <4>1. todo'[p] = <<"report", "root_sums", "earlier_sums", "scenario_sums", "later_sums">>
            /\ Saves[job[p]]
               = {"report", "root_sums", "earlier_sums", "scenario_sums", "later_sums"}
        BY <3>1, <3>3 DEF UndoOrder, Saves
      <4> QED
        BY <4>1 DEF NoAttempt, OnlySaved
    <3> QED
      BY <3>1, <3>2, <3>3
  <2>3. pc[p] \in Restoring => /\ BundleType(was'[p])
                              /\ saved'[p] = [f \in Saves[job'[p]] |-> was'[p][f]]
    BY <2>1 DEF Kept
  <2>4. job'[p] = "replay" /\ phase \in Recording => record'[p] \in ReplayRecords
    BY <1>0, <2>1 DEF MovesOn, Kept, Own, ReportOnly
  <2> QED
    BY <1>1, <2>1, <2>2, <2>3, <2>4 DEF MovesOn, Kept
<1>2. CASE q # p
  <2>1. pc'[q] = pc[q] /\ todo'[q] = todo[q] /\ UNCHANGED <<job, number, record, saved, was>>
    BY <1>0, <1>2 DEF MovesOn, Fail, Shape
  <2> QED
    BY <2>1 DEF Kept, BundleType
<1> QED
  BY <1>1, <1>2

\* What an operation holds after a step.
LEMMA KeptStep ==
  LogInv /\ Typed /\ [Next]_vars =>
    (\A q \in Procs : Kept(q))' /\ Locals'
<1> SUFFICES ASSUME LogInv, Typed, [Next]_vars
             PROVE  (\A q \in Procs : Kept(q))' /\ Locals'
  OBVIOUS
<1>0. /\ Shape /\ BundleType(bundle) /\ Locals /\ RestType
      /\ \A p \in Procs : Kept(p) /\ Own(p)
  BY DEF LogInv, Typed, Ownership
<1>1. ASSUME NEW p \in Procs, VerifyFirst(p)
      PROVE  (\A q \in Procs : Kept(q))' /\ UNCHANGED <<saved, was>>
  <2>1. PICK phase \in {"lock", "ended"} : MovesOn(p, phase) /\ UNCHANGED <<saved, was>>
    BY <1>0, <1>1 DEF VerifyFirst, MovesOn, Move, Restoring, Recording
  <2> QED
    BY <1>0, <2>1, KeptQuiet
<1>2. ASSUME NEW p \in Procs, Acquire(p)
      PROVE  (\A q \in Procs : Kept(q))' /\ UNCHANGED <<saved, was>>
  <2>1. PICK phase \in {"locked", "ended"} : MovesOn(p, phase) /\ UNCHANGED <<saved, was>>
    BY <1>0, <1>2 DEF Acquire, MovesOn, Move, Restoring, Recording
  <2> QED
    BY <1>0, <2>1, KeptQuiet
<1>3. ASSUME NEW p \in Procs, Refuse(p)
      PROVE  (\A q \in Procs : Kept(q))' /\ UNCHANGED <<saved, was>>
  <2>1. MovesOn(p, "release") /\ UNCHANGED <<saved, was>>
    BY <1>0, <1>3 DEF Refuse, MovesOn, Move, Restoring, Recording
  <2> QED
    BY <1>0, <2>1, KeptQuiet
<1>4. ASSUME NEW p \in Procs, Prepare(p)
      PROVE  (\A q \in Procs : Kept(q))' /\ UNCHANGED <<saved, was>>
  <2>1. PICK phase \in {"reserve", "release"} : MovesOn(p, phase) /\ UNCHANGED <<saved, was>>
    BY <1>0, <1>4 DEF Prepare, MovesOn, Move, Restoring, Recording
  <2> QED
    BY <1>0, <2>1, KeptQuiet
<1>5. ASSUME NEW p \in Procs, Commit(p)
      PROVE  (\A q \in Procs : Kept(q))' /\ UNCHANGED <<saved, was>>
  <2>1. PICK phase \in {"drop", "mirror"} : MovesOn(p, phase) /\ UNCHANGED <<saved, was>>
    BY <1>0, <1>5 DEF Commit, MovesOn, Move, Restoring, Recording
  <2> QED
    BY <1>0, <2>1, KeptQuiet
<1>6. ASSUME NEW p \in Procs, DropStaging(p)
      PROVE  (\A q \in Procs : Kept(q))' /\ UNCHANGED <<saved, was>>
  <2>1. MovesOn(p, "release") /\ UNCHANGED <<saved, was>>
    BY <1>0, <1>6 DEF DropStaging, MovesOn, Move, Restoring, Recording
  <2> QED
    BY <1>0, <2>1, KeptQuiet
<1>7. ASSUME NEW p \in Procs, WriteMirror(p)
      PROVE  (\A q \in Procs : Kept(q))' /\ UNCHANGED <<saved, was>>
  <2>1. MovesOn(p, "earlier_sums") /\ UNCHANGED <<saved, was>>
    BY <1>0, <1>7 DEF WriteMirror, MovesOn, Move, Restoring, Recording
  <2> QED
    BY <1>0, <2>1, KeptQuiet
<1>8. ASSUME NEW p \in Procs, WriteReport(p)
      PROVE  (\A q \in Procs : Kept(q))' /\ UNCHANGED <<saved, was>>
  <2>1. MovesOn(p, "check") /\ UNCHANGED <<saved, was>>
    BY <1>0, <1>8 DEF WriteReport, MovesOn, Move, Restoring, Recording
  <2> QED
    BY <1>0, <2>1, KeptQuiet
<1>9. ASSUME NEW p \in Procs, CheckReport(p)
      PROVE  (\A q \in Procs : Kept(q))' /\ UNCHANGED <<saved, was>>
  <2>1. PICK phase \in {"earlier_sums", "undo"} : MovesOn(p, phase) /\ UNCHANGED <<saved, was>>
    BY <1>0, <1>9 DEF CheckReport, MovesOn, Move, Restoring, Recording, Fail
  <2> QED
    BY <1>0, <2>1, KeptQuiet
<1>10. ASSUME NEW p \in Procs, SumScenario(p)
      PROVE  (\A q \in Procs : Kept(q))' /\ UNCHANGED <<saved, was>>
  <2>1. PICK phase \in {"later_sums", "undo"} : MovesOn(p, phase) /\ UNCHANGED <<saved, was>>
    BY <1>0, <1>10 DEF SumScenario, MovesOn, Move, Restoring, Recording, Fail
  <2> QED
    BY <1>0, <2>1, KeptQuiet
<1>29. ASSUME NEW p \in Procs, SumOther(p)
      PROVE  (\A q \in Procs : Kept(q))' /\ UNCHANGED <<saved, was>>
  <2>1. PICK phase \in {"scenario_sums", "root_sums"} :
           MovesOn(p, phase) /\ UNCHANGED <<saved, was>>
    <3>1. CASE pc[p] = "earlier_sums"
      <4>1. MovesOn(p, "scenario_sums") /\ UNCHANGED <<saved, was>>
        BY <1>29, <3>1 DEF SumOther, AfterOther, MovesOn, Move, Restoring, Recording
      <4> QED
        BY <4>1
    <3>2. CASE pc[p] = "later_sums"
      <4>1. MovesOn(p, "root_sums") /\ UNCHANGED <<saved, was>>
        BY <1>29, <3>2 DEF SumOther, AfterOther, MovesOn, Move, Restoring, Recording
      <4> QED
        BY <4>1
    <3> QED
      BY <1>29, <3>1, <3>2 DEF SumOther, OtherSums
  <2> QED
    BY <1>0, <2>1, KeptQuiet
<1>11. ASSUME NEW p \in Procs, SumRun(p)
      PROVE  (\A q \in Procs : Kept(q))' /\ UNCHANGED <<saved, was>>
  <2>1. MovesOn(p, "verify") /\ UNCHANGED <<saved, was>>
    BY <1>0, <1>11 DEF SumRun, MovesOn, Move, Restoring, Recording
  <2> QED
    BY <1>0, <2>1, KeptQuiet
<1>12. ASSUME NEW p \in Procs, PostVerify(p)
      PROVE  (\A q \in Procs : Kept(q))' /\ UNCHANGED <<saved, was>>
  <2>1. PICK phase \in {"release", "undo"} : MovesOn(p, phase) /\ UNCHANGED <<saved, was>>
    BY <1>0, <1>12 DEF PostVerify, MovesOn, Move, Restoring, Recording, Fail
  <2> QED
    BY <1>0, <2>1, KeptQuiet
<1>13. ASSUME NEW p \in Procs, UndoVerify(p)
      PROVE  (\A q \in Procs : Kept(q))' /\ UNCHANGED <<saved, was>>
  <2>1. MovesOn(p, "release") /\ UNCHANGED <<saved, was>>
    BY <1>0, <1>13 DEF UndoVerify, MovesOn, Move, Restoring, Recording
  <2> QED
    BY <1>0, <2>1, KeptQuiet
<1>14. ASSUME NEW p \in Procs, SnapshotFails(p)
      PROVE  (\A q \in Procs : Kept(q))' /\ UNCHANGED <<saved, was>>
  <2>1. MovesOn(p, "drop") /\ UNCHANGED <<saved, was>>
    BY <1>0, <1>14 DEF SnapshotFails, MovesOn, Move, Restoring, Recording
  <2> QED
    BY <1>0, <2>1, KeptQuiet
<1>15. ASSUME NEW p \in Procs, RenameFails(p)
      PROVE  (\A q \in Procs : Kept(q))' /\ UNCHANGED <<saved, was>>
  <2>1. MovesOn(p, "drop") /\ UNCHANGED <<saved, was>>
    BY <1>0, <1>15 DEF RenameFails, MovesOn, Move, Restoring, Recording
  <2> QED
    BY <1>0, <2>1, KeptQuiet
<1>16. ASSUME NEW p \in Procs, DropFails(p)
      PROVE  (\A q \in Procs : Kept(q))' /\ UNCHANGED <<saved, was>>
  <2>1. MovesOn(p, "release") /\ UNCHANGED <<saved, was>>
    BY <1>0, <1>16 DEF DropFails, MovesOn, Move, Restoring, Recording
  <2> QED
    BY <1>0, <2>1, KeptQuiet
<1>17. ASSUME NEW p \in Procs, WriteFails(p)
      PROVE  (\A q \in Procs : Kept(q))' /\ UNCHANGED <<saved, was>>
  <2>1. MovesOn(p, "undo") /\ UNCHANGED <<saved, was>>
    BY <1>0, <1>17 DEF WriteFails, MovesOn, Move, Restoring, Recording, Fail, Written
  <2> QED
    BY <1>0, <2>1, KeptQuiet
<1>18. ASSUME NEW p \in Procs, CheckFails(p)
      PROVE  (\A q \in Procs : Kept(q))' /\ UNCHANGED <<saved, was>>
  <2>1. MovesOn(p, "undo") /\ UNCHANGED <<saved, was>>
    BY <1>0, <1>18 DEF CheckFails, MovesOn, Move, Restoring, Recording, Fail
  <2> QED
    BY <1>0, <2>1, KeptQuiet
<1>19. ASSUME NEW p \in Procs, ReleaseFails(p)
      PROVE  (\A q \in Procs : Kept(q))' /\ UNCHANGED <<saved, was>>
  <2>1. MovesOn(p, "ended") /\ UNCHANGED <<saved, was>>
    BY <1>0, <1>19 DEF ReleaseFails, MovesOn, Move, Restoring, Recording
  <2> QED
    BY <1>0, <2>1, KeptQuiet
<1>20. ASSUME NEW p \in Procs, Crash(p)
      PROVE  (\A q \in Procs : Kept(q))' /\ UNCHANGED <<saved, was>>
  <2>1. MovesOn(p, "crashed") /\ UNCHANGED <<saved, was>>
    BY <1>0, <1>20 DEF Crash, MovesOn, Move, Restoring, Recording
  <2> QED
    BY <1>0, <2>1, KeptQuiet
<1>21. ASSUME NEW p \in Procs, VerifyLocked(p)
      PROVE  (\A q \in Procs : Kept(q))' /\ UNCHANGED <<saved, was>>
  <2>1. ASSUME NEW q \in Procs PROVE Kept(q)'
    <3>1. CASE q = p
      <4>1. pc'[p] \in {"prepare", "snapshot", "release"}
            /\ (job[p] = "replay" => pc'[p] # "snapshot") /\ job' = job
        BY <1>0, <1>21 DEF VerifyLocked, Move, AfterLoad, Shape
      <4> QED
        BY <3>1, <4>1 DEF Kept, Restoring, Recording
    <3>2. CASE q # p
      <4>1. pc'[q] = pc[q] /\ UNCHANGED <<job, number, record, saved, was, todo>>
        BY <1>0, <1>21, <3>2 DEF VerifyLocked, Move, Shape
      <4> QED
        BY <1>0, <4>1 DEF Kept, BundleType
    <3> QED
      BY <3>1, <3>2
  <2> QED
    BY <1>21, <2>1 DEF VerifyLocked
<1>22. ASSUME NEW p \in Procs, Release(p)
      PROVE  (\A q \in Procs : Kept(q))' /\ Locals'
  <2>1. ASSUME NEW q \in Procs PROVE Kept(q)'
    <3>1. CASE q = p
      <4>1. pc'[p] = "ended"
        BY <1>0, <1>22 DEF Release, Move, Shape
      <4> QED
        BY <3>1, <4>1 DEF Kept, Restoring, Recording
    <3>2. CASE q # p
      <4>1. /\ pc'[q] = pc[q] /\ job' = job /\ number'[q] = number[q]
            /\ record'[q] = record[q] /\ saved'[q] = saved[q] /\ was'[q] = was[q]
            /\ todo'[q] = todo[q]
        BY <1>0, <1>22, <3>2 DEF Release, Move, Shape
      <4> QED
        BY <1>0, <4>1 DEF Kept, BundleType
    <3> QED
      BY <3>1, <3>2
  <2> QED
    BY <1>0, <1>22, <2>1 DEF Release, Locals
<1>23. ASSUME NEW p \in Procs, Reserve(p)
      PROVE  (\A q \in Procs : Kept(q))' /\ Locals'
  <2>1. ASSUME NEW q \in Procs PROVE Kept(q)'
    <3>1. CASE q = p
      <4>1. pc'[p] \in {"execute", "release"}
        BY <1>0, <1>23 DEF Reserve, Move, Shape
      <4> QED
        BY <3>1, <4>1 DEF Kept, Restoring, Recording
    <3>2. CASE q # p
      <4>1. /\ pc'[q] = pc[q] /\ job' = job /\ number'[q] = number[q]
            /\ record'[q] = record[q] /\ saved'[q] = saved[q] /\ was'[q] = was[q]
            /\ todo'[q] = todo[q]
        BY <1>0, <1>23, <3>2 DEF Reserve, Move, Shape
      <4> QED
        BY <1>0, <4>1 DEF Kept, BundleType
    <3> QED
      BY <3>1, <3>2
  <2> QED
    BY <1>0, <1>23, <2>1 DEF Reserve, Locals
<1>24. ASSUME NEW p \in Procs, Execute(p)
      PROVE  (\A q \in Procs : Kept(q))' /\ Locals'
  <2>1. ASSUME NEW q \in Procs PROVE Kept(q)'
    <3>1. CASE q = p
      <4>1. pc'[p] = "snapshot" /\ record'[p] \in Reports(bundle.original)
        BY <1>0, <1>24 DEF Execute, Move, Shape, RestType
      <4>2. record'[p] \in ReplayRecords
        BY <1>0, <4>1, ReportsAreRecords DEF BundleType
      <4> QED
        BY <3>1, <4>1, <4>2 DEF Kept, Restoring, Recording
    <3>2. CASE q # p
      <4>1. /\ pc'[q] = pc[q] /\ job' = job /\ number'[q] = number[q]
            /\ record'[q] = record[q] /\ saved'[q] = saved[q] /\ was'[q] = was[q]
            /\ todo'[q] = todo[q]
        BY <1>0, <1>24, <3>2 DEF Execute, Move, Shape
      <4> QED
        BY <1>0, <4>1 DEF Kept, BundleType
    <3> QED
      BY <3>1, <3>2
  <2> QED
    BY <1>0, <1>24, <2>1 DEF Execute, Locals
<1>25. ASSUME NEW p \in Procs, Snapshot(p)
      PROVE  (\A q \in Procs : Kept(q))' /\ Locals'
  <2>1. ASSUME NEW q \in Procs PROVE Kept(q)'
    <3>1. CASE q = p
      <4>1. /\ pc'[p] \in {"commit", "report"} /\ was'[p] = bundle
            /\ saved'[p] = [f \in Saves[job[p]] |-> bundle[f]]
            /\ job' = job /\ record' = record /\ pc[p] = "snapshot"
        <5>1. job[p] \in {"replay", "report"}
          BY <1>0, <1>25 DEF Snapshot, Own, Working, Shape
        <5>2. AfterSnapshot[job[p]] \in {"commit", "report"}
          BY <5>1 DEF AfterSnapshot
        <5> QED
          BY <1>0, <1>25, <5>2 DEF Snapshot, Move, Shape, Locals
      <4>2. BundleType(was'[p])
        BY <1>0, <4>1 DEF BundleType
      <4> QED
        BY <1>0, <3>1, <4>1, <4>2 DEF Kept, Restoring, Recording, BundleType
    <3>2. CASE q # p
      <4>1. /\ pc'[q] = pc[q] /\ job' = job /\ number'[q] = number[q]
            /\ record'[q] = record[q] /\ saved'[q] = saved[q] /\ was'[q] = was[q]
            /\ todo'[q] = todo[q]
        BY <1>0, <1>25, <3>2 DEF Snapshot, Move, Shape
      <4> QED
        BY <1>0, <4>1 DEF Kept, BundleType
    <3> QED
      BY <3>1, <3>2
  <2> QED
    BY <1>0, <1>25, <2>1 DEF Snapshot, Locals
<1>26. ASSUME NEW p \in Procs, Undo(p)
      PROVE  (\A q \in Procs : Kept(q))' /\ Locals'
  <2>1. ASSUME NEW q \in Procs PROVE Kept(q)'
    <3>1. CASE q = p
      <4>1. /\ pc[p] = "undo" /\ todo'[p] = Tail(todo[p]) /\ todo[p] \in Seq(Files)
            /\ todo[p] # <<>> /\ UNCHANGED <<pc, job, number, record, saved, was>>
        BY <1>0, <1>26 DEF Undo, Shape
      <4>2. /\ NoAttempt(todo[p]) => NoAttempt(todo'[p])
            /\ OnlySaved(todo[p], job[p]) => OnlySaved(todo'[p], job'[p])
        BY <4>1 DEF NoAttempt, OnlySaved
      <4> QED
        BY <1>0, <3>1, <4>1, <4>2 DEF Kept, BundleType, Restoring, Recording
    <3>2. CASE q # p
      <4>1. /\ pc'[q] = pc[q] /\ job' = job /\ number'[q] = number[q]
            /\ record'[q] = record[q] /\ saved'[q] = saved[q] /\ was'[q] = was[q]
            /\ todo'[q] = todo[q]
        BY <1>0, <1>26, <3>2 DEF Undo, Move, Shape
      <4> QED
        BY <1>0, <4>1 DEF Kept, BundleType
    <3> QED
      BY <3>1, <3>2
  <2> QED
    BY <1>0, <1>26, <2>1 DEF Undo, Locals
<1>27. ASSUME NEW p \in Procs, UndoFails(p)
      PROVE  (\A q \in Procs : Kept(q))' /\ Locals'
  <2>1. ASSUME NEW q \in Procs PROVE Kept(q)'
    <3>1. CASE q = p
      <4>1. pc'[p] = "release"
        BY <1>0, <1>27 DEF UndoFails, Move, Shape
      <4> QED
        BY <3>1, <4>1 DEF Kept, Restoring, Recording
    <3>2. CASE q # p
      <4>1. /\ pc'[q] = pc[q] /\ job' = job /\ number'[q] = number[q]
            /\ record'[q] = record[q] /\ saved'[q] = saved[q] /\ was'[q] = was[q]
            /\ todo'[q] = todo[q]
        BY <1>0, <1>27, <3>2 DEF UndoFails, Move, Shape
      <4> QED
        BY <1>0, <4>1 DEF Kept, BundleType
    <3> QED
      BY <3>1, <3>2
  <2>2. UNCHANGED <<saved, was>>
    BY <1>27 DEF UndoFails
  <2>3. Locals'
    BY <1>0, <2>2 DEF Locals
  <2> QED
    BY <2>1, <2>3
<1>28. ASSUME FinishScan \/ UNCHANGED vars
      PROVE  (\A q \in Procs : Kept(q))' /\ Locals'
  <2>1. UNCHANGED <<pc, job, number, record, saved, was, todo>>
    BY <1>28 DEF FinishScan, FinishClaims, FinishSumOther, OtherSums, FinishSumScenario,
       FinishSumRun, FinishVerify, Finish, vars
  <2>2. Locals'
    BY <1>0, <2>1 DEF Locals
  <2> QED
    BY <1>0, <2>1, <2>2 DEF Kept, BundleType
<1> QED
    BY <1>0, <1>1, <1>2, <1>3, <1>4, <1>5, <1>6, <1>7, <1>8, <1>9, <1>10, <1>11, <1>12,
     <1>13, <1>14, <1>15, <1>16, <1>17, <1>18, <1>19, <1>20, <1>21, <1>22, <1>23, <1>24,
     <1>25, <1>26, <1>27, <1>28, <1>29 DEF Next, Step, FaultStep, Locals

\* The lock, the answers and the history after a step.
LEMMA RestStep == LogInv /\ Typed /\ [Next]_vars => RestType'
<1> SUFFICES ASSUME LogInv, Typed, [Next]_vars PROVE RestType'
  OBVIOUS
<1>0. /\ Shape /\ BundleType(bundle) /\ RestType
      /\ \A p \in Procs : Kept(p) /\ Own(p)
  BY DEF LogInv, Typed, Ownership
<1>1. ASSUME UNCHANGED <<lock, result, record, acked, finisher, faults>> PROVE RestType'
  BY <1>0, <1>1 DEF RestType, AttemptsType
\* Only the answer and the count of faults change.
<1>2. ASSUME NEW p \in Procs, NEW answer \in Results,
             result' \in {result, [result EXCEPT ![p] = answer]},
             faults' = faults \/ Fault,
             UNCHANGED <<lock, record, acked, finisher>>
      PROVE  RestType'
  <2>1. result' \in [Procs -> Results]
    BY <1>0, <1>2 DEF RestType
  <2>2. faults' \in 0..MaxFaults
    BY <1>0, <1>2, OpsAssumption DEF RestType, Fault
  <2> QED
    BY <1>0, <1>2, <2>1, <2>2 DEF RestType, AttemptsType
<1>3. /\ None \in Results /\ "refused" \in Results /\ "read" \in Results
      /\ "uncommitted" \in Results /\ "rename failed" \in Results
      /\ "failed" \in Results /\ "undo failed" \in Results
      /\ \A p \in Procs : Outcome(p) \in Results
  BY DEF Results, Outcome
<1>4. ASSUME NEW p \in Procs,
             VerifyFirst(p) \/ Refuse(p) \/ Prepare(p) \/ Reserve(p)
      PROVE  RestType'
  BY <1>2, <1>3, <1>4 DEF VerifyFirst, Refuse, Prepare, Reserve, Tell
<1>5. ASSUME NEW p \in Procs, VerifyLocked(p) PROVE RestType'
  BY <1>2, <1>3, <1>5 DEF VerifyLocked, Tell
<1>6. ASSUME NEW p \in Procs,
             Snapshot(p) \/ DropStaging(p) \/ WriteMirror(p) \/ WriteReport(p)
               \/ CheckReport(p) \/ SumOther(p) \/ SumScenario(p) \/ SumRun(p)
               \/ Undo(p)
      PROVE  RestType'
  BY <1>1, <1>6 DEF Snapshot, DropStaging, WriteMirror, WriteReport, CheckReport,
     SumOther, SumScenario, SumRun, Undo
<1>7. ASSUME NEW p \in Procs, Commit(p) PROVE RestType'
  BY <1>2, <1>3, <1>7 DEF Commit, Tell
<1>8. ASSUME NEW p \in Procs, UndoVerify(p) PROVE RestType'
  BY <1>2, <1>3, <1>8 DEF UndoVerify, Tell
<1>9. ASSUME NEW p \in Procs, SnapshotFails(p) \/ RenameFails(p) \/ UndoFails(p)
      PROVE  RestType'
  BY <1>2, <1>3, <1>9 DEF SnapshotFails, RenameFails, UndoFails, Tell
<1>10. ASSUME NEW p \in Procs,
              DropFails(p) \/ WriteFails(p) \/ CheckFails(p) \/ ReleaseFails(p) \/ Crash(p)
       PROVE  RestType'
  BY <1>2, <1>3, <1>10 DEF DropFails, WriteFails, CheckFails, ReleaseFails, Crash
<1>11. ASSUME NEW p \in Procs, Acquire(p) PROVE RestType'
  BY <1>0, <1>3, <1>11 DEF Acquire, Tell, RestType, AttemptsType
<1>12. ASSUME NEW p \in Procs, Release(p) PROVE RestType'
  BY <1>0, <1>12 DEF Release, RestType, AttemptsType
<1>13. ASSUME NEW p \in Procs, Execute(p) PROVE RestType'
  <2>1. PICK r \in Reports(bundle.original) : record' = [record EXCEPT ![p] = r]
    BY <1>13 DEF Execute
  <2>2. r \in ReplayRecords
    BY <1>0, <2>1, ReportsAreRecords DEF BundleType
  <2>3. record' \in [Procs -> ReplayRecords \cup {Absent}]
    BY <1>0, <2>1, <2>2 DEF RestType
  <2>4. UNCHANGED <<lock, result, acked, finisher, faults>>
    BY <1>13 DEF Execute
  <2> QED
    BY <1>0, <2>3, <2>4 DEF RestType, AttemptsType
<1>14. ASSUME NEW p \in Procs, PostVerify(p) PROVE RestType'
  <2>1. CASE verify_run_root(bundle) /\ job[p] = "replay"
    <3>1. number[p] \in Nat \ {0} /\ record[p] \in ReplayRecords
      BY <1>0, <1>14, <2>1 DEF PostVerify, Own, Reserved, Kept, Recording, Shape
    <3>2. AttemptsType(With(acked, number[p], record[p]))
      BY <1>0, <3>1, WithType DEF RestType
    <3>3. acked' = With(acked, number[p], record[p])
      BY <1>14, <2>1 DEF PostVerify
    <3>4. AttemptsType(acked')
      BY <3>2, <3>3
    <3>5. /\ result' = [result EXCEPT ![p] = Outcome(p)]
          /\ UNCHANGED <<lock, record, finisher, faults>>
      BY <1>14, <2>1 DEF PostVerify, Tell
    <3>6. result' \in [Procs -> Results]
      BY <1>0, <1>3, <3>5 DEF RestType
    <3> QED
      BY <1>0, <3>4, <3>5, <3>6 DEF RestType
  <2>2. CASE ~(verify_run_root(bundle) /\ job[p] = "replay")
    BY <1>2, <1>3, <1>14, <2>2 DEF PostVerify, Tell
  <2> QED
    BY <2>1, <2>2
<1>15. CASE FinishScan
  <2>1. FinishSumOther => finisher' \in {"scenario_sums", "root_sums"}
    BY DEF FinishSumOther, Finish, OtherSums, AfterOther
  <2>2. UNCHANGED <<lock, result, record, acked, faults>>
    BY <1>15 DEF FinishScan, FinishClaims, FinishSumOther, FinishSumScenario, FinishSumRun,
       FinishVerify, Finish
  <2>3. FinishClaims \/ FinishSumScenario \/ FinishSumRun \/ FinishVerify =>
          finisher' \in {"earlier_sums", "later_sums", "root_sums", "verify", "done", "failed"}
    BY DEF FinishClaims, FinishSumScenario, FinishSumRun, FinishVerify, Finish
  <2> QED
    BY <1>0, <1>15, <2>1, <2>2, <2>3 DEF FinishScan, RestType, AttemptsType
<1>16. CASE UNCHANGED vars
  BY <1>1, <1>16 DEF vars
<1> QED
  BY <1>4, <1>5, <1>6, <1>7, <1>8, <1>9, <1>10, <1>11, <1>12, <1>13, <1>14, <1>15, <1>16
     DEF Next, Step, FaultStep

\* The types hold at first.
LEMMA TypedInit == Init => Typed
<1> SUFFICES ASSUME Init PROVE Typed
  OBVIOUS
<1>1. PICK o \in Recorded, r \in {"absent", "scan"} : bundle = Sealed(o, r)
  BY DEF Init
<1>2. AttemptsType(NoAttempts)
  BY DEF AttemptsType, NoAttempts
<1>3. BundleType(bundle)
  BY <1>1, <1>2, OpsAssumption DEF Sealed, BundleType, ReportContents
<1>4. RestType
  BY <1>2, OpsAssumption DEF Init, RestType, Results
<1>5. ASSUME NEW p \in Procs PROVE Kept(p)
  BY DEF Init, Kept, Restoring, Recording
<1>6. Locals
  BY DEF Init, Locals
<1> QED
  BY <1>3, <1>4, <1>5, <1>6 DEF Typed

\* Whatever is interleaved, fails or crashes, the files, the lock and the locals
\* of every operation have their types: an undo restores only contents the bundle
\* had, and removes only an attempt that was reserved.
THEOREM TypeCorrect == Spec => []TypeOK
<1>1. Init => LogInv /\ Typed
  BY LogInit, TypedInit
<1>2. LogInv /\ Typed /\ [Next]_vars => (LogInv /\ Typed)'
  BY LogStep, BundleTypes, KeptStep, RestStep DEF Typed
<1>3. LogInv /\ Typed => TypeOK
  BY DEF LogInv, Shape, Typed, BundleType, RestType, TypeOK
<1> QED
  BY <1>1, <1>2, <1>3, PTL DEF Spec

-----------------------------------------------------------------------------
(* What operations tell their callers, and what they leave in the bundle.  *)

Function(f) == f = [n \in DOMAIN f |-> f[n]]

\* Nobody was told that an undo failed.
Clean == \A p \in Procs : result[p] # "undo failed"

\* A replay that has committed its attempt and not yet reported or removed it.
Pending(p) ==
  /\ job[p] = "replay"
  /\ pc[p] \in Committed \/ (pc[p] = "undo" /\ todo[p] = UndoOrder["replay"])
  /\ bundle.attempts = With(acked, number[p], record[p])

\* The attempts are those reported, but for one of whoever holds the lock, alive
\* or crashed, or for a failed undo its caller knows of.
Exact ==
  Clean => \/ bundle.attempts = acked
           \/ \E p \in Procs : lock = p /\ (pc[p] = "crashed" \/ Pending(p))

\* From its execution on, a replay has a record of it.
Comparing == {"snapshot", "commit", "drop", "mirror", "earlier_sums", "scenario_sums",
              "later_sums", "root_sums", "verify", "undo"}

Over == {"release", "ended", "crashed"}

\* When an operation answers, and what a PASS stands on.
Told(p) ==
  /\ result[p] # None => pc[p] \in Over \cup {"drop"}
  /\ pc[p] = "drop" => result[p] \in {"uncommitted", "rename failed"}
  /\ job[p] = "replay" /\ pc[p] \in Comparing => record[p] \in Reports(bundle.original)
  /\ result[p] = "pass" =>
       /\ number[p] \in DOMAIN acked /\ acked[number[p]] = record[p]
       /\ record[p] \in Reports(bundle.original) /\ record[p].ok

TellInv ==
  /\ DOMAIN result = Procs /\ DOMAIN saved = Procs
  /\ Function(acked) /\ Exact
  /\ \A p \in Procs : Told(p)

\* What a step of p leaves alone.
Others(p) ==
  /\ \A q \in Procs \ {p} :
       /\ pc'[q] = pc[q] /\ result'[q] = result[q] /\ number'[q] = number[q]
       /\ record'[q] = record[q] /\ todo'[q] = todo[q]
  /\ job' = job /\ DOMAIN result' = Procs /\ DOMAIN saved' = Procs
  /\ bundle'.original = bundle.original
  /\ lock \in Procs \ {p} => lock' = lock

\* A step that neither commits, reports nor removes an attempt.
Quiet(p) ==
  /\ acked' = acked /\ bundle'.attempts = bundle.attempts
  /\ result[p] = "undo failed" => result'[p] = "undo failed"
  /\ pc[p] = "crashed" \/ Pending(p) =>
       \/ result'[p] = "undo failed"
       \/ lock' = lock /\ (pc'[p] = "crashed" \/ Pending(p)')

\* Every answer but the actor's own stands.
LEMMA TellOthers ==
  ASSUME TellInv, NEW p \in Procs, Others(p), Told(p)', Function(acked'), Exact',
         \A n \in DOMAIN acked : n \in DOMAIN acked' /\ acked'[n] = acked[n]
  PROVE  TellInv'
<1>1. ASSUME NEW q \in Procs PROVE Told(q)'
  <2>1. CASE q = p
    BY <2>1
  <2>2. CASE q # p
    <3>1. /\ pc'[q] = pc[q] /\ result'[q] = result[q] /\ number'[q] = number[q]
          /\ record'[q] = record[q] /\ job' = job /\ bundle'.original = bundle.original
      BY <2>2 DEF Others
    <3>2. Told(q)
      BY DEF TellInv
    <3>3. number[q] \in DOMAIN acked =>
            number[q] \in DOMAIN acked' /\ acked'[number[q]] = acked[number[q]]
      OBVIOUS
    <3> QED
      BY <3>1, <3>2, <3>3, Zenon DEF Told
  <2> QED
    BY <2>1, <2>2
<1> QED
  BY <1>1 DEF TellInv, Others

LEMMA TellQuiet ==
  ASSUME TellInv, NEW p \in Procs, Others(p), Told(p)', Quiet(p)
  PROVE  TellInv'
<1>1. Exact'
  <2> SUFFICES ASSUME Clean', bundle.attempts # acked
               PROVE  \E q \in Procs : lock' = q /\ (pc'[q] = "crashed" \/ Pending(q)')
    BY DEF Exact, Quiet
  <2>1. Clean
    BY DEF Clean, Others, Quiet
  <2>2. PICK q \in Procs : lock = q /\ (pc[q] = "crashed" \/ Pending(q))
    BY <2>1 DEF TellInv, Exact
  <2>3. CASE q = p
    <3>1. result'[p] # "undo failed"
      BY DEF Clean
    <3> QED
      BY <2>2, <2>3, <3>1 DEF Quiet
  <2>4. CASE q # p
    <3>1. lock' = q
      BY <2>2, <2>4 DEF Others
    <3>2. pc[q] = "crashed" => pc'[q] = "crashed"
      BY <2>4 DEF Others
    <3>3. Pending(q) => Pending(q)'
      BY <2>4 DEF Pending, Others, Quiet
    <3> QED
      BY <2>2, <3>1, <3>2, <3>3
  <2> QED
    BY <2>3, <2>4
<1>2. Function(acked')
  BY DEF TellInv, Quiet, Function
<1> QED
  BY <1>1, <1>2, TellOthers DEF Quiet

\* A step of p that answers, or moves on, without touching attempts or record.
Mine(p) ==
  /\ UNCHANGED <<number, record, acked>> /\ bundle'.attempts = bundle.attempts
  /\ pc[p] # "crashed"
  /\ \/ /\ result'[p] = result[p]
        /\ pc'[p] \notin Over => pc[p] \notin Over \cup {"drop"} /\ pc'[p] # "drop"
     \/ pc[p] \notin Over /\ pc'[p] \in Over /\ result'[p] \notin {None, "pass"}
     \/ /\ pc[p] \notin Over /\ pc'[p] = "drop"
        /\ result'[p] \in {"uncommitted", "rename failed"}
  /\ job[p] = "replay" /\ pc'[p] \in Comparing => pc[p] \in Comparing
  /\ job[p] = "replay" /\ pc[p] \in Committed =>
       \/ pc'[p] \in Committed \cup {"crashed"}
       \/ pc'[p] = "undo" /\ todo'[p] = UndoOrder["replay"]
  /\ pc[p] = "undo" => todo[p] = <<>> \/ pc'[p] = "crashed"
  /\ pc[p] \in Committed \cup {"undo"} => lock' = lock

LEMMA TellMine ==
  ASSUME LogInv, TellInv, NEW p \in Procs, Others(p), Mine(p)
  PROVE  TellInv'
<1>1. Told(p) /\ lock \in Procs \cup {lock}
  BY DEF TellInv
<1>2. bundle'.original = bundle.original /\ job' = job
  BY DEF Others
<1>3. (job[p] = "replay" /\ pc[p] \in Comparing => record[p] \in Reports(bundle.original))
      => (job'[p] = "replay" /\ pc'[p] \in Comparing => record'[p] \in Reports(bundle'.original))
  BY <1>2 DEF Mine
<1>4. result'[p] # None => pc'[p] \in Over \cup {"drop"}
  BY <1>1 DEF Told, Mine
<1>5. pc'[p] = "drop" => result'[p] \in {"uncommitted", "rename failed"}
  BY <1>1 DEF Told, Mine, Over
<1>6. result'[p] = "pass" => result[p] = "pass"
  BY DEF Mine
<1>7. result'[p] = "pass" =>
        /\ number'[p] \in DOMAIN acked' /\ acked'[number'[p]] = record'[p]
        /\ record'[p] \in Reports(bundle'.original) /\ record'[p].ok
  BY <1>1, <1>2, <1>6 DEF Told, Mine
<1>8. Told(p)'
  BY <1>1, <1>3, <1>4, <1>5, <1>7 DEF Told
<1>9. Quiet(p)
  <2>1. result[p] = "undo failed" => result'[p] = "undo failed"
    BY <1>1 DEF Mine, Told, None, Over
  <2>2. Pending(p) => lock' = lock /\ (pc'[p] = "crashed" \/ Pending(p)')
    <3> SUFFICES ASSUME Pending(p)
                 PROVE  lock' = lock /\ (pc'[p] = "crashed" \/ Pending(p)')
      OBVIOUS
    <3>1. todo[p] = UndoOrder["replay"] => todo[p] # <<>>
      BY DEF UndoOrder
    <3>2. \/ pc'[p] \in Committed \cup {"crashed"}
          \/ pc'[p] = "undo" /\ todo'[p] = UndoOrder["replay"]
      BY <3>1 DEF Pending, Mine
    <3>3. bundle'.attempts = With(acked', number'[p], record'[p]) /\ job'[p] = "replay"
      BY <1>2 DEF Pending, Mine
    <3> QED
      BY <3>2, <3>3 DEF Pending, Mine
  <2> QED
    BY <2>1, <2>2 DEF Quiet, Mine
<1> QED
  BY <1>8, <1>9, TellQuiet

\* Where the actor holds the lock, it is the only one who can have a pending attempt.
LEMMA ExactHere ==
  ASSUME LogInv, TellInv, Clean, NEW p \in Procs, pc[p] \in Inside, ~Pending(p)
  PROVE  bundle.attempts = acked
<1>1. lock = p /\ pc[p] # "crashed"
  BY DEF LogInv, LockExcludes, Inside
<1> QED
  BY <1>1 DEF TellInv, Exact

\* An attempt added and removed again leaves nothing.
LEMMA WithWithout ==
  ASSUME NEW f, Function(f), NEW n, n \notin DOMAIN f, NEW r
  PROVE  /\ Without(With(f, n, r), n) = f
         /\ Without(f, n) = f
<1>1. DOMAIN With(f, n, r) = DOMAIN f \cup {n}
      /\ \A i \in DOMAIN f : With(f, n, r)[i] = f[i]
  BY DEF With
<1>2. Without(With(f, n, r), n) = [i \in DOMAIN f |-> f[i]]
  BY <1>1 DEF Without
<1>3. Without(f, n) = [i \in DOMAIN f |-> f[i]]
  BY DEF Without
<1> QED
  BY <1>2, <1>3 DEF Function

\* Every step keeps what operations have told true.
LEMMA TellStep ==
  ASSUME LogInv, TellInv, LogInv', [Next]_vars
  PROVE  TellInv'
<1>0. /\ Shape /\ Shape' /\ \A p \in Procs : Own(p) /\ Told(p)
      /\ DOMAIN result = Procs /\ DOMAIN saved = Procs /\ Function(acked)
  BY DEF LogInv, Ownership, TellInv
<1>1. ASSUME NEW p \in Procs, VerifyFirst(p) PROVE TellInv'
  <2>0. /\ pc[p] = "start" /\ UNCHANGED <<number, record, acked>>
        /\ job' = job /\ bundle'.attempts = bundle.attempts
        /\ lock' = lock
        /\ \/ pc'[p] = "lock" /\ result'[p] = result[p]
           \/ pc'[p] = "ended" /\ result'[p] = "refused"
    <3>1. CASE verify_run_root(bundle)
      BY <1>0, <1>1, <3>1 DEF VerifyFirst, Move, Tell, Shape
    <3>2. CASE ~(verify_run_root(bundle))
      BY <1>0, <1>1, <3>2 DEF VerifyFirst, Move, Tell, Shape
    <3> QED
      BY <3>1, <3>2
  <2>1. Others(p)
    BY <1>0, <1>1, <2>0 DEF VerifyFirst, Others, Move, Tell, Shape, BundleFields
  <2>2. Mine(p)
    BY <1>0, <2>0 DEF Mine, Told, ReportOnly, Over, Comparing, Committed, None
  <2> QED
    BY <2>1, <2>2, TellMine
<1>2. ASSUME NEW p \in Procs, Acquire(p) PROVE TellInv'
  <2>0. /\ pc[p] = "lock" /\ UNCHANGED <<number, record, acked>>
        /\ job' = job /\ bundle'.attempts = bundle.attempts
        /\ \/ pc'[p] = "locked" /\ result'[p] = result[p] /\ lock = None
           \/ pc'[p] = "ended" /\ result'[p] = "refused" /\ lock' = lock
    <3>1. CASE lock = None
      BY <1>0, <1>2, <3>1 DEF Acquire, Move, Tell, Shape
    <3>2. CASE ~(lock = None)
      BY <1>0, <1>2, <3>2 DEF Acquire, Move, Tell, Shape
    <3> QED
      BY <3>1, <3>2
  <2>1. Others(p)
    BY <1>0, <1>2, OpsAssumption, <2>0 DEF Acquire, Others, Move, Tell, Shape, BundleFields
  <2>2. Mine(p)
    BY <1>0, <2>0 DEF Mine, Told, ReportOnly, Over, Comparing, Committed, None
  <2> QED
    BY <2>1, <2>2, TellMine
<1>3. ASSUME NEW p \in Procs, VerifyLocked(p) PROVE TellInv'
  <2>0. /\ pc[p] = "locked" /\ UNCHANGED <<number, record, acked>>
        /\ job' = job /\ bundle'.attempts = bundle.attempts
        /\ lock' = lock
        /\ \/ pc'[p] \in {"prepare", "snapshot"} /\ job[p] # "read" /\ result'[p] = result[p]
             /\ (pc'[p] = "snapshot" => job[p] = "report")
           \/ pc'[p] = "release" /\ result'[p] \in {"read", "refused"}
    <3>1. CASE verify_run_root(bundle)
      BY <1>0, <1>3, <3>1 DEF VerifyLocked, AfterLoad, Move, Tell, Shape
    <3>2. CASE ~(verify_run_root(bundle))
      BY <1>0, <1>3, <3>2 DEF VerifyLocked, AfterLoad, Move, Tell, Shape
    <3> QED
      BY <3>1, <3>2
  <2>1. Others(p)
    BY <1>0, <1>3, <2>0 DEF VerifyLocked, AfterLoad, Others, Move, Tell, Shape, BundleFields
  <2>2. Mine(p)
    BY <1>0, <2>0 DEF Mine, Told, ReportOnly, Over, Comparing, Committed, None
  <2> QED
    BY <2>1, <2>2, TellMine
<1>4. ASSUME NEW p \in Procs, Refuse(p) PROVE TellInv'
  <2>1. Others(p)
    BY <1>0, <1>4 DEF Refuse, Others, Move, Tell, Shape, BundleFields,
       LogInv, LockExcludes, Inside
  <2>2. Mine(p)
    BY <1>0, <1>4 DEF Refuse, Mine, Told, Own, Move, Tell, Shape, ReportOnly, Over,
       Comparing, Committed, BundleFields, None
  <2> QED
    BY <2>1, <2>2, TellMine
<1>5. ASSUME NEW p \in Procs, Release(p) PROVE TellInv'
  <2>1. Others(p)
    BY <1>0, <1>5 DEF Release, Others, Move, Tell, Shape, BundleFields,
       LogInv, LockExcludes, Inside
  <2>2. Mine(p)
    BY <1>0, <1>5 DEF Release, Mine, Told, Own, Move, Tell, Shape, ReportOnly, Over,
       Comparing, Committed, BundleFields, None
  <2> QED
    BY <2>1, <2>2, TellMine
<1>6. ASSUME NEW p \in Procs, Prepare(p) PROVE TellInv'
  <2>0. /\ pc[p] = "prepare" /\ UNCHANGED <<number, record, acked>>
        /\ job' = job /\ bundle'.attempts = bundle.attempts
        /\ lock' = lock
        /\ \/ pc'[p] = "reserve" /\ result'[p] = result[p]
           \/ pc'[p] = "release" /\ result'[p] = "refused"
    <3>1. CASE verify_run_root(bundle)
      BY <1>0, <1>6, <3>1 DEF Prepare, Move, Tell, Shape
    <3>2. CASE ~(verify_run_root(bundle))
      BY <1>0, <1>6, <3>2 DEF Prepare, Move, Tell, Shape
    <3> QED
      BY <3>1, <3>2
  <2>1. Others(p)
    BY <1>0, <1>6, <2>0 DEF Prepare, Others, Move, Tell, Shape, BundleFields
  <2>2. Mine(p)
    BY <1>0, <2>0 DEF Mine, Told, ReportOnly, Over, Comparing, Committed, None
  <2> QED
    BY <2>1, <2>2, TellMine
<1>9. ASSUME NEW p \in Procs, Snapshot(p) PROVE TellInv'
  <2>0. /\ pc[p] = "snapshot" /\ UNCHANGED <<number, record, acked>>
        /\ job' = job /\ bundle'.attempts = bundle.attempts
        /\ lock' = lock
        /\ \/ pc'[p] = "commit" /\ result'[p] = result[p]
           \/ pc'[p] = "report" /\ result'[p] = result[p]
    <3>1. CASE job[p] = "replay"
      BY <1>0, <1>9, <3>1 DEF Snapshot, AfterSnapshot, Own, Working, Move, Tell, Shape
    <3>2. CASE ~(job[p] = "replay")
      BY <1>0, <1>9, <3>2 DEF Snapshot, AfterSnapshot, Own, Working, Move, Tell, Shape
    <3> QED
      BY <3>1, <3>2
  <2>1. Others(p)
    BY <1>0, <1>9, <2>0 DEF Snapshot, AfterSnapshot, Others, Move, Tell, Shape, BundleFields
  <2>2. Mine(p)
    BY <1>0, <2>0 DEF Mine, Told, ReportOnly, Over, Comparing, Committed, None
  <2> QED
    BY <2>1, <2>2, TellMine
<1>10. ASSUME NEW p \in Procs, DropStaging(p) PROVE TellInv'
  <2>1. Others(p)
    BY <1>0, <1>10 DEF DropStaging, Others, Move, Tell, Shape, BundleFields,
       LogInv, LockExcludes, Inside
  <2>2. Mine(p)
    BY <1>0, <1>10 DEF DropStaging, Mine, Told, Own, Move, Tell, Shape, ReportOnly, Over,
       Comparing, Committed, BundleFields, None
  <2> QED
    BY <2>1, <2>2, TellMine
<1>11. ASSUME NEW p \in Procs, WriteMirror(p) PROVE TellInv'
  <2>1. Others(p)
    BY <1>0, <1>11 DEF WriteMirror, Others, Move, Tell, Shape, BundleFields,
       LogInv, LockExcludes, Inside
  <2>2. Mine(p)
    BY <1>0, <1>11 DEF WriteMirror, Mine, Told, Own, Move, Tell, Shape, ReportOnly, Over,
       Comparing, Committed, BundleFields, None
  <2> QED
    BY <2>1, <2>2, TellMine
<1>12. ASSUME NEW p \in Procs, WriteReport(p) PROVE TellInv'
  <2>1. Others(p)
    BY <1>0, <1>12 DEF WriteReport, Others, Move, Tell, Shape, BundleFields,
       LogInv, LockExcludes, Inside
  <2>2. Mine(p)
    BY <1>0, <1>12 DEF WriteReport, Mine, Told, Own, Move, Tell, Shape, ReportOnly, Over,
       Comparing, Committed, BundleFields, None
  <2> QED
    BY <2>1, <2>2, TellMine
<1>13. ASSUME NEW p \in Procs, CheckReport(p) PROVE TellInv'
  <2>1. Others(p)
    BY <1>0, <1>13 DEF CheckReport, Fail, Others, Move, Tell, Shape, BundleFields,
       LogInv, LockExcludes, Inside
  <2>2. Mine(p)
    BY <1>0, <1>13 DEF CheckReport, Fail, Mine, Told, Own, Move, Tell, Shape, ReportOnly, Over,
       Comparing, Committed, BundleFields, None
  <2> QED
    BY <2>1, <2>2, TellMine
<1>14. ASSUME NEW p \in Procs, SumScenario(p) PROVE TellInv'
  <2>0. /\ pc[p] = "scenario_sums" /\ UNCHANGED <<number, record, acked>>
        /\ job' = job /\ bundle'.attempts = bundle.attempts
        /\ lock' = lock
        /\ \/ pc'[p] = "later_sums" /\ result'[p] = result[p]
           \/ pc'[p] = "undo" /\ result'[p] = result[p] /\ todo'[p] = UndoOrder[job[p]]
    <3>1. CASE bundle.staging = {}
      BY <1>0, <1>14, <3>1 DEF SumScenario, Fail, BundleFields, Move, Tell, Shape
    <3>2. CASE ~(bundle.staging = {})
      BY <1>0, <1>14, <3>2 DEF SumScenario, Fail, BundleFields, Move, Tell, Shape
    <3> QED
      BY <3>1, <3>2
  <2>1. Others(p)
    BY <1>0, <1>14, <2>0 DEF SumScenario, Fail, Others, Move, Tell, Shape, BundleFields
  <2>2. Mine(p)
    BY <1>0, <2>0 DEF Mine, Told, ReportOnly, Over, Comparing, Committed, None
  <2> QED
    BY <2>1, <2>2, TellMine
<1>28. ASSUME NEW p \in Procs, SumOther(p) PROVE TellInv'
  <2>0. /\ UNCHANGED <<lock, number, record, acked>> /\ result'[p] = result[p]
        /\ job' = job /\ bundle'.attempts = bundle.attempts
        /\ \/ pc[p] = "earlier_sums" /\ pc'[p] = "scenario_sums"
           \/ pc[p] = "later_sums" /\ pc'[p] = "root_sums"
    BY <1>0, <1>28 DEF SumOther, OtherSums, AfterOther, BundleFields, Move, Shape
  <2>1. Others(p)
    BY <1>0, <1>28, <2>0 DEF SumOther, OtherSums, Others, Move, Shape, BundleFields
  <2>2. Mine(p)
    BY <1>0, <2>0 DEF Mine, Told, ReportOnly, Over, Comparing, Committed, None
  <2> QED
    BY <2>1, <2>2, TellMine
<1>15. ASSUME NEW p \in Procs, SumRun(p) PROVE TellInv'
  <2>1. Others(p)
    BY <1>0, <1>15 DEF SumRun, Others, Move, Tell, Shape, BundleFields,
       LogInv, LockExcludes, Inside
  <2>2. Mine(p)
    BY <1>0, <1>15 DEF SumRun, Mine, Told, Own, Move, Tell, Shape, ReportOnly, Over,
       Comparing, Committed, BundleFields, None
  <2> QED
    BY <2>1, <2>2, TellMine
<1>16. ASSUME NEW p \in Procs, UndoVerify(p) PROVE TellInv'
  <2>1. Others(p)
    BY <1>0, <1>16 DEF UndoVerify, Others, Move, Tell, Shape, BundleFields,
       LogInv, LockExcludes, Inside
  <2>2. Mine(p)
    BY <1>0, <1>16 DEF UndoVerify, Mine, Told, Own, Move, Tell, Shape, ReportOnly, Over,
       Comparing, Committed, BundleFields, None
  <2> QED
    BY <2>1, <2>2, TellMine
<1>17. ASSUME NEW p \in Procs, SnapshotFails(p) PROVE TellInv'
  <2>1. Others(p)
    BY <1>0, <1>17 DEF SnapshotFails, Fault, Others, Move, Tell, Shape, BundleFields,
       LogInv, LockExcludes, Inside
  <2>2. Mine(p)
    BY <1>0, <1>17 DEF SnapshotFails, Fault, Mine, Told, Own, Move, Tell, Shape, ReportOnly, Over,
       Comparing, Committed, BundleFields, None
  <2> QED
    BY <2>1, <2>2, TellMine
<1>18. ASSUME NEW p \in Procs, RenameFails(p) PROVE TellInv'
  <2>1. Others(p)
    BY <1>0, <1>18 DEF RenameFails, Fault, Others, Move, Tell, Shape, BundleFields,
       LogInv, LockExcludes, Inside
  <2>2. Mine(p)
    BY <1>0, <1>18 DEF RenameFails, Fault, Mine, Told, Own, Move, Tell, Shape, ReportOnly, Over,
       Comparing, Committed, BundleFields, None
  <2> QED
    BY <2>1, <2>2, TellMine
<1>19. ASSUME NEW p \in Procs, DropFails(p) PROVE TellInv'
  <2>1. Others(p)
    BY <1>0, <1>19 DEF DropFails, Fault, Others, Move, Tell, Shape, BundleFields,
       LogInv, LockExcludes, Inside
  <2>2. Mine(p)
    BY <1>0, <1>19 DEF DropFails, Fault, Mine, Told, Own, Move, Tell, Shape, ReportOnly, Over,
       Comparing, Committed, BundleFields, None
  <2> QED
    BY <2>1, <2>2, TellMine
<1>20. ASSUME NEW p \in Procs, WriteFails(p) PROVE TellInv'
  <2>1. Others(p)
    BY <1>0, <1>20 DEF WriteFails, Fail, Damaged, Written, Fault, Others, Move, Tell, Shape,
       BundleFields, LogInv, LockExcludes, Inside
  <2>2. Mine(p)
    BY <1>0, <1>20 DEF WriteFails, Fail, Damaged, Written, Fault, Mine, Told, Own, Move, Tell,
       Shape, ReportOnly, Over, Comparing, Committed, BundleFields, None
  <2> QED
    BY <2>1, <2>2, TellMine
<1>21. ASSUME NEW p \in Procs, CheckFails(p) PROVE TellInv'
  <2>1. Others(p)
    BY <1>0, <1>21 DEF CheckFails, Fail, Fault, Others, Move, Tell, Shape, BundleFields,
       LogInv, LockExcludes, Inside
  <2>2. Mine(p)
    BY <1>0, <1>21 DEF CheckFails, Fail, Fault, Mine, Told, Own, Move, Tell, Shape, ReportOnly,
       Over, Comparing, Committed, BundleFields, None
  <2> QED
    BY <2>1, <2>2, TellMine
<1>22. ASSUME NEW p \in Procs, ReleaseFails(p) PROVE TellInv'
  <2>1. Others(p)
    BY <1>0, <1>22 DEF ReleaseFails, Fault, Others, Move, Tell, Shape, BundleFields,
       LogInv, LockExcludes, Inside
  <2>2. Mine(p)
    BY <1>0, <1>22 DEF ReleaseFails, Fault, Mine, Told, Own, Move, Tell, Shape, ReportOnly, Over,
       Comparing, Committed, BundleFields, None
  <2> QED
    BY <2>1, <2>2, TellMine
<1>23. ASSUME NEW p \in Procs, Crash(p) PROVE TellInv'
  <2>1. Others(p)
    BY <1>0, <1>23 DEF Crash, Fault, Others, Move, Tell, Shape, BundleFields,
       LogInv, LockExcludes, Inside
  <2>2. Mine(p)
    BY <1>0, <1>23 DEF Crash, Fault, Mine, Told, Own, Move, Tell, Shape, ReportOnly, Over,
       Comparing, Committed, BundleFields, None
  <2> QED
    BY <2>1, <2>2, TellMine
<1>7. ASSUME NEW p \in Procs, Reserve(p) PROVE TellInv'
  <2>1. Others(p)
    BY <1>0, <1>7 DEF Reserve, Others, Move, Tell, Shape, BundleFields,
       LogInv, LockExcludes, Inside
  <2>2. /\ pc[p] = "reserve" /\ UNCHANGED <<record, acked>>
        /\ bundle'.attempts = bundle.attempts /\ result[p] = None
    BY <1>0, <1>7 DEF Reserve, Told, Over, Shape, BundleFields
  <2>3. CASE bundle.staging = {} /\ Contiguous(bundle)
    <3>1. pc'[p] = "execute" /\ result'[p] = None
      BY <1>0, <1>7, <2>2, <2>3 DEF Reserve, Move, Shape
    <3>2. Told(p)'
      BY <3>1 DEF Told, Comparing, Over, None
    <3>3. Quiet(p)
      BY <2>2, <3>1 DEF Quiet, Pending, Committed, None
    <3> QED
      BY <2>1, <3>2, <3>3, TellQuiet
  <2>4. CASE ~(bundle.staging = {} /\ Contiguous(bundle))
    <3>1. pc'[p] = "release" /\ result'[p] = "refused"
      BY <1>0, <1>7, <2>2, <2>4 DEF Reserve, Move, Tell, Shape
    <3>2. Told(p)'
      BY <3>1 DEF Told, Comparing, Over, None
    <3>3. Quiet(p)
      BY <2>2, <3>1 DEF Quiet, Pending, Committed, None
    <3> QED
      BY <2>1, <3>2, <3>3, TellQuiet
  <2> QED
    BY <2>3, <2>4
<1>8. ASSUME NEW p \in Procs, Execute(p) PROVE TellInv'
  <2>1. Others(p)
    BY <1>0, <1>8 DEF Execute, Others, Move, Tell, Shape, BundleFields,
       LogInv, LockExcludes, Inside
  <2>2. Told(p)'
    BY <1>0, <1>8 DEF Execute, Told, Move, Tell, Shape, Own, ReplayOnly, Over,
       Comparing, BundleFields, None
  <2>3. Quiet(p)
    BY <1>0, <1>8 DEF Execute, Quiet, Pending, Told, Over, Move, Tell, Shape,
       Own, ReportOnly, Committed, BundleFields, None, LogInv, LockExcludes, Inside
  <2> QED
    BY <2>1, <2>2, <2>3, TellQuiet
<1>24. ASSUME NEW p \in Procs, Commit(p) PROVE TellInv'
  <2>1. Others(p)
    BY <1>0, <1>24 DEF Commit, Others, Move, Tell, Shape, BundleFields, LogInv,
       LockExcludes, Inside
  <2>2. Told(p)'
    BY <1>0, <1>24 DEF Commit, Told, Move, Tell, Shape, Own, ReplayOnly, Over,
       Comparing, BundleFields, None
  <2>3. CASE number[p] \in DOMAIN bundle.attempts
    <3>1. Quiet(p)
      BY <1>0, <1>24, <2>3 DEF Commit, Quiet, Pending, Told, Over, Move, Tell, Shape,
         Committed, None
    <3> QED
      BY <2>1, <2>2, <3>1, TellQuiet
  <2>4. CASE number[p] \notin DOMAIN bundle.attempts
    <3>1. /\ bundle'.attempts = With(bundle.attempts, number[p], record[p])
          /\ pc'[p] = "mirror" /\ pc[p] = "commit" /\ job[p] = "replay"
          /\ UNCHANGED <<lock, job, number, record, result, acked>>
      BY <1>0, <1>24, <2>4 DEF Commit, Move, Shape, BundleFields, Own, ReplayOnly
    <3>2. lock = p /\ ~Pending(p) /\ pc[p] \in Inside
      BY <3>1 DEF LogInv, LockExcludes, Inside, Pending, Committed
    <3>3. Clean' => bundle.attempts = acked
      BY <3>1, <3>2, ExactHere DEF Clean
    <3>4. Clean' => Pending(p)'
      BY <3>1, <3>3 DEF Pending, Committed
    <3>5. Exact'
      BY <3>1, <3>2, <3>4 DEF Exact
    <3> QED
      BY <1>0, <2>1, <2>2, <3>1, <3>5, TellOthers DEF Function
  <2> QED
    BY <2>3, <2>4
<1>25. ASSUME NEW p \in Procs, PostVerify(p) PROVE TellInv'
  <2>0. pc[p] = "verify" /\ number[p] \notin DOMAIN acked /\ lock = p /\ result[p] = None
    BY <1>0, <1>25 DEF PostVerify, Own, Working, Told, Over, LogInv, LockExcludes, Inside
  <2>1. Others(p)
    BY <1>0, <1>25 DEF PostVerify, Fail, Others, Move, Tell, Shape
  <2>2. CASE verify_run_root(bundle) /\ job[p] = "replay"
    <3>1. /\ acked' = With(acked, number[p], record[p]) /\ bundle' = bundle
          /\ pc'[p] = "release" /\ result'[p] = Outcome(p)
          /\ UNCHANGED <<lock, job, number, record>>
      BY <1>0, <1>25, <2>2 DEF PostVerify, Move, Tell, Shape
    <3>2. record[p] \in Reports(bundle.original) /\ (result'[p] = "pass" => record[p].ok)
      BY <1>0, <2>0, <2>2, <3>1 DEF Told, Comparing, Outcome
    <3>3. /\ number[p] \in DOMAIN acked' /\ acked'[number[p]] = record[p]
          /\ \A n \in DOMAIN acked : n \in DOMAIN acked' /\ acked'[n] = acked[n]
      BY <2>0, <3>1 DEF With
    <3>4. Told(p)'
      BY <3>1, <3>2, <3>3 DEF Told, Over
    <3>5. Function(acked')
      BY <3>1 DEF Function, With
    <3>6. Exact'
      <4> SUFFICES ASSUME Clean' PROVE bundle'.attempts = acked'
        BY DEF Exact
      <4>1. Clean
        BY <2>0, <2>1 DEF Clean, Others, None
      <4>2. CASE Pending(p)
        BY <3>1, <4>2 DEF Pending
      <4>3. CASE ~Pending(p)
        <5>1. bundle.attempts = acked
          BY <2>0, <4>1, <4>3, ExactHere DEF Inside
        <5>2. number[p] \in DOMAIN bundle.attempts
          BY <1>0, <2>0, <2>2 DEF Own, Committed
        <5> QED
          BY <2>0, <5>1, <5>2
      <4> QED
        BY <4>2, <4>3
    <3> QED
      BY <2>1, <3>3, <3>4, <3>5, <3>6, TellOthers
  <2>3. CASE verify_run_root(bundle) /\ job[p] = "report"
    <3>1. /\ pc'[p] = "release" /\ result'[p] = "rendered"
          /\ UNCHANGED <<bundle, lock, job, number, record, acked>>
      BY <1>0, <1>25, <2>3 DEF PostVerify, Outcome, Move, Tell, Shape
    <3>2. Mine(p)
      BY <2>0, <2>3, <3>1 DEF Mine, Over, Comparing, None
    <3> QED
      BY <2>1, <3>2, TellMine
  <2>4. CASE ~verify_run_root(bundle)
    <3>1. /\ pc'[p] = "undo" /\ result'[p] = result[p]
          /\ todo'[p] = UndoOrder[job[p]]
          /\ UNCHANGED <<bundle, lock, job, number, record, acked>>
      BY <1>0, <1>25, <2>4 DEF PostVerify, Fail, Move, Shape
    <3>2. Mine(p)
      BY <2>0, <3>1 DEF Mine, Over, Comparing, None
    <3> QED
      BY <2>1, <3>2, TellMine
  <2> QED
    BY <1>0, <2>0, <2>2, <2>3, <2>4 DEF Shape, Own, Working
<1>26. ASSUME NEW p \in Procs, Undo(p) PROVE TellInv'
  <2>0. /\ pc[p] = "undo" /\ number[p] \notin DOMAIN acked /\ lock = p /\ todo[p] # <<>>
        /\ todo[p] \in Seq(Files) /\ Head(todo[p]) \in Files
        /\ UNCHANGED <<lock, pc, job, number, record, saved, result, acked>>
    BY <1>0, <1>26 DEF Undo, Own, Working, Shape, LogInv, LockExcludes, Inside
  <2>1. Others(p)
    BY <1>0, <1>26, <2>0 DEF Undo, Others, Shape, Files, BundleFields
  <2>2. bundle'.original = bundle.original
    BY <2>1 DEF Others
  <2>3. Told(p)'
    BY <1>0, <2>0, <2>2 DEF Told
  <2>4. Exact'
    <3> SUFFICES ASSUME Clean' PROVE bundle'.attempts = acked'
      BY DEF Exact
    <3>1. Clean
      BY <2>0 DEF Clean
    <3>2. bundle.attempts \in {acked, With(acked, number[p], record[p])}
      BY <2>0, <3>1, ExactHere DEF Inside, Pending
    <3>3. CASE Head(todo[p]) = "attempts"
      <4>1. bundle'.attempts = Without(bundle.attempts, number[p])
        BY <1>0, <1>26, <3>3 DEF Undo, Restored, Shape, BundleFields
      <4> QED
        BY <1>0, <2>0, <3>2, <4>1, WithWithout
    <3>4. CASE Head(todo[p]) # "attempts"
      <4>1. bundle'.attempts = bundle.attempts
        BY <1>0, <1>26, <2>0, <3>4 DEF Undo, Shape, BundleFields
      <4>2. ~Pending(p)
        BY <3>4, <2>0 DEF Pending, UndoOrder, Committed
      <4> QED
        BY <2>0, <3>1, <4>1, <4>2, ExactHere DEF Inside
    <3> QED
      BY <3>3, <3>4
  <2> QED
    BY <1>0, <2>0, <2>1, <2>3, <2>4, TellOthers DEF Function
<1>27. ASSUME NEW p \in Procs, UndoFails(p) PROVE TellInv'
  <2>0. /\ pc'[p] = "release" /\ result'[p] = "undo failed"
        /\ UNCHANGED <<lock, job, number, record, saved, acked>>
    BY <1>0, <1>27 DEF UndoFails, Move, Tell, Shape
  <2>1. Others(p)
    <3>1. todo[p] # <<>> => Head(todo[p]) \in Files
      BY <1>0 DEF Shape
    <3>2. bundle'.original = bundle.original
      BY <1>0, <1>27, <3>1 DEF UndoFails, Damaged, HalfRemoved, Files, BundleFields, Shape
    <3> QED
      BY <1>0, <1>27, <3>2 DEF UndoFails, Others, Move, Tell, Shape
  <2>2. Told(p)'
    BY <2>0 DEF Told, Over, Comparing
  <2>3. Exact'
    BY <2>0 DEF Exact, Clean
  <2> QED
    BY <1>0, <2>0, <2>1, <2>2, <2>3, TellOthers DEF Function
<1>30. CASE FinishScan
  <2>1. bundle'.attempts = bundle.attempts /\ bundle'.original = bundle.original
    BY <1>0, <1>30 DEF FinishScan, FinishClaims, FinishSumOther, OtherSums,
       FinishSumScenario, FinishSumRun, FinishVerify, Finish, Shape, BundleFields
  <2>2. UNCHANGED <<lock, pc, job, number, record, saved, todo, result, acked>>
    BY <1>30 DEF FinishScan, FinishClaims, FinishSumOther, OtherSums,
       FinishSumScenario, FinishSumRun, FinishVerify, Finish
  <2> QED
    BY <2>1, <2>2 DEF TellInv, Exact, Clean, Pending, Told, Function
<1>31. CASE UNCHANGED vars
  BY <1>31 DEF vars, TellInv, Exact, Clean, Pending, Told, Function
<1> QED
  BY <1>1, <1>2, <1>3, <1>4, <1>5, <1>6, <1>7, <1>8, <1>9, <1>10, <1>11, <1>12, <1>13, <1>14,
     <1>15, <1>16, <1>17, <1>18, <1>19, <1>20, <1>21, <1>22, <1>23, <1>24, <1>25, <1>26, <1>27,
     <1>28, <1>30, <1>31 DEF Next, Step, FaultStep

LEMMA TellInit ==
  ASSUME Init
  PROVE  TellInv
<1>1. Function(acked)
  BY DEF Init, NoAttempts, Function
<1>2. Exact
  BY DEF Init, Sealed, Exact
<1>3. \A p \in Procs : Told(p)
  BY DEF Init, Told, Comparing, None
<1> QED
  BY <1>1, <1>2, <1>3 DEF Init, TellInv

LEMMA TellCorrect == Spec => [](LogInv /\ TellInv)
<1>1. Init => TellInv
  BY TellInit
<1>2. LogInv /\ TellInv /\ LogInv' /\ [Next]_vars => TellInv'
  BY TellStep
<1> QED
  BY <1>1, <1>2, LogInit, LogStep, PTL DEF Spec

\* In an unlocked bundle every attempt was reported as such, however many
\* operations, faults and crashes came before and whatever the scan rewrote,
\* unless somebody was told that an undo failed.
THEOREM RemainCorrect == Spec => []OnlyAckedRemain
<1>1. LogInv /\ TellInv => OnlyAckedRemain
  BY OpsAssumption DEF TellInv, Exact, Clean, OnlyAckedRemain
<1> QED
  BY <1>1, TellCorrect, PTL

\* What a comparison that succeeds has compared.
LEMMA ReportOk ==
  ASSUME NEW o, NEW r \in Reports(o), r.ok
  PROVE  /\ r.phase = "test" /\ ~r.error
         /\ r.replay_exit = o.exit_code /\ r.timed_out = o.timed_out
         /\ r.replay_signature = o.hash
<1>1. PICK raw \in RawResults : r = Compared(o, raw)
  BY DEF Reports, Failed, Report
<1>2. exit_match(o, raw) /\ signature_match(o, raw)
  BY <1>1, Zenon DEF Compared, Report
<1> QED
  BY <1>1, <1>2 DEF Compared, Report, exit_match, signature_match

\* Whoever was told PASS finds a matching test execution in the bundle for good.
THEOREM PassCorrect == Spec => []PassIsWitnessed
<1>1. LogInv /\ TellInv => PassIsWitnessed
  <2> SUFFICES ASSUME LogInv, TellInv, NEW p \in Procs, result[p] = "pass"
               PROVE  /\ number[p] \in DOMAIN bundle.attempts
                      /\ LET a == bundle.attempts[number[p]]
                             o == bundle.original
                         IN  /\ a.phase = "test" /\ ~a.error
                             /\ a.replay_exit = o.exit_code /\ a.timed_out = o.timed_out
                             /\ a.replay_signature = o.hash
    BY DEF PassIsWitnessed
  <2>1. /\ number[p] \in DOMAIN acked /\ acked[number[p]] = record[p]
        /\ record[p] \in Reports(bundle.original) /\ record[p].ok
    BY DEF TellInv, Told
  <2>2. number[p] \in DOMAIN bundle.attempts /\ bundle.attempts[number[p]] = record[p]
    BY <2>1 DEF LogInv, AckedSurvive
  <2> QED
    BY <2>1, <2>2, ReportOk
<1> QED
  BY <1>1, TellCorrect, PTL

-----------------------------------------------------------------------------
(* The bundle itself, once the scan that made it has finished.             *)

\* What verify_run_root asks of everything but the staging directories.
Core(b) ==
  /\ Contiguous(b)
  /\ \A n \in DOMAIN b.attempts : AttemptAccepted(b.original, b.attempts[n])
  /\ b.mirror = Latest(b)
  /\ b.scenario_sums = ScenarioFiles(b)
  /\ b.earlier_sums = OtherFiles /\ b.later_sums = OtherFiles
  /\ b.root_sums = RunFiles(b)

Rec(b) == b = [f \in BundleFields |-> b[f]]

\* What an unlocked bundle is after at most one fault.
Healthy == faults > 1 \/ ~Clean \/ verify_run_root(bundle)

\* The files an undo has yet to restore.
Left(p) == {todo[p][i] : i \in DOMAIN todo[p]}

\* A bundle that verified, and the directory a replay has reserved in it.
Reservation(p) ==
  /\ bundle.staging = {number[p]} /\ number[p] \in Nat \ {0}
  /\ Core(bundle) /\ DOMAIN bundle.attempts = 1..(number[p] - 1)

\* Where an operation has written and neither answered nor been told to stop.
Dirty == {"mirror", "check", "earlier_sums", "scenario_sums", "later_sums", "root_sums",
          "verify", "undo"}

\* What the undo of an operation forgets.
Forgotten(p) == IF job[p] = "replay" THEN OtherSums ELSE {}

\* What the bundle is then, compared with what it was before the first write.
Transaction(p) ==
  /\ bundle.staging = {} /\ Core(was[p]) /\ Rec(was[p]) /\ Function(was[p].attempts)
  /\ bundle.original = was[p].original /\ bundle.claims = was[p].claims
  /\ job[p] = "replay" =>
       /\ number[p] \in Nat \ {0} /\ DOMAIN was[p].attempts = 1..(number[p] - 1)
       /\ bundle.report = was[p].report
       /\ \/ pc[p] = "undo" /\ bundle.attempts = was[p].attempts
          \/ bundle.attempts = With(was[p].attempts, number[p], record[p])
  /\ job[p] = "report" =>
       bundle.attempts = was[p].attempts /\ bundle.mirror = was[p].mirror

\* How far the transaction has got, forwards and backwards.
Progress(p) ==
  /\ job[p] = "replay"
       /\ pc[p] \in {"earlier_sums", "scenario_sums", "later_sums", "root_sums", "verify"} =>
       bundle.mirror = record[p]
  /\ pc[p] \in {"scenario_sums", "later_sums", "root_sums", "verify"} =>
       bundle.earlier_sums = OtherFiles
  /\ pc[p] \in {"later_sums", "root_sums", "verify"} =>
       bundle.scenario_sums = ScenarioFiles(bundle)
  /\ pc[p] \in {"root_sums", "verify"} => bundle.later_sums = OtherFiles
  /\ pc[p] = "verify" => bundle.root_sums = RunFiles(bundle)
  /\ pc[p] = "undo" =>
       \A f \in Files \ (Left(p) \cup Forgotten(p)) : bundle[f] = was[p][f]

\* What the caller of a failed operation finds.
Undone(p) ==
  /\ bundle.staging = {} /\ Rec(was[p])
  /\ \A f \in BundleFields \ {"staging"} : bundle[f] = was[p][f]

\* The bundle as the operation that holds the lock finds it.
Stage(p) ==
  /\ pc[p] \in {"locked", "release"} => Healthy
  /\ pc[p] \in {"prepare", "reserve"} => verify_run_root(bundle)
  /\ job[p] = "report" /\ pc[p] \in {"snapshot", "report"} => verify_run_root(bundle)
  /\ job[p] = "replay" /\ pc[p] \in {"execute", "snapshot", "commit", "drop"} =>
       Reservation(p)
  /\ pc[p] = "drop" => faults >= 1
  /\ pc[p] \in {"commit", "report"} => was[p] = bundle
  /\ pc[p] \in Dirty => Transaction(p) /\ Progress(p)
  /\ pc[p] = "release" /\ result[p] = "failed" => Undone(p)

\* Without faults, only an engine error of the tests goes unrecorded.
Noted(p) ==
  /\ (pc[p] \in {"start", "lock", "locked", "prepare", "reserve"} \/ job[p] # "replay") =>
       record[p] = Absent
  /\ job[p] = "replay" /\ pc[p] = "undo" /\ faults = 0 =>
       record[p] = Failed("test", FALSE)
  /\ pc[p] \in {"release", "ended"} /\ faults = 0
       /\ record[p] \notin {Absent, Failed("test", FALSE)} =>
       number[p] \in DOMAIN acked /\ acked[number[p]] = record[p]

BundleInv ==
  /\ finisher = "done" /\ faults \in Nat
  /\ Rec(bundle) /\ Function(bundle.attempts)
  /\ lock = None => Healthy
  /\ \A p \in Procs : Stage(p) /\ Noted(p)

-----------------------------------------------------------------------------
\* The verifier looks at the files, and at nothing else.
LEMMA CoreFields ==
  ASSUME NEW b, NEW c,
         b.original = c.original, b.attempts = c.attempts, b.mirror = c.mirror,
         b.claims = c.claims, b.report = c.report,
         b.earlier_sums = c.earlier_sums, b.later_sums = c.later_sums,
         b.scenario_sums = c.scenario_sums, b.root_sums = c.root_sums
  PROVE  Core(b) <=> Core(c)
<1>1. /\ Contiguous(b) <=> Contiguous(c)
      /\ Latest(b) = Latest(c)
      /\ ScenarioFiles(b) = ScenarioFiles(c)
      /\ RunFiles(b) = RunFiles(c)
  BY DEF Contiguous, Latest, ScenarioFiles, RunFiles
<1> QED
  BY <1>1 DEF Core

LEMMA VerifyCore ==
  ASSUME NEW b
  PROVE  verify_run_root(b) <=> b.staging = {} /\ Core(b)
BY DEF verify_run_root, Core

\* Bundles with the same files are the same bundle.
LEMMA RecEqual ==
  ASSUME NEW b, NEW c, Rec(b), Rec(c), \A f \in BundleFields : b[f] = c[f]
  PROVE  b = c
<1>1. [f \in BundleFields |-> b[f]] = [f \in BundleFields |-> c[f]]
  OBVIOUS
<1> QED
  BY <1>1 DEF Rec

\* A report that does not compare, or a test that ran, is accepted.
LEMMA ReportAccepted ==
  ASSUME NEW o, NEW r \in Reports(o), r # Failed("test", FALSE)
  PROVE  AttemptAccepted(o, r)
<1>1. CASE \E late : r = Failed("fetch", late)
  BY <1>1 DEF Failed, Report, AttemptAccepted
<1>2. CASE \E raw \in RawResults : r = Compared(o, raw)
  <2>1. PICK raw \in RawResults : r = Compared(o, raw)
    BY <1>2
  <2>2. /\ r.phase = "test" /\ r.error = FALSE
        /\ r.exit_match = Flag(exit_match(o, raw))
        /\ r.signature_match = Flag(signature_match(o, raw))
        /\ r.ok = (exit_match(o, raw) /\ signature_match(o, raw))
        /\ r.replay_exit = raw.exit_code /\ r.timed_out = raw.timed_out
        /\ r.replay_signature = replay_signature(raw)
    BY <2>1 DEF Compared, Report
  <2>3. /\ exit_match(o, raw) <=> r.replay_exit = o.exit_code /\ r.timed_out = o.timed_out
        /\ signature_match(o, raw) <=> r.replay_signature = o.hash
    BY <2>2 DEF exit_match, signature_match
  <2>4. /\ r.exit_match = Flag(r.replay_exit = o.exit_code /\ r.timed_out = o.timed_out)
        /\ r.signature_match = Flag(r.replay_signature = o.hash)
    BY <2>2, <2>3 DEF Flag
  <2> QED
    BY <2>2, <2>3, <2>4 DEF AttemptAccepted
<1> QED
  BY <1>1, <1>2 DEF Reports

\* The attempts of a bundle that verified, with the next one.
LEMMA AppendedAttempts ==
  ASSUME NEW f, NEW n \in Nat \ {0}, DOMAIN f = 1..(n - 1), NEW r
  PROVE  /\ DOMAIN With(f, n, r) = 1..n /\ With(f, n, r)[n] = r
         /\ \A i \in 1..(n - 1) : With(f, n, r)[i] = f[i]
         /\ Cardinality(1..n) = n /\ LastOf(1..n) = n /\ 1..n # {}
<1>1. DOMAIN With(f, n, r) = 1..n
  BY DEF With
<1>2. /\ With(f, n, r)[n] = r
      /\ \A i \in 1..(n - 1) : With(f, n, r)[i] = f[i]
  BY DEF With
<1>3. Cardinality(1..n) = n
  BY FS_Interval
<1>4. n \in 1..n /\ \A j \in 1..n : j <= n
  OBVIOUS
<1>5. LastOf(1..n) = n
  <2>1. \E i \in 1..n : \A j \in 1..n : j <= i
    BY <1>4
  <2>2. LastOf(1..n) = CHOOSE i \in 1..n : \A j \in 1..n : j <= i
    BY <1>4 DEF LastOf
  <2>3. LastOf(1..n) \in 1..n /\ n <= LastOf(1..n)
    BY <1>4, <2>1, <2>2
  <2> QED
    BY <2>3
<1> QED
  BY <1>1, <1>2, <1>3, <1>4, <1>5

\* The post-verification of a replay refuses engine errors of the tests only.
LEMMA AppendVerifies ==
  ASSUME NEW p \in Procs, Transaction(p), Progress(p), pc[p] = "verify",
         job[p] = "replay", record[p] \in Reports(bundle.original),
         record[p] # Failed("test", FALSE)
  PROVE  verify_run_root(bundle)
<1> DEFINE n == number[p]
           f == was[p].attempts
<1>1. /\ n \in Nat \ {0} /\ DOMAIN f = 1..(n - 1) /\ bundle.staging = {}
      /\ bundle.attempts = With(f, n, record[p]) /\ bundle.original = was[p].original
      /\ Core(was[p]) /\ bundle.mirror = record[p]
      /\ bundle.earlier_sums = OtherFiles /\ bundle.later_sums = OtherFiles
      /\ bundle.scenario_sums = ScenarioFiles(bundle) /\ bundle.root_sums = RunFiles(bundle)
  BY DEF Transaction, Progress
<1> HIDE DEF n, f
<1>2. /\ DOMAIN bundle.attempts = 1..n /\ bundle.attempts[n] = record[p]
      /\ \A i \in 1..(n - 1) : bundle.attempts[i] = f[i]
      /\ Cardinality(1..n) = n /\ LastOf(1..n) = n /\ 1..n # {}
  BY <1>1, AppendedAttempts
<1>3. Contiguous(bundle) /\ bundle.mirror = Latest(bundle)
  BY <1>1, <1>2 DEF Contiguous, Latest
<1>4. \A i \in 1..n : AttemptAccepted(bundle.original, bundle.attempts[i])
  <2> SUFFICES ASSUME NEW i \in 1..n
               PROVE  AttemptAccepted(bundle.original, bundle.attempts[i])
    OBVIOUS
  <2>1. CASE i = n
    BY <1>2, <2>1, ReportAccepted
  <2>2. CASE i # n
    <3>1. i \in 1..(n - 1)
      BY <1>1, <2>2
    <3> QED
      BY <1>1, <1>2, <3>1 DEF Core, f
  <2> QED
    BY <2>1, <2>2
<1> QED
  BY <1>1, <1>2, <1>3, <1>4 DEF verify_run_root

-----------------------------------------------------------------------------
\* What a step of p does to the other operations.
Apart(p) ==
  /\ \A q \in Procs \ {p} : pc'[q] = pc[q] /\ number'[q] = number[q] /\ record'[q] = record[q]
  /\ job' = job /\ finisher' = finisher
  /\ faults' \in Nat /\ faults' >= faults
  /\ \A n \in DOMAIN acked : n \in DOMAIN acked' /\ acked'[n] = acked[n]

\* Notes of the others stay true.
LEMMA NotedApart ==
  ASSUME BundleInv, NEW p \in Procs, Apart(p), NEW q \in Procs \ {p}
  PROVE  Noted(q)'
<1>1. /\ Noted(q) /\ pc'[q] = pc[q] /\ number'[q] = number[q] /\ record'[q] = record[q]
      /\ job' = job /\ (faults' = 0 => faults = 0)
  BY DEF BundleInv, Apart
<1>2. number[q] \in DOMAIN acked =>
        number[q] \in DOMAIN acked' /\ acked'[number[q]] = acked[number[q]]
  BY DEF Apart
<1> QED
  BY <1>1, <1>2, Zenon DEF Noted

\* A step while no other operation is inside.
LEMMA BundleAlone ==
  ASSUME BundleInv, NEW p \in Procs, Apart(p),
         \A q \in Procs \ {p} : pc[q] \notin Inside,
         Rec(bundle'), Function(bundle'.attempts),
         lock' = None => Healthy', Stage(p)', Noted(p)'
  PROVE  BundleInv'
<1>1. ASSUME NEW q \in Procs \ {p} PROVE Stage(q)' /\ Noted(q)'
  <2>1. pc'[q] \notin Inside
    BY DEF Apart
  <2>2. Stage(q)'
    BY <2>1 DEF Stage, Inside, Dirty
  <2> QED
    BY <2>2, NotedApart
<1> QED
  BY <1>1 DEF BundleInv, Apart

\* A step of the operation that holds the lock.
LEMMA BundleInside ==
  ASSUME LogInv, BundleInv, NEW p \in Procs, pc[p] \in Inside, Apart(p),
         Rec(bundle'), Function(bundle'.attempts),
         lock' = lock \/ Healthy', Stage(p)', Noted(p)'
  PROVE  BundleInv'
<1>1. lock = p /\ p # None
  BY OpsAssumption DEF LogInv, LockExcludes
<1>2. \A q \in Procs \ {p} : pc[q] \notin Inside
  BY <1>1 DEF LogInv, LockExcludes
<1> QED
  BY <1>1, <1>2, BundleAlone

LEMMA Larger == \A m, n \in Nat : n >= m /\ m > 1 => n > 1
OBVIOUS

\* A bundle that nothing wrote to is as healthy as before.
LEMMA HealthyKept ==
  ASSUME Healthy, bundle' = bundle, faults \in Nat, NEW p \in Procs, Apart(p),
         result[p] = "undo failed" => result'[p] = "undo failed",
         \A q \in Procs \ {p} : result'[q] = result[q]
  PROVE  Healthy'
<1>1. Clean' => Clean
  BY DEF Clean
<1>2. faults > 1 => faults' > 1
  BY Larger DEF Apart
<1> QED
  BY <1>1, <1>2, Zenon DEF Healthy

\* A step of an operation outside the lock, which writes nothing.
LEMMA BundleOutside ==
  ASSUME LogInv, BundleInv, NEW p \in Procs, Apart(p), pc'[p] \notin Inside,
         \A q \in Procs \ {p} : result'[q] = result[q],
         UNCHANGED <<bundle, lock, was, todo>>, Healthy => Healthy', Noted(p)'
  PROVE  BundleInv'
<1>1. ASSUME NEW q \in Procs PROVE Stage(q)' /\ Noted(q)'
  <2>1. CASE q = p
    BY <2>1 DEF Stage, Inside, Dirty
  <2>2. CASE q # p
    <3>1. /\ pc'[q] = pc[q] /\ number'[q] = number[q] /\ record'[q] = record[q]
          /\ job' = job /\ faults \in Nat /\ faults' \in Nat /\ faults' >= faults
          /\ result'[q] = result[q] /\ Stage(q)
      BY <2>2 DEF Apart, BundleInv
    <3>2. faults >= 1 => faults' >= 1
      BY <3>1
    <3>3. /\ Reservation(q) => Reservation(q)'
          /\ Transaction(q) => Transaction(q)'
          /\ Progress(q) => Progress(q)'
          /\ Undone(q) => Undone(q)'
      BY <3>1 DEF Reservation, Transaction, Progress, Left, Forgotten, Undone
    <3>4. Stage(q)'
      BY <3>1, <3>2, <3>3, Zenon DEF Stage
    <3> QED
      BY <2>2, <3>4, NotedApart
  <2> QED
    BY <2>1, <2>2
<1>2. lock' = None => Healthy'
  BY DEF BundleInv
<1> QED
  BY <1>1, <1>2 DEF BundleInv, Apart

\* Before it writes a report, an operation has the bundle that verified.
LEMMA ReportStarts ==
  ASSUME BundleInv, NEW p \in Procs, pc[p] = "report", job[p] = "report"
  PROVE  Transaction(p)
<1>1. was[p] = bundle /\ bundle.staging = {} /\ Core(bundle)
  BY VerifyCore DEF BundleInv, Stage
<1> QED
  BY <1>1 DEF BundleInv, Transaction

\* A write of one file, whole or torn, stays within the transaction.
LEMMA TransactionWrite ==
  ASSUME Rec(bundle), Function(bundle.attempts), NEW p \in Procs, Transaction(p),
         pc[p] # "undo", NEW g \in Written, NEW v, bundle' = [bundle EXCEPT ![g] = v],
         UNCHANGED <<job, number, record, was>>,
         g = "mirror" => job[p] # "report", g = "report" => job[p] # "replay"
  PROVE  Transaction(p)' /\ Rec(bundle') /\ Function(bundle'.attempts)
<1>1. /\ Rec(bundle') /\ \A f \in BundleFields \ {g} : bundle'[f] = bundle[f]
  <2>1. g \in BundleFields
    BY DEF BundleFields, Written
  <2>2. DOMAIN bundle = BundleFields
    BY DEF Rec
  <2> QED
    BY <2>1, <2>2 DEF Rec
<1>2. /\ bundle'.staging = bundle.staging /\ bundle'.original = bundle.original
      /\ bundle'.claims = bundle.claims /\ bundle'.attempts = bundle.attempts
      /\ job[p] = "report" => bundle'.mirror = bundle.mirror
      /\ job[p] = "replay" => bundle'.report = bundle.report
  BY <1>1 DEF BundleFields, Written
<1>3. Function(bundle'.attempts)
  BY <1>2
<1>4. Transaction(p)'
  BY <1>2 DEF Transaction
<1> QED
  BY <1>1, <1>3, <1>4

\* An operation that fails after its first write has the files to restore listed.
LEMMA FailStage ==
  ASSUME NEW p \in Procs, pc'[p] = "undo", todo'[p] = UndoOrder[job[p]], job' = job,
         job[p] \in {"replay", "report"}, Transaction(p)'
  PROVE  Stage(p)'
<1>1. CASE job[p] = "replay"
  <2>1. todo'[p] = <<"attempts", "mirror", "scenario_sums", "root_sums">>
    BY <1>1 DEF UndoOrder
  <2>2. {"attempts", "mirror", "scenario_sums", "root_sums"} \subseteq Left(p)'
    <3>1. /\ todo'[p][1] = "attempts" /\ todo'[p][2] = "mirror"
          /\ todo'[p][3] = "scenario_sums" /\ todo'[p][4] = "root_sums"
          /\ DOMAIN todo'[p] = 1..4
      BY <2>1
    <3>2. 1 \in 1..4 /\ 2 \in 1..4 /\ 3 \in 1..4 /\ 4 \in 1..4
      OBVIOUS
    <3> QED
      BY <3>1, <3>2, Zenon DEF Left
  <2>3. bundle'.report = was'[p].report
    BY <1>1 DEF Transaction
  <2>4. Progress(p)'
    BY <1>1, <2>2, <2>3 DEF Progress, Forgotten, OtherSums, Files
  <2> QED
    BY <2>4 DEF Stage
<1>2. CASE job[p] = "report"
  <2>1. todo'[p] = <<"report", "root_sums", "earlier_sums", "scenario_sums", "later_sums">>
    BY <1>2 DEF UndoOrder
  <2>2. {"report", "root_sums", "earlier_sums", "scenario_sums", "later_sums"}
          \subseteq Left(p)'
    <3>1. /\ todo'[p][1] = "report" /\ todo'[p][2] = "root_sums"
          /\ todo'[p][3] = "earlier_sums" /\ todo'[p][4] = "scenario_sums"
          /\ todo'[p][5] = "later_sums" /\ DOMAIN todo'[p] = 1..5
      BY <2>1
    <3>2. 1 \in 1..5 /\ 2 \in 1..5 /\ 3 \in 1..5 /\ 4 \in 1..5 /\ 5 \in 1..5
      OBVIOUS
    <3> QED
      BY <3>1, <3>2, Zenon DEF Left
  <2>3. bundle'.attempts = was'[p].attempts /\ bundle'.mirror = was'[p].mirror
    BY <1>2 DEF Transaction
  <2>4. Progress(p)'
    BY <2>2, <2>3 DEF Progress, Files
  <2> QED
    BY <2>4 DEF Stage
<1> QED
  BY <1>1, <1>2

\* Restoring one file shortens the list by it.
LEMMA LeftTail ==
  ASSUME NEW t \in Seq(Files), t # <<>>
  PROVE  \A i \in DOMAIN t : t[i] = Head(t) \/ \E j \in DOMAIN Tail(t) : Tail(t)[j] = t[i]
<1> TAKE i \in DOMAIN t
<1>1. CASE i = 1
  BY <1>1
<1>2. CASE i # 1
  <2>1. i - 1 \in DOMAIN Tail(t) /\ Tail(t)[i - 1] = t[i]
    BY <1>2
  <2> QED
    BY <2>1
<1> QED
  BY <1>1, <1>2

\* Every step keeps the bundle as the operations believe it to be.
LEMMA BundleStep ==
  ASSUME LogInv, TellInv, Typed, BundleInv, LogInv', [Next]_vars
  PROVE  BundleInv'
<1>0. /\ Shape /\ Shape' /\ LockExcludes
      /\ \A p \in Procs : Own(p) /\ Told(p) /\ Stage(p) /\ Noted(p)
      /\ DOMAIN result = Procs /\ DOMAIN was = Procs /\ DOMAIN record = Procs
      /\ Rec(bundle) /\ Function(bundle.attempts) /\ faults \in Nat /\ finisher = "done"
      /\ lock = None => Healthy
  BY DEF LogInv, Ownership, TellInv, Typed, Locals, BundleInv, Shape
<1>1. ASSUME NEW p \in Procs, VerifyFirst(p) PROVE BundleInv'
  <2>1. /\ pc[p] = "start" /\ pc'[p] \in {"lock", "ended"} /\ faults' = faults
        /\ UNCHANGED <<bundle, lock, record, was, todo>> /\ job' = job
        /\ \A q \in Procs \ {p} : result'[q] = result[q]
    BY <1>0, <1>1 DEF VerifyFirst, Move, Tell, Shape
  <2>2. Apart(p)
    BY <1>0, <1>1 DEF VerifyFirst, Apart, Move, Tell, Shape
  <2>3. record[p] = Absent /\ result[p] = None
    BY <1>0, <2>1 DEF Noted, Told, Over
  <2>4. Healthy => Healthy'
    BY <1>0, <2>1, <2>2, <2>3, HealthyKept DEF None
  <2>5. Noted(p)'
    BY <2>1, <2>3 DEF Noted
  <2> QED
    BY <2>1, <2>2, <2>4, <2>5, BundleOutside DEF Inside
<1>2. ASSUME NEW p \in Procs, Acquire(p) PROVE BundleInv'
  <2>1. /\ pc[p] = "lock" /\ faults' = faults /\ UNCHANGED <<bundle, record, was, todo>>
        /\ job' = job /\ \A q \in Procs \ {p} : result'[q] = result[q]
        /\ \/ lock = None /\ lock' = p /\ pc'[p] = "locked" /\ result' = result
           \/ lock' = lock /\ pc'[p] = "ended"
    <3>1. CASE lock = None
      BY <1>0, <1>2, <3>1 DEF Acquire, Move, Tell, Shape
    <3>2. CASE lock # None
      BY <1>0, <1>2, <3>2 DEF Acquire, Move, Tell, Shape
    <3> QED
      BY <3>1, <3>2
  <2>2. Apart(p)
    BY <1>0, <1>2 DEF Acquire, Apart, Move, Tell, Shape
  <2>3. record[p] = Absent /\ result[p] = None
    BY <1>0, <2>1 DEF Noted, Told, Over
  <2>4. Healthy => Healthy'
    BY <1>0, <2>1, <2>2, <2>3, HealthyKept DEF None
  <2>5. Noted(p)'
    BY <2>1, <2>3 DEF Noted
  <2>6. CASE lock' = lock /\ pc'[p] = "ended"
    BY <2>1, <2>2, <2>4, <2>5, <2>6, BundleOutside DEF Inside
  <2>7. CASE lock = None /\ lock' = p /\ pc'[p] = "locked" /\ result' = result
    <3>1. \A q \in Procs \ {p} : pc[q] \notin Inside
      BY <1>0, <2>7, OpsAssumption DEF LockExcludes
    <3>2. Rec(bundle') /\ Function(bundle'.attempts) /\ Healthy'
      BY <1>0, <2>1, <2>4, <2>7
    <3>3. Stage(p)'
      BY <2>7, <3>2 DEF Stage, Dirty
    <3>4. lock' = None => Healthy'
      BY <3>2
    <3> QED
      BY <2>2, <2>5, <3>1, <3>2, <3>3, <3>4, BundleAlone
  <2> QED
    BY <2>1, <2>6, <2>7
<1>3. ASSUME NEW p \in Procs, VerifyLocked(p) PROVE BundleInv'
  <2>1. /\ pc[p] = "locked" /\ faults' = faults /\ UNCHANGED <<bundle, lock, record, was, todo>>
        /\ job' = job /\ \A q \in Procs \ {p} : result'[q] = result[q]
        /\ \/ verify_run_root(bundle) /\ pc'[p] = "prepare" /\ job[p] = "replay"
           \/ verify_run_root(bundle) /\ pc'[p] = "snapshot" /\ job[p] = "report"
           \/ pc'[p] = "release" /\ result'[p] # "failed"
    <3>1. CASE verify_run_root(bundle)
      BY <1>0, <1>3, <3>1 DEF VerifyLocked, AfterLoad, Move, Tell, Shape
    <3>2. CASE ~verify_run_root(bundle)
      BY <1>0, <1>3, <3>2 DEF VerifyLocked, Move, Tell, Shape
    <3> QED
      BY <3>1, <3>2
  <2>2. Apart(p)
    BY <1>0, <1>3 DEF VerifyLocked, Apart, Move, Tell, Shape
  <2>3. record[p] = Absent /\ result[p] = None /\ Healthy
    BY <1>0, <2>1 DEF Noted, Told, Over, Stage
  <2>4. Healthy'
    BY <1>0, <2>1, <2>2, <2>3, HealthyKept DEF None
  <2>5. Noted(p)'
    BY <2>1, <2>3 DEF Noted
  <2>6. Stage(p)'
    BY <2>1, <2>4 DEF Stage, Dirty
  <2> QED
    BY <1>0, <2>1, <2>2, <2>4, <2>5, <2>6, BundleInside DEF Inside
<1>4. ASSUME NEW p \in Procs, Refuse(p) PROVE BundleInv'
  <2>1. /\ pc[p] = "prepare" \/ (pc[p] = "snapshot" /\ job[p] = "report")
        /\ pc'[p] = "release" /\ result'[p] # "failed"
        /\ UNCHANGED <<bundle, lock, record>> /\ job' = job
    BY <1>0, <1>4 DEF Refuse, Move, Tell, Shape
  <2>2. Apart(p)
    BY <1>0, <1>4 DEF Refuse, Apart, Move, Tell, Shape
  <2>3. record[p] = Absent /\ verify_run_root(bundle)
    BY <1>0, <2>1 DEF Noted, Stage
  <2>4. Healthy'
    BY <2>1, <2>3 DEF Healthy
  <2>5. Stage(p)' /\ Noted(p)'
    BY <2>1, <2>3, <2>4 DEF Noted, Stage, Dirty
  <2> QED
    BY <1>0, <2>1, <2>2, <2>5, BundleInside DEF Inside
<1>5. ASSUME NEW p \in Procs, Release(p) PROVE BundleInv'
  <2>1. /\ pc[p] = "release" /\ pc'[p] = "ended" /\ faults' = faults
        /\ UNCHANGED <<bundle, result, record, number, acked>> /\ job' = job
    BY <1>0, <1>5 DEF Release, Move, Shape
  <2>2. Apart(p)
    BY <1>0, <1>5 DEF Release, Apart, Move, Shape
  <2>3. Healthy
    BY <1>0, <2>1 DEF Stage
  <2>4. Healthy'
    BY <1>0, <2>1, <2>2, <2>3, HealthyKept
  <2>5. Stage(p)'
    BY <2>1 DEF Stage, Dirty
  <2>6. Noted(p)'
    BY <1>0, <2>1 DEF Noted
  <2> QED
    BY <1>0, <2>1, <2>2, <2>4, <2>5, <2>6, BundleInside DEF Inside
<1>6. ASSUME NEW p \in Procs, Prepare(p) PROVE BundleInv'
  <2>1. /\ pc[p] = "prepare" /\ faults' = faults /\ UNCHANGED <<bundle, lock, record>>
        /\ job' = job /\ pc'[p] \in {"reserve", "release"}
        /\ pc'[p] = "release" => result'[p] # "failed"
    BY <1>0, <1>6 DEF Prepare, Move, Tell, Shape
  <2>2. Apart(p)
    BY <1>0, <1>6 DEF Prepare, Apart, Move, Tell, Shape
  <2>3. record[p] = Absent /\ verify_run_root(bundle)
    BY <1>0, <2>1 DEF Noted, Stage
  <2>4. Healthy'
    BY <2>1, <2>3 DEF Healthy
  <2>5. Stage(p)' /\ Noted(p)'
    BY <2>1, <2>3, <2>4 DEF Noted, Stage, Dirty
  <2> QED
    BY <1>0, <2>1, <2>2, <2>5, BundleInside DEF Inside
<1>7. ASSUME NEW p \in Procs, Reserve(p) PROVE BundleInv'
  <2>1. /\ pc[p] = "reserve" /\ verify_run_root(bundle) /\ job[p] = "replay"
    BY <1>0, <1>7 DEF Reserve, Stage, Own, ReplayOnly
  <2>2. bundle.staging = {} /\ Contiguous(bundle) /\ Core(bundle)
    BY <2>1, VerifyCore DEF Core
  <2> DEFINE next == Cardinality(DOMAIN bundle.attempts) + 1
  <2>3. /\ bundle' = [bundle EXCEPT !.staging = {next}]
        /\ number'[p] = next /\ pc'[p] = "execute" /\ job' = job /\ lock' = lock
    BY <1>0, <1>7, <2>2 DEF Reserve, inspect_replay_attempts, Move, Shape
  <2>4. Apart(p)
    BY <1>0, <1>7, <2>2 DEF Reserve, Apart, Move, Shape
  <2>5. Cardinality(DOMAIN bundle.attempts) \in Nat
    BY <1>0, FS_CardinalityType DEF Shape
  <2>6. next \in Nat \ {0} /\ next - 1 = Cardinality(DOMAIN bundle.attempts)
    BY <2>5
  <2>7. DOMAIN bundle.attempts = 1..(next - 1)
    BY <2>2, <2>6 DEF Contiguous
  <2> HIDE DEF next
  <2>8. DOMAIN bundle = BundleFields
    BY <1>0 DEF Shape
  <2>9. /\ bundle'.staging = {next} /\ Rec(bundle')
        /\ \A f \in BundleFields \ {"staging"} : bundle'[f] = bundle[f]
    BY <1>0, <2>3, <2>8 DEF Rec, BundleFields
  <2>10. /\ bundle'.original = bundle.original /\ bundle'.attempts = bundle.attempts
         /\ bundle'.mirror = bundle.mirror /\ bundle'.claims = bundle.claims
         /\ bundle'.report = bundle.report /\ bundle'.scenario_sums = bundle.scenario_sums
         /\ bundle'.earlier_sums = bundle.earlier_sums
         /\ bundle'.later_sums = bundle.later_sums
         /\ bundle'.root_sums = bundle.root_sums
    BY <2>9 DEF BundleFields
  <2>11. Core(bundle')
    BY <2>2, <2>10, CoreFields
  <2>12. Reservation(p)'
    BY <2>3, <2>6, <2>7, <2>9, <2>10, <2>11 DEF Reservation
  <2>13. Stage(p)' /\ Noted(p)'
    BY <2>1, <2>3, <2>12 DEF Stage, Noted, Dirty
  <2>14. Function(bundle'.attempts)
    BY <1>0, <2>10
  <2> QED
    BY <2>1, <2>3, <2>4, <2>9, <2>13, <2>14, BundleInside DEF Inside
<1>8. ASSUME NEW p \in Procs, Execute(p) PROVE BundleInv'
  <2>1. /\ pc[p] = "execute" /\ pc'[p] = "snapshot" /\ job' = job
        /\ UNCHANGED <<bundle, lock, number>>
    BY <1>0, <1>8 DEF Execute, Move, Shape
  <2>2. Apart(p)
    BY <1>0, <1>8 DEF Execute, Apart, Move, Shape
  <2>3. job[p] = "replay" /\ Reservation(p)
    BY <1>0, <2>1 DEF Own, ReplayOnly, Stage
  <2>4. Reservation(p)'
    BY <2>1, <2>3 DEF Reservation
  <2>5. Stage(p)' /\ Noted(p)'
    BY <2>1, <2>3, <2>4 DEF Stage, Noted, Dirty
  <2> QED
    BY <1>0, <2>1, <2>2, <2>5, BundleInside DEF Inside
<1>9. ASSUME NEW p \in Procs, Snapshot(p) PROVE BundleInv'
  <2>1. /\ pc[p] = "snapshot" /\ job' = job /\ was'[p] = bundle
        /\ UNCHANGED <<bundle, lock, number, record, acked, faults>>
        /\ \/ pc'[p] = "commit" /\ job[p] = "replay"
           \/ pc'[p] = "report" /\ job[p] = "report"
    BY <1>0, <1>9 DEF Snapshot, AfterSnapshot, Own, Working, Move, Shape
  <2>2. Apart(p)
    BY <1>0, <1>9 DEF Snapshot, Apart, Move, Shape
  <2>3. CASE pc'[p] = "commit" /\ job[p] = "replay"
    <3>1. Reservation(p)
      BY <1>0, <2>1, <2>3 DEF Stage
    <3>2. Reservation(p)'
      BY <2>1, <3>1 DEF Reservation
    <3>3. Stage(p)' /\ Noted(p)'
      BY <2>1, <2>3, <3>2 DEF Stage, Noted, Dirty
    <3> QED
      BY <1>0, <2>1, <2>2, <3>3, BundleInside DEF Inside
  <2>4. CASE pc'[p] = "report" /\ job[p] = "report"
    <3>1. verify_run_root(bundle) /\ record[p] = Absent
      BY <1>0, <2>1, <2>4 DEF Stage, Noted
    <3>2. verify_run_root(bundle')
      BY <2>1, <3>1
    <3>3. Stage(p)' /\ Noted(p)'
      BY <2>1, <2>4, <3>1, <3>2 DEF Stage, Noted, Dirty
    <3> QED
      BY <1>0, <2>1, <2>2, <3>3, BundleInside DEF Inside
  <2> QED
    BY <2>1, <2>3, <2>4
<1>10. ASSUME NEW p \in Procs, Commit(p) PROVE BundleInv'
  <2> DEFINE n == number[p]
  <2>1. pc[p] = "commit" /\ job[p] = "replay" /\ Reservation(p) /\ was[p] = bundle
    BY <1>0, <1>10 DEF Commit, Stage, Own, ReplayOnly
  <2>2. /\ bundle.staging = {n} /\ n \in Nat \ {0} /\ Core(bundle)
        /\ DOMAIN bundle.attempts = 1..(n - 1)
    BY <2>1 DEF Reservation
  <2>3. n \notin DOMAIN bundle.attempts
    BY <2>2
  <2>4. /\ bundle' = [bundle EXCEPT !.staging = @ \ {n}, !.attempts = With(@, n, record[p])]
        /\ pc'[p] = "mirror" /\ UNCHANGED <<lock, job, number, record, was>>
    BY <1>0, <1>10, <2>3 DEF Commit, Move, Shape
  <2>5. Apart(p)
    BY <1>0, <1>10, <2>3 DEF Commit, Apart, Move, Shape
  <2>6. DOMAIN bundle = BundleFields
    BY <1>0 DEF Shape
  <2> HIDE DEF n
  <2>7. /\ bundle'.staging = bundle.staging \ {n}
        /\ bundle'.attempts = With(bundle.attempts, n, record[p])
        /\ bundle'.original = bundle.original /\ bundle'.claims = bundle.claims
        /\ bundle'.report = bundle.report
    BY <2>4, <2>6 DEF BundleFields
  <2>8. Rec(bundle')
    BY <1>0, <2>4, <2>6 DEF Rec, BundleFields
  <2>9. Function(bundle'.attempts)
    BY <2>7 DEF Function, With
  <2>10. bundle'.staging = {}
    BY <2>2, <2>7
  <2>11. Transaction(p)'
    BY <1>0, <2>1, <2>2, <2>4, <2>7, <2>10 DEF Transaction, n
  <2>12. Stage(p)' /\ Noted(p)'
    BY <2>1, <2>4, <2>11 DEF Stage, Noted, Dirty, Progress
  <2> QED
    BY <2>1, <2>4, <2>5, <2>8, <2>9, <2>12, BundleInside DEF Inside
<1>11. ASSUME NEW p \in Procs, DropStaging(p) PROVE BundleInv'
  <2>1. /\ pc[p] = "drop" /\ pc'[p] = "release" /\ faults' = faults
        /\ bundle' = [bundle EXCEPT !.staging = @ \ {number[p]}]
        /\ job' = job /\ lock' = lock /\ result' = result
    BY <1>0, <1>11 DEF DropStaging, Move, Shape
  <2>2. Apart(p)
    BY <1>0, <1>11 DEF DropStaging, Apart, Move, Shape
  <2>3. Reservation(p) /\ faults >= 1
    BY <1>0, <2>1 DEF Stage, Own, ReplayOnly
  <2>4. DOMAIN bundle = BundleFields
    BY <1>0 DEF Shape
  <2>5. /\ bundle'.staging = bundle.staging \ {number[p]} /\ Rec(bundle')
        /\ \A f \in BundleFields \ {"staging"} : bundle'[f] = bundle[f]
    BY <1>0, <2>1, <2>4 DEF Rec, BundleFields
  <2>6. /\ bundle'.original = bundle.original /\ bundle'.attempts = bundle.attempts
        /\ bundle'.mirror = bundle.mirror /\ bundle'.claims = bundle.claims
        /\ bundle'.report = bundle.report /\ bundle'.scenario_sums = bundle.scenario_sums
        /\ bundle'.earlier_sums = bundle.earlier_sums
        /\ bundle'.later_sums = bundle.later_sums
        /\ bundle'.root_sums = bundle.root_sums
    BY <2>5 DEF BundleFields
  <2>7. Core(bundle') /\ bundle'.staging = {}
    BY <2>3, <2>5, <2>6, CoreFields DEF Reservation
  <2>8. verify_run_root(bundle')
    BY <2>7, VerifyCore
  <2>9. Healthy'
    BY <2>8 DEF Healthy
  <2>10. faults' # 0
    BY <2>1, <2>3
  <2>13. result'[p] # "failed"
    BY <1>0, <2>1, Zenon DEF Told
  <2>11. Stage(p)' /\ Noted(p)'
    BY <1>0, <2>1, <2>9, <2>10, <2>13, <1>11 DEF Stage, Noted, Dirty, Own, ReplayOnly
  <2>12. Function(bundle'.attempts)
    BY <1>0, <2>6
  <2> QED
    BY <2>1, <2>2, <2>5, <2>11, <2>12, BundleInside DEF Inside
<1>12. ASSUME NEW p \in Procs, WriteMirror(p) PROVE BundleInv'
  <2>1. /\ pc[p] = "mirror" /\ pc'[p] = "earlier_sums" /\ job[p] = "replay"
        /\ bundle' = [bundle EXCEPT !["mirror"] = record[p]]
        /\ UNCHANGED <<lock, job, number, record, was>>
    BY <1>0, <1>12 DEF WriteMirror, Move, Shape, Own, ReplayOnly
  <2>2. Apart(p)
    BY <1>0, <1>12 DEF WriteMirror, Apart, Move, Shape
  <2>3. Transaction(p)
    BY <1>0, <2>1 DEF Stage, Dirty
  <2>4. Transaction(p)' /\ Rec(bundle') /\ Function(bundle'.attempts)
    BY <1>0, <2>1, <2>3, TransactionWrite DEF Written
  <2>5. bundle'.mirror = record[p]
    BY <1>0, <2>1 DEF Shape, BundleFields
  <2>6. Progress(p)'
    BY <2>1, <2>5 DEF Progress
  <2>7. Stage(p)' /\ Noted(p)'
    BY <2>1, <2>4, <2>6 DEF Stage, Noted, Dirty
  <2> QED
    BY <2>1, <2>2, <2>4, <2>7, BundleInside DEF Inside
<1>13. ASSUME NEW p \in Procs, WriteReport(p) PROVE BundleInv'
  <2>1. /\ pc[p] = "report" /\ pc'[p] = "check" /\ job[p] = "report"
        /\ bundle' = [bundle EXCEPT !["report"] = "rendered"]
        /\ UNCHANGED <<lock, job, number, record, was>>
    BY <1>0, <1>13 DEF WriteReport, Move, Shape, Own, ReportOnly
  <2>2. Apart(p)
    BY <1>0, <1>13 DEF WriteReport, Apart, Move, Shape
  <2>3. Transaction(p)
    BY <2>1, ReportStarts
  <2>4. Transaction(p)' /\ Rec(bundle') /\ Function(bundle'.attempts)
    BY <1>0, <2>1, <2>3, TransactionWrite DEF Written
  <2>5. record[p] = Absent
    BY <1>0, <2>1 DEF Noted
  <2>6. Stage(p)' /\ Noted(p)'
    BY <2>1, <2>4, <2>5 DEF Stage, Noted, Dirty, Progress
  <2> QED
    BY <2>1, <2>2, <2>4, <2>6, BundleInside DEF Inside
<1>14. ASSUME NEW p \in Procs, CheckReport(p) PROVE BundleInv'
  <2>1. /\ pc[p] = "check" /\ job[p] = "report"
        /\ UNCHANGED <<bundle, lock, job, number, record, was>>
        /\ \/ pc'[p] = "earlier_sums"
           \/ pc'[p] = "undo" /\ todo'[p] = UndoOrder[job[p]]
    <3>1. CASE verify_only_report_changed(bundle)
      BY <1>0, <1>14, <3>1 DEF CheckReport, Move, Shape, Own, ReportOnly
    <3>2. CASE ~verify_only_report_changed(bundle)
      BY <1>0, <1>14, <3>2 DEF CheckReport, Fail, Move, Shape, Own, ReportOnly
    <3> QED
      BY <3>1, <3>2
  <2>2. Apart(p)
    BY <1>0, <1>14 DEF CheckReport, Fail, Apart, Move, Shape
  <2>3. Transaction(p) /\ record[p] = Absent
    BY <1>0, <2>1 DEF Stage, Dirty, Noted
  <2>4. Transaction(p)'
    BY <2>1, <2>3 DEF Transaction
  <2>5. Stage(p)'
    <3>1. CASE pc'[p] = "earlier_sums"
      BY <2>1, <2>4, <3>1 DEF Stage, Dirty, Progress
    <3>2. CASE pc'[p] = "undo" /\ todo'[p] = UndoOrder[job[p]]
      BY <2>1, <2>4, <3>2, FailStage
    <3> QED
      BY <2>1, <3>1, <3>2
  <2>6. Noted(p)'
    BY <2>1, <2>3 DEF Noted
  <2> QED
    BY <1>0, <2>1, <2>2, <2>5, <2>6, BundleInside DEF Inside
<1>15. ASSUME NEW p \in Procs, SumScenario(p) PROVE BundleInv'
  <2>1. pc[p] = "scenario_sums" /\ Transaction(p) /\ Progress(p)
    BY <1>0, <1>15 DEF SumScenario, Stage, Dirty
  <2>2. bundle.staging = {}
    BY <2>1 DEF Transaction
  <2>3. /\ pc'[p] = "later_sums" /\ UNCHANGED <<lock, job, number, record, was, acked>>
        /\ bundle' = [bundle EXCEPT !["scenario_sums"] = ScenarioFiles(bundle)]
    BY <1>0, <1>15, <2>2 DEF SumScenario, Move, Shape
  <2>4. Apart(p)
    BY <1>0, <1>15, <2>2 DEF SumScenario, Apart, Move, Shape
  <2>5. Transaction(p)' /\ Rec(bundle') /\ Function(bundle'.attempts)
    BY <1>0, <2>1, <2>3, TransactionWrite DEF Written
  <2>6. /\ bundle'.scenario_sums = ScenarioFiles(bundle)
        /\ bundle'.earlier_sums = bundle.earlier_sums
        /\ bundle'.attempts = bundle.attempts /\ bundle'.mirror = bundle.mirror
    BY <1>0, <2>3 DEF Shape, BundleFields
  <2>7. bundle'.scenario_sums = ScenarioFiles(bundle')
    BY <2>6 DEF ScenarioFiles
  <2>8. bundle.earlier_sums = OtherFiles /\ (job[p] = "replay" => bundle.mirror = record[p])
    BY <2>1 DEF Progress
  <2>9. Progress(p)'
    BY <2>3, <2>6, <2>7, <2>8 DEF Progress
  <2>10. job[p] # "replay" => record[p] = Absent
    BY <1>0 DEF Noted
  <2>11. Stage(p)' /\ Noted(p)'
    BY <2>3, <2>5, <2>9, <2>10 DEF Stage, Noted, Dirty
  <2> QED
    BY <2>1, <2>3, <2>4, <2>5, <2>11, BundleInside DEF Inside
<1>16. ASSUME NEW p \in Procs, SumRun(p) PROVE BundleInv'
  <2>1. /\ pc[p] = "root_sums" /\ Transaction(p) /\ Progress(p) /\ pc'[p] = "verify"
        /\ bundle' = [bundle EXCEPT !["root_sums"] = RunFiles(bundle)]
        /\ UNCHANGED <<lock, job, number, record, was, acked>>
    BY <1>0, <1>16 DEF SumRun, Stage, Dirty, Move, Shape
  <2>2. Apart(p)
    BY <1>0, <1>16 DEF SumRun, Apart, Move, Shape
  <2>3. Transaction(p)' /\ Rec(bundle') /\ Function(bundle'.attempts)
    BY <1>0, <2>1, TransactionWrite DEF Written
  <2>4. /\ bundle'.root_sums = RunFiles(bundle)
        /\ bundle'.attempts = bundle.attempts /\ bundle'.mirror = bundle.mirror
        /\ bundle'.claims = bundle.claims /\ bundle'.report = bundle.report
        /\ bundle'.scenario_sums = bundle.scenario_sums
        /\ bundle'.earlier_sums = bundle.earlier_sums
        /\ bundle'.later_sums = bundle.later_sums
    BY <1>0, <2>1 DEF Shape, BundleFields
  <2>5. bundle'.root_sums = RunFiles(bundle') /\ ScenarioFiles(bundle') = ScenarioFiles(bundle)
    BY <2>4 DEF RunFiles, ScenarioFiles
  <2>6. /\ job[p] = "replay" => bundle.mirror = record[p]
        /\ bundle.scenario_sums = ScenarioFiles(bundle)
        /\ bundle.earlier_sums = OtherFiles /\ bundle.later_sums = OtherFiles
    BY <2>1 DEF Progress
  <2>7. Progress(p)'
    BY <2>1, <2>4, <2>5, <2>6 DEF Progress
  <2>8. job[p] # "replay" => record[p] = Absent
    BY <1>0 DEF Noted
  <2>9. Stage(p)' /\ Noted(p)'
    BY <2>1, <2>3, <2>7, <2>8 DEF Stage, Noted, Dirty
  <2> QED
    BY <2>1, <2>2, <2>3, <2>9, BundleInside DEF Inside
<1>17. ASSUME NEW p \in Procs, PostVerify(p) PROVE BundleInv'
  <2>1. /\ pc[p] = "verify" /\ Transaction(p) /\ Progress(p) /\ number[p] \notin DOMAIN acked
        /\ job[p] \in {"replay", "report"}
        /\ job[p] # "replay" => record[p] = Absent
        /\ job[p] = "replay" => record[p] \in Reports(bundle.original)
    BY <1>0, <1>17 DEF PostVerify, Stage, Dirty, Own, Working, Noted, Told, Comparing, Shape
  <2>2. UNCHANGED <<bundle, lock, job, number, record, was, faults>>
    BY <1>17 DEF PostVerify
  <2>3. /\ acked' = acked \/ acked' = With(acked, number[p], record[p])
        /\ \A q \in Procs \ {p} : pc'[q] = pc[q] /\ finisher' = finisher
    BY <1>0, <1>17 DEF PostVerify, Fail, Move, Shape
  <2>4. \A n \in DOMAIN acked : n \in DOMAIN acked' /\ acked'[n] = acked[n]
    BY <2>1, <2>3 DEF With
  <2>5. finisher' = finisher
    BY <1>17 DEF PostVerify
  <2>6. Apart(p)
    BY <1>0, <2>2, <2>3, <2>4, <2>5 DEF Apart
  <2>7. CASE verify_run_root(bundle)
    <3>6. result'[p] # "failed"
      BY <1>0, <1>17, <2>7 DEF PostVerify, Tell, Outcome
    <3>1. /\ pc'[p] = "release"
          /\ job[p] = "replay" => acked' = With(acked, number[p], record[p])
      BY <1>0, <1>17, <2>7 DEF PostVerify, Move, Shape
    <3>2. Healthy'
      BY <2>2, <2>7 DEF Healthy
    <3>3. job[p] = "replay" => number[p] \in DOMAIN acked' /\ acked'[number[p]] = record[p]
      BY <3>1 DEF With
    <3>4. Stage(p)'
      BY <3>1, <3>2, <3>6 DEF Stage, Dirty
    <3>5. Noted(p)'
      BY <2>1, <2>2, <3>1, <3>3 DEF Noted
    <3> QED
      BY <1>0, <2>1, <2>2, <2>6, <3>4, <3>5, BundleInside DEF Inside
  <2>8. CASE ~verify_run_root(bundle)
    <3>1. pc'[p] = "undo" /\ todo'[p] = UndoOrder[job[p]]
      BY <1>0, <1>17, <2>8 DEF PostVerify, Fail, Move, Shape
    <3>2. Transaction(p)'
      BY <2>1, <2>2, <3>1 DEF Transaction
    <3>3. Stage(p)'
      BY <2>1, <2>2, <3>1, <3>2, FailStage
    <3>4. job[p] = "replay" => record[p] = Failed("test", FALSE)
      BY <2>1, <2>8, AppendVerifies
    <3>5. Noted(p)'
      BY <2>1, <2>2, <3>1, <3>4 DEF Noted
    <3> QED
      BY <1>0, <2>1, <2>2, <2>6, <3>3, <3>5, BundleInside DEF Inside
  <2> QED
    BY <2>7, <2>8
<1>18. ASSUME NEW p \in Procs, Undo(p) PROVE BundleInv'
  <2> DEFINE h == Head(todo[p])
             n == number[p]
  <2>19. Kept(p)
    BY DEF Typed
  <2>1. /\ pc[p] = "undo" /\ todo[p] # <<>> /\ todo[p] \in Seq(Files) /\ h \in Files
        /\ bundle' = [bundle EXCEPT ![h] = Restored(p, h)] /\ todo'[p] = Tail(todo[p])
        /\ job[p] \in {"replay", "report"} /\ (job[p] # "replay" => n = 0)
        /\ Transaction(p) /\ Progress(p) /\ OnlySaved(todo[p], job[p])
        /\ saved[p] = [f \in Saves[job[p]] |-> was[p][f]]
        /\ UNCHANGED <<lock, pc, job, number, record, saved, was, acked, faults, finisher>>
    BY <1>0, <1>18, <2>19 DEF Undo, Own, Working, Shape, Stage, Dirty, Kept, Restoring
  <2>2. Apart(p)
    BY <1>0, <2>1 DEF Apart
  <2>3. \A f \in Files : bundle[f] = was[p][f] \/ f \in Left(p) \cup Forgotten(p)
    BY <2>1 DEF Progress
  <2>18. h = "attempts" \/ h \in Saves[job[p]]
    <3>1. h = todo[p][1] /\ 1 \in DOMAIN todo[p]
      BY <2>1
    <3> QED
      BY <2>1, <3>1, Zenon DEF OnlySaved
  <2> HIDE DEF h
  <2>4. \A f \in Files \ Left(p)' : f = h \/ f \notin Left(p)
    BY <2>1, LeftTail DEF Left, h
  <2>5. DOMAIN bundle = BundleFields /\ h \in BundleFields
    BY <1>0, <2>1 DEF Shape, Files, BundleFields
  <2>6. /\ bundle'[h] = Restored(p, h)
        /\ \A f \in BundleFields \ {h} : bundle'[f] = bundle[f]
    BY <2>1, <2>5
  <2>7. Rec(bundle')
    BY <1>0, <2>1, <2>5 DEF Rec
  <2>8. /\ bundle'.staging = bundle.staging /\ bundle'.original = bundle.original
        /\ bundle'.claims = bundle.claims
    BY <2>1, <2>6 DEF Files, BundleFields
  <2>9. /\ Function(was[p].attempts) /\ n \notin DOMAIN was[p].attempts
        /\ bundle.attempts \in {was[p].attempts, With(was[p].attempts, n, record[p])}
    <3>1. Core(was[p]) /\ Function(was[p].attempts)
      BY <2>1 DEF Transaction
    <3>2. CASE job[p] = "replay"
      <4>1. n \in Nat \ {0} /\ DOMAIN was[p].attempts = 1..(n - 1)
        BY <2>1, <3>2 DEF Transaction
      <4>2. n \notin 1..(n - 1)
        BY <4>1
      <4> QED
        BY <2>1, <3>1, <3>2, <4>1, <4>2 DEF Transaction
    <3>3. CASE job[p] = "report"
      <4>1. 0 \notin 1..Cardinality(DOMAIN was[p].attempts)
        OBVIOUS
      <4>2. n = 0 /\ DOMAIN was[p].attempts = 1..Cardinality(DOMAIN was[p].attempts)
        BY <2>1, <3>1, <3>3 DEF Core, Contiguous
      <4> QED
        BY <2>1, <3>1, <3>3, <4>1, <4>2 DEF Transaction
    <3> QED
      BY <2>1, <3>2, <3>3
  <2>10. Without(bundle.attempts, n) = was[p].attempts
    BY <2>9, WithWithout
  <2>11. bundle'[h] = was[p][h]
    <3>1. CASE h = "attempts"
      BY <2>6, <2>10, <3>1 DEF Restored, n
    <3>2. CASE h # "attempts"
      <4>1. saved[p][h] = was[p][h]
        BY <2>1, <2>18, <3>2
      <4> QED
        BY <2>6, <3>2, <4>1 DEF Restored
    <3> QED
      BY <3>1, <3>2
  <2>12. Progress(p)'
    <3> SUFFICES ASSUME NEW f \in Files \ (Left(p)' \cup Forgotten(p))
                 PROVE  bundle'[f] = was[p][f]
      BY <2>1 DEF Progress, Forgotten
    <3>1. CASE f = h
      BY <2>11, <3>1
    <3>2. CASE f # h
      <4>1. f \in BundleFields
        BY DEF Files, BundleFields
      <4> QED
        BY <2>3, <2>4, <2>6, <3>2, <4>1
    <3> QED
      BY <3>1, <3>2
  <2>13. /\ bundle'.attempts \in {was[p].attempts, bundle.attempts}
         /\ bundle'.mirror \in {was[p].mirror, bundle.mirror}
         /\ bundle'.report \in {was[p].report, bundle.report}
    <3>1. \A f \in BundleFields : bundle'[f] \in {was[p][f], bundle[f]}
      BY <2>6, <2>11
    <3> QED
      BY <3>1 DEF BundleFields
  <2>14. Transaction(p)'
    BY <2>1, <2>8, <2>13 DEF Transaction
  <2>15. Function(bundle'.attempts)
    BY <1>0, <2>9, <2>13
  <2>16. Noted(p)'
    BY <1>0, <2>1 DEF Noted
  <2>17. Stage(p)'
    BY <2>1, <2>12, <2>14 DEF Stage, Dirty
  <2> QED
    BY <2>1, <2>2, <2>7, <2>15, <2>16, <2>17, BundleInside DEF Inside
<1>19. ASSUME NEW p \in Procs, UndoVerify(p) PROVE BundleInv'
  <2>1. /\ pc[p] = "undo" /\ pc'[p] = "release" /\ faults' = faults
        /\ UNCHANGED <<bundle, lock, job, number, record, was, acked>> /\ todo[p] = <<>>
        /\ result'[p] = IF verify_run_root(bundle) THEN "failed" ELSE "undo failed"
    BY <1>0, <1>19 DEF UndoVerify, Move, Tell, Shape
  <2>2. Apart(p)
    <3>1. /\ pc' = [pc EXCEPT ![p] = "release"]
          /\ UNCHANGED <<job, number, record, finisher, acked>>
          /\ faults' = faults
      BY <1>19, Zenon DEF UndoVerify, Fault, Move
    <3> QED
      BY <1>0, <3>1 DEF Apart, Shape
  <2>3. Healthy'
    <3>1. CASE verify_run_root(bundle)
      BY <2>1, <3>1 DEF Healthy
    <3>2. CASE ~verify_run_root(bundle)
      BY <2>1, <3>2 DEF Healthy, Clean
    <3> QED
      BY <3>1, <3>2
  <2>4. faults = 0 => record[p] \in {Absent, Failed("test", FALSE)}
    BY <1>0, <2>1 DEF Noted
  <2>5. job[p] # "replay" => record[p] = Absent
    BY <1>0 DEF Noted
  <2>7. result'[p] = "failed" => Undone(p)'
    <3> SUFFICES ASSUME verify_run_root(bundle) PROVE Undone(p)'
      BY <2>1
    <3>1. Transaction(p) /\ Progress(p)
      BY <1>0, <2>1 DEF Stage, Dirty
    <3>2. Left(p) = {}
      BY <2>1 DEF Left
    <3>3. \A f \in Files \ OtherSums : bundle[f] = was[p][f]
      BY <2>1, <3>1, <3>2 DEF Progress, Forgotten
    <3>4. \A f \in OtherSums : bundle[f] = was[p][f]
      BY <3>1 DEF Transaction, Core, verify_run_root, OtherSums
    <3>5. /\ bundle.staging = {} /\ Rec(was[p])
          /\ bundle.original = was[p].original /\ bundle.claims = was[p].claims
      BY <3>1 DEF Transaction
    <3>6. Undone(p)
      BY <3>3, <3>4, <3>5 DEF Undone, BundleFields, Files
    <3> QED
      BY <2>1, <3>6 DEF Undone
  <2>6. Stage(p)' /\ Noted(p)'
    BY <2>1, <2>3, <2>4, <2>5, <2>7 DEF Stage, Noted, Dirty
  <2> QED
    BY <1>0, <2>1, <2>2, <2>6, BundleInside DEF Inside
<1>20. ASSUME NEW p \in Procs, SnapshotFails(p) PROVE BundleInv'
  <2>1. /\ pc[p] = "snapshot" /\ job[p] = "replay" /\ pc'[p] = "drop" /\ faults' = faults + 1
        /\ UNCHANGED <<bundle, lock, job, number>>
    BY <1>0, <1>20 DEF SnapshotFails, Fault, Move, Tell, Shape
  <2>2. Apart(p)
    BY <1>0, <1>20 DEF SnapshotFails, Fault, Apart, Move, Tell, Shape
  <2>3. Reservation(p)
    BY <1>0, <2>1 DEF Stage
  <2>4. Reservation(p)'
    BY <2>1, <2>3 DEF Reservation
  <2>5. faults' >= 1
    BY <1>0, <2>1
  <2>6. Stage(p)' /\ Noted(p)'
    BY <2>1, <2>4, <2>5 DEF Stage, Noted, Dirty
  <2> QED
    BY <1>0, <2>1, <2>2, <2>6, BundleInside DEF Inside
<1>21. ASSUME NEW p \in Procs, RenameFails(p) PROVE BundleInv'
  <2>1. /\ pc[p] = "commit" /\ job[p] = "replay" /\ pc'[p] = "drop" /\ faults' = faults + 1
        /\ UNCHANGED <<bundle, lock, job, number>>
    BY <1>0, <1>21 DEF RenameFails, Fault, Move, Tell, Shape, Own, ReplayOnly
  <2>2. Apart(p)
    <3>1. /\ pc' = [pc EXCEPT ![p] = "drop"]
          /\ UNCHANGED <<job, number, record, finisher, acked>>
          /\ faults' = faults + 1
      BY <1>21, Zenon DEF RenameFails, Fault, Move
    <3> QED
      BY <1>0, <3>1 DEF Apart, Shape
  <2>3. Reservation(p)
    BY <1>0, <2>1 DEF Stage
  <2>4. Reservation(p)'
    BY <2>1, <2>3 DEF Reservation
  <2>5. faults' >= 1
    BY <1>0, <2>1
  <2>6. Stage(p)' /\ Noted(p)'
    BY <2>1, <2>4, <2>5 DEF Stage, Noted, Dirty
  <2> QED
    BY <1>0, <2>1, <2>2, <2>6, BundleInside DEF Inside
<1>22. ASSUME NEW p \in Procs, DropFails(p) PROVE BundleInv'
  <2>1. /\ pc[p] = "drop" /\ job[p] = "replay" /\ pc'[p] = "release" /\ faults' = faults + 1
        /\ UNCHANGED <<bundle, lock, job, result>>
    BY <1>0, <1>22 DEF DropFails, Fault, Move, Shape, Own, ReplayOnly
  <2>2. Apart(p)
    BY <1>0, <1>22 DEF DropFails, Fault, Apart, Move, Shape
  <2>3. faults >= 1
    BY <1>0, <2>1 DEF Stage
  <2>4. faults' > 1 /\ faults' # 0
    BY <1>0, <2>1, <2>3
  <2>5. Healthy'
    BY <2>4 DEF Healthy
  <2>7. result'[p] # "failed"
    BY <1>0, <2>1, Zenon DEF Told
  <2>6. Stage(p)' /\ Noted(p)'
    BY <2>1, <2>4, <2>5, <2>7 DEF Stage, Noted, Dirty
  <2> QED
    BY <1>0, <2>1, <2>2, <2>6, BundleInside DEF Inside
<1>23. ASSUME NEW p \in Procs, WriteFails(p) PROVE BundleInv'
  <2>1. /\ pc[p] \in Written /\ pc'[p] = "undo" /\ todo'[p] = UndoOrder[job[p]]
        /\ faults' = faults + 1 /\ UNCHANGED <<lock, job, number, record, was>>
        /\ job[p] \in {"replay", "report"}
        /\ pc[p] = "mirror" => job[p] = "replay"
        /\ pc[p] = "report" => job[p] = "report"
    BY <1>0, <1>23 DEF WriteFails, Fail, Fault, Move, Shape, Own, ReplayOnly, ReportOnly,
       Working, Written
  <2>2. Apart(p)
    BY <1>0, <1>23 DEF WriteFails, Fail, Fault, Apart, Move, Shape
  <2>3. Transaction(p)
    <3>1. CASE pc[p] = "report"
      BY <2>1, <3>1, ReportStarts
    <3>2. CASE pc[p] # "report"
      BY <1>0, <2>1, <3>2 DEF Stage, Dirty, Written
    <3> QED
      BY <3>1, <3>2
  <2>4. Transaction(p)' /\ Rec(bundle') /\ Function(bundle'.attempts)
    <3>1. CASE bundle' = bundle
      BY <1>0, <2>1, <2>3, <3>1 DEF Transaction, Written
    <3>2. CASE bundle' = [bundle EXCEPT ![pc[p]] = Torn]
      BY <1>0, <2>1, <2>3, <3>2, TransactionWrite DEF Written
    <3> QED
      BY <1>23, <3>1, <3>2 DEF WriteFails, Damaged
  <2>5. Stage(p)'
    BY <2>1, <2>4, FailStage
  <2>6. job[p] # "replay" => record[p] = Absent
    BY <1>0 DEF Noted
  <2>8. faults' # 0
    BY <1>0, <2>1
  <2>7. Noted(p)'
    BY <2>1, <2>6, <2>8 DEF Noted
  <2> QED
    BY <2>1, <2>2, <2>4, <2>5, <2>7, BundleInside DEF Inside, Written
<1>24. ASSUME NEW p \in Procs, CheckFails(p) PROVE BundleInv'
  <2>1. /\ pc[p] \in {"check", "verify"} /\ pc'[p] = "undo" /\ todo'[p] = UndoOrder[job[p]]
        /\ faults' = faults + 1 /\ UNCHANGED <<bundle, lock, job, number, record, was>>
        /\ job[p] \in {"replay", "report"}
    BY <1>0, <1>24 DEF CheckFails, Fail, Fault, Move, Shape, Own, Working
  <2>2. Apart(p)
    BY <1>0, <1>24 DEF CheckFails, Fail, Fault, Apart, Move, Shape
  <2>3. Transaction(p)
    BY <1>0, <2>1 DEF Stage, Dirty
  <2>4. Transaction(p)'
    BY <2>1, <2>3 DEF Transaction
  <2>5. Stage(p)'
    BY <2>1, <2>4, FailStage
  <2>6. job[p] # "replay" => record[p] = Absent
    BY <1>0 DEF Noted
  <2>8. faults' # 0
    BY <1>0, <2>1
  <2>7. Noted(p)'
    BY <2>1, <2>6, <2>8 DEF Noted
  <2> QED
    BY <1>0, <2>1, <2>2, <2>5, <2>7, BundleInside DEF Inside
<1>25. ASSUME NEW p \in Procs, UndoFails(p) PROVE BundleInv'
  <2>1. /\ pc[p] = "undo" /\ pc'[p] = "release" /\ UNCHANGED <<lock, job, record>>
        /\ result'[p] = "undo failed"
    BY <1>0, <1>25 DEF UndoFails, Move, Tell, Shape
  <2>9. faults' = faults + 1
    BY <1>25, Zenon DEF UndoFails, Fault
  <2>2. Apart(p)
    <3>1. /\ pc' = [pc EXCEPT ![p] = "release"]
          /\ UNCHANGED <<job, number, record, finisher, acked>>
          /\ faults' = faults + 1
      BY <1>25, Zenon DEF UndoFails, Fault, Move
    <3> QED
      BY <1>0, <3>1 DEF Apart, Shape
  <2>3. DOMAIN bundle = BundleFields
    BY <1>0 DEF Shape
  <2>4. Rec(bundle') /\ Function(bundle'.attempts)
    <3>1. CASE bundle' = bundle
      BY <1>0, <3>1
    <3>2. CASE bundle' \in HalfRemoved(p) /\ bundle' # bundle
      <4>1. bundle' = [bundle EXCEPT !.attempts = Without(@, number[p]),
                                     !.staging = @ \cup {number[p]}]
        BY <3>2 DEF HalfRemoved
      <4>2. bundle'.attempts = Without(bundle.attempts, number[p])
        BY <2>3, <4>1 DEF BundleFields
      <4>3. Rec(bundle')
        BY <2>3, <4>1 DEF Rec
      <4>4. Function(bundle'.attempts)
        BY <4>2 DEF Function, Without
      <4> QED
        BY <4>3, <4>4
    <3>3. CASE \E g \in Files \ {"attempts"} : bundle' = [bundle EXCEPT ![g] = Torn]
      <4>1. PICK g \in Files \ {"attempts"} : bundle' = [bundle EXCEPT ![g] = Torn]
        BY <3>3
      <4>2. bundle'.attempts = bundle.attempts
        BY <2>3, <4>1 DEF BundleFields
      <4>3. Rec(bundle')
        BY <2>3, <4>1 DEF Rec
      <4> QED
        BY <1>0, <4>2, <4>3
    <3>4. todo[p] # <<>> => Head(todo[p]) \in Files
      BY <1>0 DEF Shape
    <3> QED
      BY <1>25, <3>1, <3>2, <3>3, <3>4 DEF UndoFails, Damaged
  <2>5. Healthy'
    BY <2>1 DEF Healthy, Clean
  <2>6. job[p] # "replay" => record[p] = Absent
    BY <1>0 DEF Noted
  <2>8. faults' # 0
    BY <1>0, <2>9
  <2>7. Stage(p)' /\ Noted(p)'
    BY <2>1, <2>5, <2>6, <2>8 DEF Stage, Noted, Dirty
  <2> QED
    BY <2>1, <2>2, <2>4, <2>7, BundleInside DEF Inside
<1>26. ASSUME NEW p \in Procs, ReleaseFails(p) PROVE BundleInv'
  <2>1. /\ pc'[p] = "ended" /\ faults' = faults + 1
        /\ UNCHANGED <<bundle, lock, job, record, was, todo, result>>
    BY <1>0, <1>26 DEF ReleaseFails, Fault, Move, Shape
  <2>2. Apart(p)
    BY <1>0, <1>26 DEF ReleaseFails, Fault, Apart, Move, Shape
  <2>3. Healthy => Healthy'
    BY <1>0, <2>1, <2>2, HealthyKept
  <2>4. job[p] # "replay" => record[p] = Absent
    BY <1>0 DEF Noted
  <2>6. faults' # 0
    BY <1>0, <2>1
  <2>5. Noted(p)'
    BY <2>1, <2>4, <2>6 DEF Noted
  <2> QED
    BY <2>1, <2>2, <2>3, <2>5, BundleOutside DEF Inside
<1>27. ASSUME NEW p \in Procs, Crash(p) PROVE BundleInv'
  <2>1. /\ pc'[p] = "crashed" /\ faults' = faults + 1
        /\ UNCHANGED <<bundle, lock, job, record, was, todo, result>>
    BY <1>0, <1>27 DEF Crash, Fault, Move, Shape
  <2>2. Apart(p)
    BY <1>0, <1>27 DEF Crash, Fault, Apart, Move, Shape
  <2>3. Healthy => Healthy'
    BY <1>0, <2>1, <2>2, HealthyKept
  <2>4. job[p] # "replay" => record[p] = Absent
    BY <1>0 DEF Noted
  <2>6. faults' # 0
    BY <1>0, <2>1
  <2>5. Noted(p)'
    BY <2>1, <2>4, <2>6 DEF Noted
  <2> QED
    BY <2>1, <2>2, <2>3, <2>5, BundleOutside DEF Inside
<1>28. ASSUME NEW p \in Procs, SumOther(p) PROVE BundleInv'
  <2>1. /\ pc[p] \in OtherSums /\ Transaction(p) /\ Progress(p) /\ pc'[p] = AfterOther[pc[p]]
        /\ bundle' = [bundle EXCEPT ![pc[p]] = OtherFiles]
        /\ UNCHANGED <<lock, job, number, record, was, acked>>
    BY <1>0, <1>28 DEF SumOther, OtherSums, Stage, Dirty, Move, Shape
  <2>2. Apart(p)
    BY <1>0, <1>28 DEF SumOther, Apart, Move, Shape
  <2>3. Transaction(p)' /\ Rec(bundle') /\ Function(bundle'.attempts)
    BY <1>0, <2>1, TransactionWrite DEF Written, OtherSums
  <2>4. job[p] # "replay" => record[p] = Absent
    BY <1>0 DEF Noted
  <2>5. CASE pc[p] = "earlier_sums"
    <3>1. pc'[p] = "scenario_sums"
      BY <2>1, <2>5 DEF AfterOther
    <3>2. bundle'.earlier_sums = OtherFiles /\ bundle'.mirror = bundle.mirror
      BY <1>0, <2>1, <2>5 DEF Shape, BundleFields
    <3>3. Progress(p)'
      BY <2>1, <2>5, <3>1, <3>2 DEF Progress
    <3>4. Stage(p)' /\ Noted(p)'
      BY <2>1, <2>3, <2>4, <3>1, <3>3 DEF Stage, Noted, Dirty
    <3> QED
      BY <2>1, <2>2, <2>3, <2>5, <3>4, BundleInside DEF Inside
  <2>6. CASE pc[p] = "later_sums"
    <3>1. pc'[p] = "root_sums"
      BY <2>1, <2>6 DEF AfterOther
    <3>2. /\ bundle'.later_sums = OtherFiles /\ bundle'.earlier_sums = bundle.earlier_sums
          /\ bundle'.scenario_sums = bundle.scenario_sums
          /\ bundle'.attempts = bundle.attempts /\ bundle'.mirror = bundle.mirror
      BY <1>0, <2>1, <2>6 DEF Shape, BundleFields
    <3>3. ScenarioFiles(bundle') = ScenarioFiles(bundle)
      BY <3>2 DEF ScenarioFiles
    <3>4. Progress(p)'
      BY <2>1, <2>6, <3>1, <3>2, <3>3 DEF Progress
    <3>5. Stage(p)' /\ Noted(p)'
      BY <2>1, <2>3, <2>4, <3>1, <3>4 DEF Stage, Noted, Dirty
    <3> QED
      BY <2>1, <2>2, <2>3, <2>6, <3>5, BundleInside DEF Inside
  <2> QED
    BY <2>1, <2>5, <2>6 DEF OtherSums
<1>30. ~FinishScan
  BY <1>0 DEF FinishScan, FinishClaims, FinishSumOther, OtherSums, FinishSumScenario,
     FinishSumRun, FinishVerify
<1>29. CASE UNCHANGED vars
  <2>1. UNCHANGED <<bundle, lock, pc, job, number, record, saved, was, todo, result, finisher,
                    acked, faults>>
    BY <1>29 DEF vars
  <2>2. ASSUME NEW p \in Procs PROVE Stage(p)' /\ Noted(p)'
    <3>1. Left(p)' = Left(p)
      BY <2>1 DEF Left
    <3>2. /\ Reservation(p) => Reservation(p)'
          /\ Transaction(p) => Transaction(p)'
          /\ Progress(p) => Progress(p)'
          /\ Undone(p) => Undone(p)'
          /\ Healthy => Healthy'
      BY <2>1, <3>1 DEF Reservation, Transaction, Progress, Forgotten, Undone, Healthy, Clean
    <3>3. Stage(p)'
      BY <1>0, <2>1, <3>2 DEF Stage
    <3> QED
      BY <1>0, <2>1, <3>3 DEF Noted
  <2>3. Healthy => Healthy'
    BY <2>1 DEF Healthy, Clean
  <2> QED
    BY <1>0, <2>1, <2>2, <2>3 DEF BundleInv
<1> QED
  BY <1>1, <1>2, <1>3, <1>4, <1>5, <1>6, <1>7, <1>8, <1>9, <1>10, <1>11, <1>12,
     <1>13, <1>14, <1>15, <1>16, <1>17, <1>18, <1>19, <1>20, <1>21, <1>22, <1>23,
     <1>24, <1>25, <1>26, <1>27, <1>28, <1>29, <1>30
     DEF Next, Step, FaultStep

\* What a finished scan leaves verifies.
LEMMA SealedVerifies ==
  ASSUME ~Finishing, NEW o, NEW r
  PROVE  verify_run_root(Sealed(o, r))
<1> DEFINE b == Sealed(o, r)
<1>1. /\ b.staging = {} /\ b.attempts = NoAttempts /\ b.mirror = Absent
      /\ b.scenario_sums = [attempts |-> NoAttempts, mirror |-> Absent]
      /\ b.earlier_sums = OtherFiles /\ b.later_sums = OtherFiles
      /\ b.root_sums = [claims |-> b.claims, report |-> b.report,
                        scenario |-> b.scenario_sums, earlier |-> b.earlier_sums,
                        later |-> b.later_sums]
  BY DEF Sealed
<1>2. DOMAIN NoAttempts = {}
  BY DEF NoAttempts
<1> HIDE DEF b
<1>3. Contiguous(b) /\ b.mirror = Latest(b)
  <2>1. Cardinality({}) = 0 /\ 1..0 = {}
    BY FS_EmptySet
  <2> QED
    BY <1>1, <1>2, <2>1 DEF Contiguous, Latest
<1>4. b.scenario_sums = ScenarioFiles(b) /\ b.root_sums = RunFiles(b)
  BY <1>1 DEF ScenarioFiles, RunFiles
<1> QED
  BY <1>1, <1>2, <1>3, <1>4 DEF verify_run_root, b

LEMMA BundleInit ==
  ASSUME ~Finishing, Init
  PROVE  BundleInv
<1>1. PICK o \in Recorded, r \in {"absent", "scan"} : bundle = Sealed(o, r)
  BY DEF Init
<1>2. verify_run_root(bundle)
  BY <1>1, SealedVerifies
<1>3. /\ finisher = "done" /\ faults = 0
      /\ \A p \in Procs : pc[p] = "start" /\ record[p] = Absent
  BY DEF Init
<1>4. Rec(bundle) /\ Function(bundle.attempts)
  <2>1. bundle.attempts = NoAttempts
    BY <1>1 DEF Sealed
  <2>2. Function(bundle.attempts)
    BY <2>1 DEF Function, NoAttempts
  <2>3. Rec(bundle)
    BY <1>1 DEF Rec, Sealed, BundleFields
  <2> QED
    BY <2>2, <2>3
<1>5. Healthy
  BY <1>2 DEF Healthy
<1>6. \A p \in Procs : Stage(p) /\ Noted(p)
  BY <1>3 DEF Stage, Noted, Dirty
<1> QED
  BY <1>3, <1>4, <1>5, <1>6 DEF BundleInv

LEMMA BundleCorrect ==
  ASSUME ~Finishing
  PROVE  Spec => [](LogInv /\ TellInv /\ Typed /\ BundleInv)
<1>1. Init => BundleInv
  BY BundleInit
<1>2. LogInv /\ TellInv /\ Typed /\ BundleInv /\ LogInv' /\ [Next]_vars => BundleInv'
  BY BundleStep
<1>4. LogInv /\ Typed /\ [Next]_vars => Typed'
  BY BundleTypes, KeptStep, RestStep DEF Typed
<1>3. LogInv /\ TellInv /\ LogInv' /\ [Next]_vars => TellInv'
  BY TellStep
<1> QED
  BY <1>1, <1>2, <1>3, <1>4, LogInit, LogStep, TellInit, TypedInit, PTL DEF Spec

-----------------------------------------------------------------------------
\* However far a replay or a report got before it failed, and whatever a failed
\* write left of a file: an undo that has run to its end has put back every file of
\* before the first write but the other scenarios' checksums after a replay; and a
\* caller who hears of a failure, and not of the undo's, finds the bundle as it was.
THEOREM UndoCorrect ==
  ASSUME ~Finishing
  PROVE  Spec => []UndoRestores
<1>1. ASSUME NEW p \in Procs, NEW f \in BundleFields, Rec(was[p])
      PROVE  [was[p] EXCEPT !.staging = {}][f] = IF f = "staging" THEN {} ELSE was[p][f]
  <2>1. DOMAIN was[p] = BundleFields
    BY <1>1 DEF Rec
  <2> QED
    BY <1>1, <2>1
<1>2. BundleInv => UndoRestores
  <2> SUFFICES ASSUME BundleInv, NEW p \in Procs
               PROVE  /\ pc[p] = "undo" /\ todo[p] = <<>> => Changed(p) \subseteq Forgotten(p)
                      /\ pc[p] = "release" /\ result[p] = "failed" => Changed(p) = {}
    BY DEF UndoRestores, Forgotten
  <2>1. DOMAIN bundle = BundleFields
    BY DEF BundleInv, Rec
  <2>2. ASSUME pc[p] = "undo", todo[p] = <<>> PROVE Changed(p) \subseteq Forgotten(p)
    <3>1. Transaction(p) /\ Progress(p)
      BY <2>2 DEF BundleInv, Stage, Dirty
    <3>2. Left(p) = {}
      BY <2>2 DEF Left
    <3>3. \A f \in Files \ Forgotten(p) : bundle[f] = was[p][f]
      BY <2>2, <3>1, <3>2 DEF Progress
    <3>4. /\ bundle.original = was[p].original /\ bundle.claims = was[p].claims
          /\ bundle.staging = {} /\ Rec(was[p])
      BY <3>1 DEF Transaction
    <3>5. \A f \in BundleFields \ Forgotten(p) :
            bundle[f] = IF f = "staging" THEN {} ELSE was[p][f]
      BY <3>3, <3>4 DEF BundleFields, Files
    <3> QED
      BY <1>1, <2>1, <3>4, <3>5 DEF Changed
  <2>3. ASSUME pc[p] = "release", result[p] = "failed" PROVE Changed(p) = {}
    <3>1. Undone(p)
      BY <2>3 DEF BundleInv, Stage
    <3> QED
      BY <1>1, <2>1, <3>1 DEF Changed, Undone
  <2> QED
    BY <2>2, <2>3
<1> QED
  BY <1>2, BundleCorrect, PTL

\* One I/O error or crash, wherever it strikes, leaves either a lock file, a caller
\* who was told that the undo failed, or a bundle that verifies.
THEOREM OneFaultCorrect ==
  ASSUME ~Finishing
  PROVE  Spec => []OneFaultIsHarmless
<1>1. BundleInv => OneFaultIsHarmless
  <2> SUFFICES ASSUME BundleInv, lock = None, faults <= 1
               PROVE  verify_run_root(bundle) \/ \E p \in Procs : result[p] = "undo failed"
    BY DEF OneFaultIsHarmless
  <2>1. Healthy /\ faults \in Nat
    BY DEF BundleInv
  <2>2. ~(faults > 1)
    <3>1. \A n \in Nat : n <= 1 => ~(n > 1)
      OBVIOUS
    <3> QED
      BY <2>1, <3>1
  <2> QED
    BY <2>1, <2>2 DEF Healthy, Clean
<1> QED
  BY <1>1, BundleCorrect, PTL

\* Nothing that another operation, a fault or a crash does can change the bundle a
\* replay runs against, from its reservation to its commit.
THEOREM ExecutesCorrect ==
  ASSUME ~Finishing
  PROVE  Spec => []ExecutesOnVerified
<1>1. BundleInv => ExecutesOnVerified
  <2> SUFFICES ASSUME BundleInv, NEW p \in Procs, job[p] = "replay",
                      pc[p] \in {"execute", "snapshot", "commit"}
               PROVE  /\ bundle.staging = {number[p]}
                      /\ verify_run_root([bundle EXCEPT !.staging = {}])
    BY DEF ExecutesOnVerified
  <2>1. Reservation(p) /\ Rec(bundle)
    BY DEF BundleInv, Stage
  <2> DEFINE b == [bundle EXCEPT !.staging = {}]
  <2>2. DOMAIN bundle = BundleFields
    BY <2>1 DEF Rec
  <2>3. /\ b.original = bundle.original /\ b.attempts = bundle.attempts
        /\ b.mirror = bundle.mirror /\ b.claims = bundle.claims
        /\ b.report = bundle.report /\ b.scenario_sums = bundle.scenario_sums
        /\ b.earlier_sums = bundle.earlier_sums /\ b.later_sums = bundle.later_sums
        /\ b.root_sums = bundle.root_sums /\ b.staging = {}
    BY <2>2 DEF BundleFields
  <2> HIDE DEF b
  <2>4. Core(b)
    BY <2>1, <2>3, CoreFields DEF Reservation
  <2>5. verify_run_root(b)
    BY <2>3, <2>4, VerifyCore
  <2> QED
    BY <2>1, <2>5 DEF Reservation, b
<1> QED
  BY <1>1, BundleCorrect, PTL

\* Without I/O errors a replay that ran anything ends with its attempt in the
\* bundle, unless the tests could not be executed: its own post-verification
\* refuses no other record, whatever the recorded result is.
THEOREM RecordedCorrect ==
  ASSUME ~Finishing
  PROVE  Spec => []ExecutionsAreRecorded
<1>1. LogInv /\ BundleInv => ExecutionsAreRecorded
  <2> SUFFICES ASSUME LogInv, BundleInv, NEW p \in Procs, pc[p] = "ended",
                      record[p] # Absent, faults = 0, record[p] # Failed("test", FALSE)
               PROVE  /\ number[p] \in DOMAIN bundle.attempts
                      /\ bundle.attempts[number[p]] = record[p]
    BY DEF ExecutionsAreRecorded, Executed
  <2>1. number[p] \in DOMAIN acked /\ acked[number[p]] = record[p]
    BY DEF BundleInv, Noted
  <2> QED
    BY <2>1 DEF LogInv, AckedSurvive
<1> QED
  BY <1>1, BundleCorrect, PTL

\* Where the bundle is broken and nobody is past its verification, no step of any
\* operation touches it.
THEOREM BrokenCorrect ==
  ASSUME ~Finishing
  PROVE  Spec => BrokenStaysBroken
<1>1. LogInv /\ BundleInv /\ [Next]_vars =>
        [~verify_run_root(bundle) /\ Unattended => bundle' = bundle /\ Unattended']_vars
  <2> SUFFICES ASSUME LogInv, BundleInv, Next, ~verify_run_root(bundle), Unattended
               PROVE  bundle' = bundle /\ Unattended'
    OBVIOUS
  <2>1. finisher = "done" /\ pc \in [Procs -> Phases]
    BY DEF LogInv, Shape, BundleInv
  <2>2. PICK p \in Procs : Step(p) \/ FaultStep(p)
    BY <2>1 DEF Next, FinishScan, FinishClaims, FinishSumOther, OtherSums,
       FinishSumScenario, FinishSumRun, FinishVerify
  <2>3. pc[p] \in {"start", "lock", "locked", "release", "ended", "crashed"}
    BY <2>1 DEF Unattended, Phases, Inside
  <2>4. /\ bundle' = bundle
        /\ \E phase \in {"lock", "ended", "locked", "release", "crashed"} :
              pc' = [pc EXCEPT ![p] = phase]
    <3>1. CASE Step(p)
      <4>1. VerifyFirst(p) \/ Acquire(p) \/ VerifyLocked(p) \/ Release(p)
        BY <2>3, <3>1 DEF Step, Refuse, Prepare, Reserve, Execute, Snapshot, Commit,
           DropStaging, WriteMirror, WriteReport, CheckReport, SumOther, OtherSums,
           SumScenario, SumRun,
           PostVerify, Undo, UndoVerify
      <4>2. CASE VerifyFirst(p)
        BY <4>2 DEF VerifyFirst, Move
      <4>3. CASE Acquire(p)
        BY <4>3 DEF Acquire, Move
      <4>4. CASE VerifyLocked(p)
        BY <4>4 DEF VerifyLocked, Move
      <4>5. CASE Release(p)
        BY <4>5 DEF Release, Move
      <4> QED
        BY <4>1, <4>2, <4>3, <4>4, <4>5
    <3>2. CASE FaultStep(p)
      <4>1. ReleaseFails(p) \/ Crash(p)
        BY <2>3, <3>2 DEF FaultStep, SnapshotFails, RenameFails, DropFails, WriteFails,
           Written, CheckFails, UndoFails
      <4> QED
        BY <4>1 DEF ReleaseFails, Crash, Move
    <3> QED
      BY <2>2, <3>1, <3>2
  <2> QED
    BY <2>1, <2>4 DEF Unattended, Inside
<1> QED
  BY <1>1, BundleCorrect, PTL DEF Spec, BrokenStaysBroken

=============================================================================
