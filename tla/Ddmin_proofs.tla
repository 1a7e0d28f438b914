----------------------------- MODULE Ddmin_proofs -----------------------------
(***************************************************************************)
(* The library's delta debugging implements DeltaDebug for every set of     *)
(* changes and every number of required reruns.  The invariant says what    *)
(* each phase has already seen of the set that is left.                     *)
(***************************************************************************)
EXTENDS Ddmin, FiniteSetTheorems, TLAPS

Searching == pc \in {"search", "confirm", "add", "subtract"}

\* Each addition settled by Add, each one at all after it, showed the failure.
AdditionsSeen ==
  /\ pc = "add" => \A c \in settled : outcome[minimal \cup {c}] = "same"
  /\ pc = "subtract" => \A c \in Changes \ minimal : outcome[minimal \cup {c}] = "same"

SubtractionsSeen ==
  pc = "subtract" => /\ settled \subseteq minimal
                     /\ \A c \in settled : outcome[minimal \ {c}] = "different"

Evidence ==
  /\ pc = "original" => minimal = Changes
  /\ Searching => outcome[minimal] = "same"
  /\ AdditionsSeen /\ SubtractionsSeen
  /\ answer = "ProvenMinimal" => Abstract!Minimal(minimal)

\* The answer is given once, and only then is the status set.
Answered ==
  /\ status = "open" <=> pc # "done"
  /\ answer # "none" => pc \in {"return", "done"}
  /\ pc = "return" => answer \in Statuses
  /\ status = "ProvenMinimal" => answer = "ProvenMinimal"

IInv == TypeOK /\ Evidence /\ Answered

-----------------------------------------------------------------------------
LEMMA AnswersOfProbes ==
  /\ \A v \in {"Pass", "Fail", "Flaky", "Blocked", "Inconclusive"} :
       /\ status_for_non_failure[v] \in Statuses \ {"ProvenMinimal"}
       /\ status_for_failed_rerun[v] \in Statuses \ {"ProvenMinimal"}
       /\ status_for_non_minimal_probe[v] \in Statuses \ {"ProvenMinimal"}
  /\ "none" \notin Statuses /\ "open" \notin Statuses /\ "error" \notin Statuses
BY DEF Statuses, status_for_non_failure, status_for_failed_rerun, status_for_non_minimal_probe

LEMMA Classes ==
  ASSUME NEW o \in Observations
  PROVE  /\ Class(o) \in {"same", "different", "unclear"}
         /\ o.target <=> Class(o) = "same"
         /\ o.verdict \in {"Pass", "Fail", "Flaky", "Blocked", "Inconclusive"}
         /\ o.observed \in BOOLEAN
         /\ Necessary(o) => Class(o) = "different"
BY DEF Class, Observations, Necessary

LEMMA InitInv == Init => IInv
BY DdminAssumption DEF Init, IInv, TypeOK, Evidence, Searching, AdditionsSeen,
   SubtractionsSeen, Answered, Statuses

\* What one execution of S leaves of the records.
LEMMA RunType ==
  ASSUME TypeOK, NEW S \in SUBSET Changes, NEW o \in Observations, Run(S, o)
  PROVE  /\ outcome' \in [SUBSET Changes -> {"untested", "same", "different", "unclear"}]
         /\ outcome'[S] = Class(o)
         /\ \A T \in SUBSET Changes : T # S => outcome'[T] = outcome[T]
         /\ observed' \in BOOLEAN /\ executions' \in Nat
BY Classes DEF Run, TypeOK

\* Any answer but a proof ends the reduction and claims nothing.
LEMMA AnswerKeeps ==
  ASSUME IInv, pc \notin {"return", "done"},
         NEW S \in SUBSET Changes, NEW o \in Observations, Run(S, o),
         NEW a \in Statuses \ {"ProvenMinimal"}, Answer(a)
  PROVE  IInv'
<1>1. TypeOK'
  BY RunType DEF IInv, TypeOK, Answer
<1>2. Evidence'
  BY DEF Evidence, Searching, AdditionsSeen, SubtractionsSeen, Answer
<1>3. Answered'
  BY AnswersOfProbes DEF IInv, Answered, Answer
<1> QED
  BY <1>1, <1>2, <1>3 DEF IInv

LEMMA RunsType == 
  ASSUME TypeOK
  PROVE  /\ 0 \in 0..(Required - 1)
         /\ runs + 1 # Required => runs + 1 \in 0..(Required - 1)
BY DdminAssumption DEF TypeOK

LEMMA StepInv == IInv /\ [Next]_vars => IInv'
<1> SUFFICES ASSUME IInv, [Next]_vars PROVE IInv'
  OBVIOUS
<1> USE DEF IInv
<1>1. CASE Original
  <2>1. PICK o \in Observations :
          /\ runs = 0 /\ o.verdict = "Fail" => o.target
          /\ Run(Changes, o)
          /\ IF o.target
             THEN IF runs + 1 = Required THEN Goto("search") ELSE Again
             ELSE Answer(IF runs = 0 THEN status_for_non_failure[o.verdict]
                         ELSE status_for_failed_rerun[o.verdict])
    BY <1>1 DEF Original
  <2>2. pc = "original"
    BY <1>1 DEF Original
  <2>3. CASE o.target /\ runs + 1 = Required
    <3>1. Goto("search") /\ outcome'[Changes] = "same"
      BY <2>1, <2>3, Classes, RunType
    <3>2. TypeOK'
      BY <2>1, <3>1, RunType, RunsType DEF TypeOK, Goto
    <3>3. minimal' = Changes
      BY <2>2, <3>1 DEF Goto, Evidence
    <3> QED
      BY <2>2, <3>1, <3>2, <3>3 DEF Goto, Evidence, Searching, AdditionsSeen, SubtractionsSeen,
         Answered
  <2>4. CASE o.target /\ runs + 1 # Required
    <3>1. TypeOK'
      BY <2>1, <2>4, RunType, RunsType DEF TypeOK, Again
    <3> QED
      BY <2>1, <2>2, <2>4, <3>1 DEF Again, Evidence, Searching, AdditionsSeen, SubtractionsSeen,
         Answered
  <2>5. CASE ~o.target
    BY <2>1, <2>2, <2>5, AnswerKeeps, AnswersOfProbes, Classes
  <2> QED
    BY <2>3, <2>4, <2>5
<1>2. CASE Search
  <2>1. PICK c \in minimal \ settled, o \in Observations :
          /\ Run(minimal \ {c}, o)
          /\ CASE Class(o) = "same"      -> Remove(c)
               [] Class(o) = "different" -> Settle(c)
               [] Class(o) = "unclear"   -> Answer(status_for_non_failure[o.verdict])
    BY <1>2 DEF Search
  <2>2. pc = "search" /\ minimal \ {c} \in SUBSET Changes /\ minimal \in SUBSET Changes
    BY <1>2 DEF Search, TypeOK
  <2>3. CASE Class(o) = "same"
    <3>1. Remove(c) /\ outcome'[minimal \ {c}] = "same"
      BY <2>1, <2>2, <2>3, RunType
    <3>2. TypeOK'
      BY <2>1, <2>2, <3>1, RunType DEF TypeOK, Remove
    <3> QED
      BY <2>2, <3>1, <3>2 DEF Remove, Evidence, Searching, AdditionsSeen, SubtractionsSeen,
         Answered
  <2>4. CASE Class(o) = "different"
    <3>1. Settle(c) /\ outcome'[minimal] = outcome[minimal]
      BY <2>1, <2>2, <2>4, RunType, minimal # minimal \ {c}
    <3>2. TypeOK'
      BY <2>1, <2>2, <3>1, RunType DEF TypeOK, Settle
    <3> QED
      BY <2>2, <3>1, <3>2 DEF Settle, Evidence, Searching, AdditionsSeen, SubtractionsSeen,
         Answered
  <2>5. CASE Class(o) = "unclear"
    <3>1. Answer(status_for_non_failure[o.verdict])
      BY <2>1, <2>5
    <3> QED
      BY <2>1, <2>2, <3>1, AnswerKeeps, AnswersOfProbes, Classes
  <2> QED
    BY <2>3, <2>4, <2>5, Classes
<1>3. CASE Searched
  <2>1. TypeOK'
    BY <1>3, RunsType DEF Searched, TypeOK, Goto
  <2> QED
    BY <1>3, <2>1 DEF Searched, Goto, Evidence, Searching, AdditionsSeen, SubtractionsSeen,
       Answered
<1>4. CASE Confirm
  <2>1. PICK o \in Observations :
          /\ Run(minimal, o)
          /\ IF o.target
             THEN IF runs + 1 = Required THEN Goto("add") ELSE Again
             ELSE Answer(status_for_failed_rerun[o.verdict])
    BY <1>4 DEF Confirm
  <2>2. pc = "confirm" /\ minimal \in SUBSET Changes
    BY <1>4 DEF Confirm, TypeOK
  <2>3. CASE o.target /\ runs + 1 = Required
    <3>1. Goto("add") /\ outcome'[minimal] = "same"
      BY <2>1, <2>2, <2>3, Classes, RunType
    <3>2. TypeOK'
      BY <2>1, <2>2, <3>1, RunType, RunsType DEF TypeOK, Goto
    <3> QED
      BY <2>2, <3>1, <3>2 DEF Goto, Evidence, Searching, AdditionsSeen, SubtractionsSeen, Answered
  <2>4. CASE o.target /\ runs + 1 # Required
    <3>1. Again /\ outcome'[minimal] = "same"
      BY <2>1, <2>2, <2>4, Classes, RunType
    <3>2. TypeOK'
      BY <2>1, <2>2, <2>4, <3>1, RunType, RunsType DEF TypeOK, Again
    <3> QED
      BY <2>2, <3>1, <3>2 DEF Again, Evidence, Searching, AdditionsSeen, SubtractionsSeen, Answered
  <2>5. CASE ~o.target
    BY <2>1, <2>2, <2>5, AnswerKeeps, AnswersOfProbes, Classes
  <2> QED
    BY <2>3, <2>4, <2>5
<1>5. CASE Add
  <2>1. PICK c \in (Changes \ minimal) \ settled, o \in Observations :
          /\ Run(minimal \cup {c}, o)
          /\ IF o.observed /\ o.target THEN Settle(c)
             ELSE Answer(status_for_non_minimal_probe[o.verdict])
    BY <1>5 DEF Add
  <2>2. /\ pc = "add" /\ minimal \in SUBSET Changes /\ minimal \cup {c} \in SUBSET Changes
        /\ minimal # minimal \cup {c}
    BY <1>5 DEF Add, TypeOK
  <2>3. CASE o.observed /\ o.target
    <3>1. /\ Settle(c) /\ outcome'[minimal] = "same"
          /\ outcome'[minimal \cup {c}] = "same"
      BY <2>1, <2>2, <2>3, RunType, Classes DEF Evidence, Searching
    <3>2. \A d \in settled' : outcome'[minimal \cup {d}] = "same"
      <4> SUFFICES ASSUME NEW d \in settled' PROVE outcome'[minimal \cup {d}] = "same"
        OBVIOUS
      <4>1. minimal \cup {d} \in SUBSET Changes /\ (d = c \/ d \in settled)
        BY <2>2, <3>1 DEF Settle, TypeOK
      <4>2. CASE minimal \cup {d} = minimal \cup {c}
        BY <3>1, <4>2
      <4>3. CASE minimal \cup {d} # minimal \cup {c}
        <5>1. outcome'[minimal \cup {d}] = outcome[minimal \cup {d}]
          BY <2>1, <2>2, <4>1, <4>3, RunType
        <5> QED
          BY <2>2, <4>1, <4>3, <5>1 DEF Evidence, AdditionsSeen
      <4> QED
        BY <4>2, <4>3
    <3>3. TypeOK'
      BY <2>1, <2>2, <3>1, RunType DEF TypeOK, Settle
    <3> QED
      BY <2>2, <3>1, <3>2, <3>3 DEF Settle, Evidence, Searching, AdditionsSeen,
         SubtractionsSeen, Answered
  <2>4. CASE ~(o.observed /\ o.target)
    BY <2>1, <2>2, <2>4, AnswerKeeps, AnswersOfProbes, Classes
  <2> QED
    BY <2>3, <2>4
<1>6. CASE Added
  <2>1. TypeOK'
    BY <1>6, RunsType DEF Added, TypeOK, Goto
  <2> QED
    BY <1>6, <2>1 DEF Added, Goto, Evidence, Searching, AdditionsSeen, SubtractionsSeen, Answered
<1>7. CASE Subtract
  <2>1. PICK c \in minimal \ settled, o \in Observations :
          /\ Run(minimal \ {c}, o)
          /\ IF Necessary(o) THEN Settle(c)
             ELSE Answer(status_for_non_minimal_probe[o.verdict])
    BY <1>7 DEF Subtract
  <2>2. /\ pc = "subtract" /\ minimal \in SUBSET Changes /\ minimal \ {c} \in SUBSET Changes
        /\ minimal # minimal \ {c}
    BY <1>7 DEF Subtract, TypeOK
  <2>3. CASE Necessary(o)
    <3>1. /\ Settle(c) /\ outcome'[minimal] = "same"
          /\ outcome'[minimal \ {c}] = "different"
      BY <2>1, <2>2, <2>3, RunType, Classes DEF Evidence, Searching
    <3>2. \A d \in Changes \ minimal : outcome'[minimal \cup {d}] = "same"
      <4> SUFFICES ASSUME NEW d \in Changes \ minimal PROVE outcome'[minimal \cup {d}] = "same"
        OBVIOUS
      <4>1. minimal \cup {d} \in SUBSET Changes /\ minimal \cup {d} # minimal \ {c}
        BY <2>2
      <4>2. outcome'[minimal \cup {d}] = outcome[minimal \cup {d}]
        BY <2>1, <2>2, <4>1, RunType
      <4> QED
        BY <2>2, <4>2 DEF Evidence, AdditionsSeen
    <3>3. \A d \in settled' : d \in minimal /\ outcome'[minimal \ {d}] = "different"
      <4> SUFFICES ASSUME NEW d \in settled'
                   PROVE  d \in minimal /\ outcome'[minimal \ {d}] = "different"
        OBVIOUS
      <4>1. minimal \ {d} \in SUBSET Changes /\ d \in minimal /\ (d = c \/ d \in settled)
        BY <2>2, <3>1 DEF Settle, Evidence, SubtractionsSeen
      <4>2. CASE d = c
        BY <3>1, <4>1, <4>2
      <4>3. CASE d # c
        <5>1. minimal \ {d} # minimal \ {c}
          BY <4>1, <4>3
        <5>2. outcome'[minimal \ {d}] = outcome[minimal \ {d}]
          BY <2>1, <2>2, <4>1, <5>1, RunType
        <5> QED
          BY <2>2, <4>1, <4>3, <5>2 DEF Evidence, SubtractionsSeen
      <4> QED
        BY <4>2, <4>3
    <3>4. TypeOK'
      BY <2>1, <2>2, <3>1, RunType DEF TypeOK, Settle
    <3>5. Evidence'
      <4>1. AdditionsSeen'
        BY <2>2, <3>1, <3>2 DEF Settle, AdditionsSeen
      <4>2. SubtractionsSeen'
        BY <3>1, <3>3 DEF Settle, SubtractionsSeen
      <4> QED
        BY <2>2, <3>1, <4>1, <4>2 DEF Settle, Evidence, Searching, Answered
    <3> QED
      BY <2>2, <3>1, <3>4, <3>5 DEF Settle, Answered
  <2>4. CASE ~Necessary(o)
    BY <2>1, <2>2, <2>4, AnswerKeeps, AnswersOfProbes, Classes
  <2> QED
    BY <2>3, <2>4
<1>8. CASE Subtracted
  <2>1. TypeOK'
    BY <1>8 DEF Subtracted, TypeOK, Answer, Statuses
  <2>2. Abstract!Minimal(minimal)'
    BY <1>8 DEF Subtracted, Answer, Evidence, Searching, AdditionsSeen, SubtractionsSeen,
       Abstract!Minimal
  <2> QED
    BY <1>8, <2>1, <2>2
    DEF Subtracted, Answer, Statuses, Evidence, Searching, AdditionsSeen, SubtractionsSeen, Answered
<1>9. CASE Return
  <2>1. TypeOK'
    BY <1>9 DEF Return, TypeOK, Answered
  <2> QED
    BY <1>9, <2>1, AnswersOfProbes DEF Return, Evidence, Searching, AdditionsSeen,
       SubtractionsSeen, Answered, Abstract!Minimal
<1>10. CASE RunFails
  <2>1. TypeOK'
    BY <1>10 DEF RunFails, TypeOK
  <2> QED
    BY <1>10, <2>1 DEF RunFails, Evidence, Searching, AdditionsSeen, SubtractionsSeen, Answered,
       Abstract!Minimal
<1>11. CASE UNCHANGED vars
  BY <1>11 DEF vars, TypeOK, Evidence, Searching, AdditionsSeen, SubtractionsSeen, Answered,
     Abstract!Minimal
<1> QED
  BY <1>1, <1>2, <1>3, <1>4, <1>5, <1>6, <1>7, <1>8, <1>9, <1>10, <1>11 DEF Next

\* The reduction keeps its types, for every set of changes.
THEOREM TypeCorrect == Spec => []TypeOK
<1>1. Spec => []IInv
  BY InitInv, StepInv, PTL DEF Spec
<1> QED
  BY <1>1, PTL DEF IInv

-----------------------------------------------------------------------------
(* Refinement: an execution is a Probe, the return concludes or gives up. *)

LEMMA InitRefines == Init => Abstract!Init
BY DEF Init, Abstract!Init, verdict

\* An execution before the return, whatever becomes of the set.
LEMMA RunRefines ==
  ASSUME IInv, pc \notin {"return", "done"}, status' = status,
         NEW S \in SUBSET Changes, NEW o \in Observations, Run(S, o),
         \/ minimal' = minimal
         \/ o.target /\ S \subseteq minimal /\ minimal' = S
  PROVE  Abstract!Probe(S, Class(o))
BY Classes DEF IInv, Answered, Run, Abstract!Probe, verdict

LEMMA StepRefines == IInv /\ [Next]_vars => [Abstract!Next]_(Abstract!vars)
<1> SUFFICES ASSUME IInv, [Next]_vars PROVE [Abstract!Next]_(Abstract!vars)
  OBVIOUS
<1>0. /\ minimal \in SUBSET Changes
      /\ \A o \in Observations : Class(o) \in Abstract!Outcomes \ {"untested"}
  BY Classes DEF IInv, TypeOK, Abstract!Outcomes
<1>1. ASSUME pc \notin {"return", "done"}, status' = status,
             NEW S \in SUBSET Changes, NEW o \in Observations, Run(S, o),
             \/ minimal' = minimal
             \/ o.target /\ S \subseteq minimal /\ minimal' = S
      PROVE  Abstract!Next
  BY <1>0, <1>1, RunRefines DEF Abstract!Next
<1>2. CASE Original
  BY <1>1, <1>2 DEF Original, Goto, Again, Answer
<1>3. CASE Search
  <2>1. PICK c \in minimal \ settled, o \in Observations :
          /\ Run(minimal \ {c}, o)
          /\ CASE Class(o) = "same"      -> Remove(c)
               [] Class(o) = "different" -> Settle(c)
               [] Class(o) = "unclear"   -> Answer(status_for_non_failure[o.verdict])
    BY <1>3 DEF Search
  <2>2. /\ status' = status
        /\ minimal' = minimal \/ (o.target /\ minimal' = minimal \ {c})
    BY <2>1, Classes DEF Remove, Settle, Answer
  <2> QED
    BY <1>0, <1>1, <1>3, <2>1, <2>2 DEF Search
<1>4. CASE Confirm
  BY <1>0, <1>1, <1>4 DEF Confirm, Goto, Again, Answer
<1>5. CASE Add
  <2>1. PICK c \in (Changes \ minimal) \ settled, o \in Observations :
          Run(minimal \cup {c}, o) /\ minimal' = minimal /\ status' = status
    BY <1>5 DEF Add, Settle, Answer
  <2>2. minimal \cup {c} \in SUBSET Changes
    BY <1>0
  <2> QED
    BY <1>1, <1>5, <2>1, <2>2 DEF Add
<1>6. CASE Subtract
  <2>1. PICK c \in minimal \ settled, o \in Observations :
          Run(minimal \ {c}, o) /\ minimal' = minimal /\ status' = status
    BY <1>6 DEF Subtract, Settle, Answer
  <2>2. minimal \ {c} \in SUBSET Changes
    BY <1>0
  <2> QED
    BY <1>1, <1>6, <2>1, <2>2 DEF Subtract
<1>7. CASE Searched \/ Added \/ Subtracted
  BY <1>7 DEF Searched, Added, Subtracted, Goto, Answer, Abstract!vars, verdict
<1>8. CASE Return
  <2>1. status = "open" /\ status' \in Statuses /\ UNCHANGED <<outcome, minimal>>
    BY <1>8 DEF Return, IInv, Answered
  <2>2. CASE status' = "ProvenMinimal"
    <3>1. Abstract!Minimal(minimal)
      BY <1>8, <2>2 DEF Return, IInv, Evidence
    <3>2. verdict = "open" /\ verdict' = "minimal"
      BY <2>1, <2>2 DEF verdict
    <3> QED
      BY <2>1, <3>1, <3>2 DEF Abstract!Conclude, Abstract!Next
  <2>3. CASE status' # "ProvenMinimal"
    <3>1. verdict = "open" /\ verdict' = "unresolved"
      BY <2>1, <2>3 DEF verdict, Statuses
    <3> QED
      BY <2>1, <3>1 DEF Abstract!GiveUp, Abstract!Next
  <2> QED
    BY <2>2, <2>3
<1>9. CASE RunFails
  <2>1. verdict = "open" /\ verdict' = "unresolved" /\ UNCHANGED <<outcome, minimal>>
    BY <1>9 DEF RunFails, IInv, Answered, verdict
  <2> QED
    BY <2>1 DEF Abstract!GiveUp, Abstract!Next
<1>10. CASE UNCHANGED vars
  BY <1>10 DEF vars, verdict, Abstract!vars
<1> QED
  BY <1>2, <1>3, <1>4, <1>5, <1>6, <1>7, <1>8, <1>9, <1>10 DEF Next

\* For every set of changes, every number of reruns and every executor,
\* ddmin_dependency_changes_with_options is a DeltaDebug: the failure set only
\* shrinks to subsets that failed alike, and ProvenMinimal is returned only when
\* the executions of all its neighbours prove it.
THEOREM RefinesDeltaDebug == Spec => ImplementsDeltaDebug
<1>1. Spec => []IInv
  BY InitInv, StepInv, PTL DEF Spec
<1> QED
  BY <1>1, InitRefines, StepRefines, PTL DEF Spec, ImplementsDeltaDebug, Abstract!Spec

-----------------------------------------------------------------------------
(* What a reduction may cost.                                              *)
Kept == Cardinality(minimal)
Tried == Cardinality(settled)
Q == N * (N + 1)

\* What each phase has spent: rounds of the search over N, N - 1, ... changes, and
\* of the current round or proof one execution for each settled change.
Spent ==
  /\ pc = "original" => executions = runs
  /\ pc = "search" => /\ settled \subseteq minimal
                      /\ 2 * executions <= 2 * Required + Q - Kept * (Kept + 1) + 2 * Tried
  /\ pc = "confirm" => 2 * executions <= 2 * Required + Q + 2 * runs
  /\ pc = "add" => /\ settled \subseteq Changes \ minimal
                   /\ 2 * executions <= 4 * Required + Q + 2 * Tried
  /\ pc = "subtract" => /\ settled \subseteq minimal
                        /\ 2 * executions <= 4 * Required + Q + 2 * (N - Kept) + 2 * Tried
  /\ ExecutionsBounded

\* The round over m changes, s of which are settled: one more execution, and the
\* next round if it removes a change.
LEMMA Rounds ==
  ASSUME NEW R \in Nat, NEW q \in Nat, NEW e \in Nat, NEW m \in Nat, NEW s \in Nat,
         s <= m, 2 * e <= 2 * R + q - m * (m + 1) + 2 * s
  PROVE  /\ 2 * e <= 2 * R + q
         /\ s < m => /\ 2 * (e + 1) <= 2 * R + q - m * (m + 1) + 2 * (s + 1)
                     /\ 2 * (e + 1) <= 2 * R + q - (m - 1) * ((m - 1) + 1)
                     /\ 2 * (e + 1) <= 2 * R + q
<1>1. m * (m + 1) = (m - 1) * ((m - 1) + 1) + 2 * m
  OBVIOUS
<1>2. (m - 1) * ((m - 1) + 1) \in Nat
  <2>1. CASE m = 0
    BY <2>1
  <2>2. CASE m # 0
    <3>1. m - 1 \in Nat
      BY <2>2
    <3>2. \A i, j \in Nat : i * j \in Nat
      OBVIOUS
    <3> QED
      BY <3>1, <3>2
  <2> QED
    BY <2>1, <2>2
<1> DEFINE a == m * (m + 1)
           b == (m - 1) * ((m - 1) + 1)
<1>3. a = b + 2 * m /\ b \in Nat /\ 2 * e <= 2 * R + q - a + 2 * s
  BY <1>1, <1>2
<1> HIDE DEF a, b
<1>4. /\ 2 * e <= 2 * R + q
      /\ s < m => /\ 2 * (e + 1) <= 2 * R + q - a + 2 * (s + 1)
                  /\ 2 * (e + 1) <= 2 * R + q - b
                  /\ 2 * (e + 1) <= 2 * R + q
  BY <1>3
<1> QED
  BY <1>4 DEF a, b

\* The sizes of the sets a reduction works on.
LEMMA Sizes ==
  ASSUME TypeOK
  PROVE  /\ N \in Nat /\ Q \in Nat /\ Kept \in 0..N /\ Tried \in 0..N
         /\ executions \in Nat /\ runs \in 0..(Required - 1) /\ Required \in Nat /\ Required >= 3
         /\ settled \subseteq minimal => Tried <= Kept
         /\ settled \subseteq Changes \ minimal => Tried <= N - Kept
         /\ settled = minimal => Tried = Kept
         /\ settled = Changes \ minimal => Tried = N - Kept
         /\ \A c \in minimal \ settled : settled \subseteq minimal => Tried < Kept
         /\ \A c \in (Changes \ minimal) \ settled :
              settled \subseteq Changes \ minimal => Tried < N - Kept
         /\ \A c \in Changes \ settled : Cardinality(settled \cup {c}) = Tried + 1
         /\ \A c \in minimal : Cardinality(minimal \ {c}) = Kept - 1
<1>1. IsFiniteSet(Changes) /\ IsFiniteSet(minimal) /\ IsFiniteSet(settled)
      /\ IsFiniteSet(Changes \ minimal) /\ minimal \subseteq Changes /\ settled \subseteq Changes
  BY DdminAssumption, FS_Subset DEF TypeOK
<1>2. N \in Nat /\ Kept \in Nat /\ Tried \in Nat /\ Kept <= N /\ Tried <= N
  BY <1>1, FS_CardinalityType, FS_Subset DEF N, Kept, Tried
<1>3. Q \in Nat
  BY <1>2 DEF Q
<1>4. Cardinality(Changes \ minimal) = N - Kept
  <2>1. Cardinality(Changes \ minimal) = Cardinality(Changes) - Cardinality(Changes \cap minimal)
    BY <1>1, FS_Difference
  <2>2. Changes \cap minimal = minimal
    BY <1>1
  <2> QED
    BY <2>1, <2>2 DEF N, Kept
<1>5. settled \subseteq minimal => Tried <= Kept /\ (Tried = Kept => settled = minimal)
  BY <1>1, FS_Subset DEF Tried, Kept
<1>6. settled \subseteq Changes \ minimal =>
        Tried <= N - Kept /\ (Tried = N - Kept => settled = Changes \ minimal)
  BY <1>1, <1>4, FS_Subset DEF Tried
<1>7. ASSUME NEW c \in minimal \ settled, settled \subseteq minimal PROVE Tried < Kept
  BY <1>2, <1>5, <1>7
<1>8. ASSUME NEW c \in (Changes \ minimal) \ settled, settled \subseteq Changes \ minimal
      PROVE  Tried < N - Kept
  BY <1>2, <1>6, <1>8
<1>9. ASSUME NEW c \in Changes \ settled PROVE Cardinality(settled \cup {c}) = Tried + 1
  BY <1>1, FS_AddElement DEF Tried
<1>10. ASSUME NEW c \in minimal PROVE Cardinality(minimal \ {c}) = Kept - 1
  BY <1>1, FS_RemoveElement DEF Kept
<1>11. settled = Changes \ minimal => Tried = N - Kept
  BY <1>4 DEF Tried
<1>12. settled = minimal => Tried = Kept
  BY DEF Tried, Kept
<1>13. /\ executions \in Nat /\ runs \in 0..(Required - 1) /\ Required \in Nat
       /\ Required >= 3
  BY DdminAssumption DEF TypeOK
<1> QED
  BY <1>2, <1>3, <1>5, <1>6, <1>7, <1>8, <1>9, <1>10, <1>11, <1>12, <1>13

\* The invariant holds in every phase: the search pays by the changes it removes.
LEMMA SpentStep ==
  ASSUME TypeOK, TypeOK', Evidence, Spent, [Next]_vars
  PROVE  Spent'
<1>0. /\ N \in Nat /\ Q \in Nat /\ Kept \in 0..N /\ Tried \in 0..N
      /\ executions \in Nat /\ runs \in Nat /\ runs < Required /\ Required \in Nat
      /\ Required >= 3
  BY Sizes
<1>1. CASE Original
  <2>1. PICK o \in Observations :
          /\ Run(Changes, o)
          /\ IF o.target
             THEN IF runs + 1 = Required THEN Goto("search") ELSE Again
             ELSE Answer(IF runs = 0 THEN status_for_non_failure[o.verdict]
                         ELSE status_for_failed_rerun[o.verdict])
    BY <1>1 DEF Original
  <2>2. /\ pc = "original" /\ executions = runs /\ minimal = Changes
        /\ executions' = executions + 1
    BY <1>1, <2>1 DEF Original, Run, Spent, Evidence
  <2>3. ExecutionsBounded'
    BY <1>0, <2>2 DEF ExecutionsBounded, Q
  <2>4. CASE o.target /\ runs + 1 = Required
    <3>1. pc' = "search" /\ settled' = {} /\ minimal' = Changes
      BY <2>1, <2>2, <2>4 DEF Goto
    <3>2. Kept' = N /\ Tried' = 0
      BY <3>1, FS_EmptySet DEF Kept, Tried, N
    <3>3. 2 * executions' <= 2 * Required + Q - N * (N + 1) + 2 * 0
      BY <1>0, <2>2, <2>4 DEF Q
    <3> QED
      BY <2>3, <3>1, <3>2, <3>3 DEF Spent
  <2>5. CASE o.target /\ runs + 1 # Required
    <3>1. pc' = "original" /\ runs' = runs + 1
      BY <2>1, <2>2, <2>5 DEF Again
    <3> QED
      BY <2>2, <2>3, <3>1 DEF Spent
  <2>6. CASE ~o.target
    <3>1. pc' = "return"
      BY <2>1, <2>6 DEF Answer
    <3> QED
      BY <2>3, <3>1 DEF Spent
  <2> QED
    BY <2>4, <2>5, <2>6
<1>2. CASE Search
  <2>1. PICK c \in minimal \ settled, o \in Observations :
          /\ Run(minimal \ {c}, o)
          /\ CASE Class(o) = "same"      -> Remove(c)
               [] Class(o) = "different" -> Settle(c)
               [] Class(o) = "unclear"   -> Answer(status_for_non_failure[o.verdict])
    BY <1>2 DEF Search
  <2>2. /\ pc = "search" /\ settled \subseteq minimal /\ executions' = executions + 1
        /\ 2 * executions <= 2 * Required + Q - Kept * (Kept + 1) + 2 * Tried
    BY <1>2, <2>1 DEF Search, Run, Spent
  <2>3. Tried < Kept /\ Tried <= Kept /\ Kept \in Nat /\ Tried \in Nat
    BY <1>0, <2>1, <2>2, Sizes
  <2>4. /\ 2 * executions' <= 2 * Required + Q - Kept * (Kept + 1) + 2 * (Tried + 1)
        /\ 2 * executions' <= 2 * Required + Q - (Kept - 1) * ((Kept - 1) + 1)
        /\ 2 * executions' <= 2 * Required + Q
    BY <1>0, <2>2, <2>3, Rounds
  <2>5. ExecutionsBounded'
    BY <1>0, <2>2, <2>4 DEF ExecutionsBounded, Q
  <2>6. CASE Class(o) = "same"
    <3>1. pc' = "search" /\ minimal' = minimal \ {c} /\ settled' = {}
      BY <2>1, <2>2, <2>6 DEF Remove
    <3>2. Kept' = Kept - 1 /\ Tried' = 0
      BY <2>1, <3>1, Sizes, FS_EmptySet DEF Kept, Tried
    <3>3. 2 * executions' <= 2 * Required + Q - Kept' * (Kept' + 1) + 2 * Tried'
      <4>1. \A x \in Int : x + 2 * 0 = x
        OBVIOUS
      <4> QED
        BY <1>0, <2>4, <3>2, <4>1
    <3> QED
      BY <2>5, <3>1, <3>3 DEF Spent, Q
  <2>7. CASE Class(o) = "different"
    <3>1. pc' = "search" /\ minimal' = minimal /\ settled' = settled \cup {c}
      BY <2>1, <2>2, <2>7 DEF Settle
    <3>2. Kept' = Kept /\ Tried' = Tried + 1
      BY <2>1, <3>1, Sizes DEF Kept, Tried, TypeOK
    <3> QED
      BY <2>1, <2>2, <2>4, <2>5, <3>1, <3>2 DEF Spent, Q
  <2>8. CASE Class(o) = "unclear"
    <3>1. pc' = "return"
      BY <2>1, <2>8 DEF Answer
    <3> QED
      BY <2>5, <3>1 DEF Spent
  <2> QED
    BY <2>6, <2>7, <2>8, Classes
<1>3. CASE Searched
  <2>1. /\ pc = "search" /\ settled = minimal /\ executions' = executions
        /\ pc' \in {"confirm", "add"} /\ runs' = 0 /\ settled' = {} /\ minimal' = minimal
        /\ 2 * executions <= 2 * Required + Q - Kept * (Kept + 1) + 2 * Tried
    BY <1>3 DEF Searched, Goto, Spent
  <2>2. Tried = Kept /\ Kept \in Nat
    BY <1>0, <2>1, Sizes
  <2>3. 2 * executions <= 2 * Required + Q
    BY <1>0, <2>1, <2>2, Rounds
  <2>4. Tried' = 0
    BY <2>1, FS_EmptySet DEF Tried
  <2>5. /\ 2 * executions' <= 2 * Required + Q + 2 * 0
        /\ 2 * executions' <= 4 * Required + Q + 2 * 0
    BY <1>0, <2>1, <2>3
  <2>6. ExecutionsBounded'
    BY <2>1 DEF Spent, ExecutionsBounded
  <2> QED
    BY <2>1, <2>4, <2>5, <2>6 DEF Spent, Q
<1>4. CASE Confirm
  <2>1. PICK o \in Observations :
          /\ Run(minimal, o)
          /\ IF o.target
             THEN IF runs + 1 = Required THEN Goto("add") ELSE Again
             ELSE Answer(status_for_failed_rerun[o.verdict])
    BY <1>4 DEF Confirm
  <2>2. /\ pc = "confirm" /\ executions' = executions + 1
        /\ 2 * executions <= 2 * Required + Q + 2 * runs
    BY <1>4, <2>1 DEF Confirm, Run, Spent
  <2>3. /\ 2 * executions' <= 2 * Required + Q + 2 * (runs + 1)
        /\ 2 * executions' <= 4 * Required + Q + 2 * 0
    BY <1>0, <2>2
  <2>4. ExecutionsBounded'
    BY <1>0, <2>2, <2>3 DEF ExecutionsBounded, Q
  <2>5. CASE o.target /\ runs + 1 = Required
    <3>1. pc' = "add" /\ settled' = {} /\ minimal' = minimal
      BY <2>1, <2>5 DEF Goto
    <3>2. Tried' = 0
      BY <3>1, FS_EmptySet DEF Tried
    <3> QED
      BY <2>3, <2>4, <3>1, <3>2 DEF Spent, Q
  <2>6. CASE o.target /\ runs + 1 # Required
    <3>1. pc' = "confirm" /\ runs' = runs + 1
      BY <2>1, <2>2, <2>6 DEF Again
    <3> QED
      BY <2>3, <2>4, <3>1 DEF Spent, Q
  <2>7. CASE ~o.target
    <3>1. pc' = "return"
      BY <2>1, <2>7 DEF Answer
    <3> QED
      BY <2>4, <3>1 DEF Spent
  <2> QED
    BY <2>5, <2>6, <2>7
<1>5. CASE Add
  <2>1. PICK c \in (Changes \ minimal) \ settled, o \in Observations :
          /\ Run(minimal \cup {c}, o)
          /\ IF o.observed /\ o.target THEN Settle(c)
             ELSE Answer(status_for_non_minimal_probe[o.verdict])
    BY <1>5 DEF Add
  <2>2. /\ pc = "add" /\ settled \subseteq Changes \ minimal /\ executions' = executions + 1
        /\ 2 * executions <= 4 * Required + Q + 2 * Tried
    BY <1>5, <2>1 DEF Add, Run, Spent
  <2>3. Tried < N - Kept
    BY <2>1, <2>2, Sizes
  <2>4. 2 * executions' <= 4 * Required + Q + 2 * (Tried + 1)
    BY <1>0, <2>2
  <2>5. ExecutionsBounded'
    BY <1>0, <2>2, <2>3, <2>4 DEF ExecutionsBounded, Q
  <2>6. CASE o.observed /\ o.target
    <3>1. pc' = "add" /\ minimal' = minimal /\ settled' = settled \cup {c}
      BY <2>1, <2>2, <2>6 DEF Settle
    <3>2. Tried' = Tried + 1
      BY <2>1, <3>1, Sizes DEF Tried
    <3> QED
      BY <2>1, <2>2, <2>4, <2>5, <3>1, <3>2 DEF Spent, Q
  <2>7. CASE ~(o.observed /\ o.target)
    <3>1. pc' = "return"
      BY <2>1, <2>7 DEF Answer
    <3> QED
      BY <2>5, <3>1 DEF Spent
  <2> QED
    BY <2>6, <2>7
<1>6. CASE Added
  <2>1. /\ pc = "add" /\ settled = Changes \ minimal /\ executions' = executions
        /\ pc' = "subtract" /\ settled' = {} /\ minimal' = minimal
        /\ 2 * executions <= 4 * Required + Q + 2 * Tried
    BY <1>6 DEF Added, Goto, Spent
  <2>2. Tried = N - Kept
    BY <2>1, Sizes
  <2>3. Tried' = 0 /\ Kept' = Kept
    BY <2>1, FS_EmptySet DEF Tried, Kept
  <2>4. 2 * executions' <= 4 * Required + Q + 2 * (N - Kept) + 2 * 0
    BY <1>0, <2>1, <2>2
  <2>5. ExecutionsBounded'
    BY <2>1 DEF Spent, ExecutionsBounded
  <2> QED
    BY <2>1, <2>3, <2>4, <2>5 DEF Spent, Q
<1>7. CASE Subtract
  <2>1. PICK c \in minimal \ settled, o \in Observations :
          /\ Run(minimal \ {c}, o)
          /\ IF Necessary(o) THEN Settle(c)
             ELSE Answer(status_for_non_minimal_probe[o.verdict])
    BY <1>7 DEF Subtract
  <2>2. /\ pc = "subtract" /\ settled \subseteq minimal /\ executions' = executions + 1
        /\ 2 * executions <= 4 * Required + Q + 2 * (N - Kept) + 2 * Tried
    BY <1>7, <2>1 DEF Subtract, Run, Spent
  <2>3. Tried < Kept
    BY <2>1, <2>2, Sizes
  <2>4. 2 * executions' <= 4 * Required + Q + 2 * (N - Kept) + 2 * (Tried + 1)
    BY <1>0, <2>2
  <2>5. ExecutionsBounded'
    BY <1>0, <2>2, <2>3, <2>4 DEF ExecutionsBounded, Q
  <2>6. CASE Necessary(o)
    <3>1. pc' = "subtract" /\ minimal' = minimal /\ settled' = settled \cup {c}
      BY <2>1, <2>2, <2>6 DEF Settle
    <3>2. Kept' = Kept /\ Tried' = Tried + 1
      BY <2>1, <3>1, Sizes DEF Kept, Tried, TypeOK
    <3> QED
      BY <2>1, <2>2, <2>4, <2>5, <3>1, <3>2 DEF Spent, Q
  <2>7. CASE ~Necessary(o)
    <3>1. pc' = "return"
      BY <2>1, <2>7 DEF Answer
    <3> QED
      BY <2>5, <3>1 DEF Spent
  <2> QED
    BY <2>6, <2>7
<1>8. CASE Subtracted \/ Return \/ RunFails
  <2>1. pc' \in {"return", "done"} /\ executions' = executions
    BY <1>8 DEF Subtracted, Answer, Return, RunFails
  <2> QED
    BY <2>1 DEF Spent, ExecutionsBounded
<1>9. CASE UNCHANGED vars
  BY <1>9 DEF vars, Spent, ExecutionsBounded, Kept, Tried, Q, N
<1> QED
  BY <1>1, <1>2, <1>3, <1>4, <1>5, <1>6, <1>7, <1>8, <1>9 DEF Next

\* However the executor answers, a reduction of N changes asks for at most
\* 2 * Required + N * (N + 3) / 2 executions: N * (N + 1) / 2 for the search, the
\* required failures of the original and of the reduced set, and N for the proof.
THEOREM BoundCorrect == Spec => []ExecutionsBounded
<1>1. Init => Spent
  <2> SUFFICES ASSUME Init PROVE Spent
    OBVIOUS
  <2>1. N \in Nat /\ Required \in Nat
    BY DdminAssumption, FS_CardinalityType DEF N
  <2>2. pc = "original" /\ executions = 0 /\ runs = 0
    BY DEF Init
  <2>3. N * (N + 1) \in Nat
    BY <2>1
  <2>4. ExecutionsBounded
    BY <2>1, <2>2, <2>3 DEF ExecutionsBounded
  <2> QED
    BY <2>2, <2>4 DEF Spent
<1>2. IInv /\ IInv' /\ Spent /\ [Next]_vars => Spent'
  BY SpentStep DEF IInv
<1>3. Spent => ExecutionsBounded
  BY DEF Spent
<1> QED
  BY <1>1, <1>2, <1>3, InitInv, StepInv, PTL DEF Spec


-----------------------------------------------------------------------------
(* What every reduction gains by implementing DeltaDebug, whatever it does.  *)
VARIABLES tested, left, ending

AnySearch == INSTANCE DeltaDebug WITH outcome <- tested, suspects <- left, status <- ending

\* The variables of the abstract reduction keep their types, and a reduction
\* that is called minimal rests on executions of the subsets minimality is
\* about: derive_observed_dependency_reduction and ddmin both inherit it.
THEOREM MinimalCorrect == AnySearch!Spec => [](AnySearch!TypeOK /\ AnySearch!MinimalIsProved)
<1>1. AnySearch!Init => AnySearch!TypeOK /\ AnySearch!MinimalIsProved
  BY DEF AnySearch!Init, AnySearch!TypeOK, AnySearch!Outcomes, AnySearch!MinimalIsProved
<1>2. AnySearch!TypeOK /\ AnySearch!MinimalIsProved /\ [AnySearch!Next]_(AnySearch!vars)
        => (AnySearch!TypeOK /\ AnySearch!MinimalIsProved)'
  <2> SUFFICES ASSUME AnySearch!TypeOK, AnySearch!MinimalIsProved, [AnySearch!Next]_(AnySearch!vars)
               PROVE  (AnySearch!TypeOK /\ AnySearch!MinimalIsProved)'
    OBVIOUS
  <2>1. ASSUME NEW S \in SUBSET Changes, NEW shown \in AnySearch!Outcomes \ {"untested"},
               AnySearch!Probe(S, shown)
        PROVE  (AnySearch!TypeOK /\ AnySearch!MinimalIsProved)'
    BY <2>1 DEF AnySearch!Probe, AnySearch!TypeOK, AnySearch!Outcomes, AnySearch!MinimalIsProved
  <2>2. CASE AnySearch!Conclude
    BY <2>2 DEF AnySearch!Conclude, AnySearch!TypeOK, AnySearch!MinimalIsProved, AnySearch!Minimal
  <2>3. CASE AnySearch!GiveUp
    BY <2>3 DEF AnySearch!GiveUp, AnySearch!TypeOK, AnySearch!MinimalIsProved
  <2>4. CASE UNCHANGED AnySearch!vars
    BY <2>4 DEF AnySearch!vars, AnySearch!TypeOK, AnySearch!MinimalIsProved, AnySearch!Minimal
  <2> QED
    BY <2>1, <2>2, <2>3, <2>4 DEF AnySearch!Next
<1> QED
  BY <1>1, <1>2, PTL DEF AnySearch!Spec

\* No change that was cleared becomes a suspect again, and a concluded
\* reduction is never revised.
THEOREM ShrinkCorrect == AnySearch!Spec => AnySearch!OnlyShrinks
<1>1. [AnySearch!Next]_(AnySearch!vars)
        => [left' \subseteq left /\ (ending # "open" => UNCHANGED AnySearch!vars)]_(AnySearch!vars)
  BY DEF AnySearch!Next, AnySearch!Probe, AnySearch!Conclude, AnySearch!GiveUp, AnySearch!vars
<1> QED
  BY <1>1, PTL DEF AnySearch!Spec, AnySearch!OnlyShrinks
=============================================================================
