-------------------------------- MODULE Replay --------------------------------
(***************************************************************************)
(* What one replay reports and what the offline verifier accepts of it.    *)
(* A replay runs the recorded commands of one scenario once and compares   *)
(* exit, timeout and failure signature with the recorded result; the       *)
(* verifier re-derives the comparison from the attempt's own record.       *)
(***************************************************************************)
EXTENDS Verdicts

\* The recorded result as replay reads it: hash is the failure's normalized
\* hash, tested says that the recorded test phase completed, fetches that
\* fetch commands are recorded.
Original(code, late, hash, tested, fetches) ==
  [exit_code |-> code, timed_out |-> late, hash |-> hash, tested |-> tested,
   fetches |-> fetches]

FailingRaws == {raw \in RawResults : ~Passed(raw)}

FailureHashes == {normalize_failure(raw).hash : raw \in FailingRaws}

\* BLOCKED because the fetch ran and failed.
FetchFailedOriginals ==
  {Original(raw.exit_code, raw.timed_out, normalize_failure(raw).hash, FALSE, TRUE) :
     raw \in FailingRaws}

\* BLOCKED by an engine error, or UNSUPPORTED: blocked_result's own failure.
ErrorOriginals == {Original(None, FALSE, BlockedHash, FALSE, f) : f \in BOOLEAN}

\* FLAKY: the exit of the passing attempt, the failure of an earlier one.
FlakyOriginals == {Original("0", FALSE, h, TRUE, f) : h \in FailureHashes, f \in BOOLEAN}

\* Every other verdict records the exit and the failure of the last attempt.
LastAttemptOriginals ==
  {Original(raw.exit_code, raw.timed_out,
            IF Passed(raw) THEN None ELSE normalize_failure(raw).hash, TRUE, f) :
     raw \in RawResults, f \in BOOLEAN}

\* Recorded results a replay can start from: the image digest is on record.
Originals == FetchFailedOriginals \cup ErrorOriginals
               \cup FlakyOriginals \cup LastAttemptOriginals

-----------------------------------------------------------------------------
Flag(b) == IF b THEN "true" ELSE "false"   \* Some(b); None when not compared

Report(phase, code, late, hash, exit_match, signature_match, ok, error) ==
  [phase |-> phase, replay_exit |-> code, timed_out |-> late,
   replay_signature |-> hash, exit_match |-> exit_match,
   signature_match |-> signature_match, ok |-> ok, error |-> error]

\* A phase that did not produce a comparable test execution.
Failed(phase, late) == Report(phase, None, late, None, None, None, FALSE, TRUE)

exit_match(o, raw) == raw.exit_code = o.exit_code /\ raw.timed_out = o.timed_out

replay_signature(raw) == IF Passed(raw) THEN None ELSE normalize_failure(raw).hash

signature_match(o, raw) == replay_signature(raw) = o.hash

\* The tests ran: the report compares them with the recorded result.
Compared(o, raw) ==
  Report("test", raw.exit_code, raw.timed_out, replay_signature(raw),
         Flag(exit_match(o, raw)), Flag(signature_match(o, raw)),
         exit_match(o, raw) /\ signature_match(o, raw), FALSE)

\* Everything one replay can report: the fetch fails or cannot be executed, the
\* tests cannot be executed, or they run to an end.
Reports(o) ==
  {Failed("fetch", late) : late \in IF o.fetches THEN BOOLEAN ELSE {}}
    \cup {Failed("test", FALSE)}
    \cup {Compared(o, raw) : raw \in RawResults}

ReplayRecords ==
  [phase : {"fetch", "test"}, replay_exit : ExitCodes, timed_out : BOOLEAN,
   replay_signature : Diagnostics \cup ReservedHashes,
   exit_match : {None, "true", "false"}, signature_match : {None, "true", "false"},
   ok : BOOLEAN, error : BOOLEAN]

-----------------------------------------------------------------------------
\* Mutant: the comparison is demanded of every phase.
AttemptAccepted_every_phase(o, a) ==
  LET exits == a.replay_exit = o.exit_code /\ a.timed_out = o.timed_out
      signs == a.replay_signature = o.hash
  IN  /\ a.exit_match = Flag(exits) /\ a.signature_match = Flag(signs)
      /\ a.ok <=> a.phase = "test" /\ ~a.error /\ exits /\ signs

\* verify_replay_attempt_semantics: the checks of one attempt's result.json
AttemptAccepted(o, a) ==
  LET exits == a.replay_exit = o.exit_code /\ a.timed_out = o.timed_out
      signs == a.replay_signature = o.hash
  IN  /\ a.phase = "test" => /\ a.exit_match = Flag(exits)
                             /\ a.signature_match = Flag(signs)
      /\ a.ok <=> a.phase = "test" /\ ~a.error /\ exits /\ signs

=============================================================================
