-------------------------------- MODULE Reprocess --------------------------------
(***************************************************************************)
(* Reprocess requests: an administrator reopens an UNKNOWN or FAILED_FINAL  *)
(* intent with a MANUAL attempt (ReprocessService.reprocess), next to the   *)
(* executions and the sweeps of ChargeExecutor.                             *)
(*                                                                          *)
(* A request awaits between reading the candidate, asking the provider      *)
(* about its last attempt, and starting the manual one; what it remembers   *)
(* is in `reprocess'. From there it goes on as an execution whose seq is 0, *)
(* so Charge, SettleAttempt, the deadline and the recovery are those of     *)
(* ChargeExecutor: the statements of settleManualAttempt are the same.      *)
(***************************************************************************)
EXTENDS ChargeExecutor

CONSTANTS
    Operators,         \* concurrent reprocess requests
    StaleProbes,       \* may a manual attempt start after an attempt the probe did not see?
    StartsDuringSweep  \* ... while the verification sweep has its intent on the list?

ASSUME ReprocessAssumption == StaleProbes \in BOOLEAN /\ StartsDuringSweep \in BOOLEAN

VARIABLE reprocess

reprocessVars == <<vars, reprocess>>

\* row is the attempt whose operation id LOAD_CANDIDATE returned.
ReprocessState ==
    [pc : {"idle", "verify", "close", "start"},
     intent : Intents \cup {-1}, row : Rows \cup {0}]

NoReprocess == [pc |-> "idle", intent |-> -1, row |-> 0]

ReprocessTypeOK ==
    /\ reprocess \in [Operators -> ReprocessState]
    /\ \A p \in Operators : reprocess[p].pc # "idle" =>
           reprocess[p].intent \in Intents /\ reprocess[p].row \in Rows

ReprocessInit == reprocess = [p \in Operators |-> NoReprocess]

-----------------------------------------------------------------------------
(* ReprocessService.evaluate *)

\* The step that follows for a candidate of this status; any other is a 409.
FirstStep(status) == IF status = "FAILED_FINAL" THEN "start" ELSE "verify"

\* loadCandidate: the status and the last attempt, in one query.
LoadCandidate(p, i, n) ==
    /\ reprocess[p].pc = "idle"
    /\ intent[i].status \in {"UNKNOWN", "FAILED_FINAL"}
    /\ IsLast(i, n)
    /\ reprocess' = [reprocess EXCEPT
                        ![p] = [pc |-> FirstStep(intent[i].status), intent |-> i, row |-> n]]
    /\ UNCHANGED vars

\* A mutant: an operation the provider cannot find is taken for a rejected one.
StartUnlessSucceeded(v) == IF v = "SUCCEEDED" THEN "close" ELSE "start"

\* Another mutant: it is taken for an accepted one.
CloseUnlessFailed(v) == IF v = "FAILED" THEN "start" ELSE "close"

\* What evaluate() makes of a verification.
ProbeStep(v) ==
    CASE v = "SUCCEEDED" -> "close"
      [] v = "FAILED" -> "start"
      [] v = "UNKNOWN" -> "idle"

VerifyLatest(p, v) ==
    /\ reprocess[p].pc = "verify"
    /\ VerifyCall(reprocess[p].intent, reprocess[p].row, v)
    /\ reprocess' = IF ProbeStep(v) = "idle"
                    THEN [reprocess EXCEPT ![p] = NoReprocess]
                    ELSE [reprocess EXCEPT ![p].pc = ProbeStep(v)]
    /\ UNCHANGED <<storeVars, execVars>>

\* CLOSE_AS_SUCCEEDED: the attempt keeps its status.
Closed(i) == UpdateUnknown(i, [intent[i] EXCEPT !.status = "SUCCEEDED"])

\* closeVerificationAsSucceeded; the request does not look at its answer.
CloseVerification(p) ==
    /\ reprocess[p].pc = "close"
    /\ intent' = Closed(reprocess[p].intent)
    /\ reprocess' = [reprocess EXCEPT ![p] = NoReprocess]
    /\ UNCHANGED <<subscription, attempt, outbox, provider, execVars>>

-----------------------------------------------------------------------------
(* The manual attempt *)

\* The statuses startManualAttempt accepts under its lock.
Reopenable(i) == intent[i].status \in {"UNKNOWN", "FAILED_FINAL"}

\* MaxManual bounds them.
ManualAttempts(i) == {n \in Rows : Present(i, n) /\ attempt[i][n].auto = 0}

\* The assumptions under which a reprocess is safe; the code makes neither sure.
ProbeStillHolds(p) ==
    /\ StaleProbes \/ IsLast(reprocess[p].intent, reprocess[p].row)
    /\ StartsDuringSweep \/ reprocess[p].intent \notin Todo

\* startManualAttempt. Its operation id counts the attempts of the intent, so it
\* is new; MARK_IN_FLIGHT is rejected by the live index when another cycle of
\* the subscription is live.
StartManualAttempt(p, w, n) ==
    LET i == reprocess[p].intent
    IN  /\ reprocess[p].pc = "start"
        /\ ProbeStillHolds(p)
        /\ worker[w].pc = "idle"
        /\ Reopenable(i)
        /\ IsNextRow(i, n)
        /\ NoInFlightAttempt(i)
        /\ LiveUnique(i)
        /\ Cardinality(ManualAttempts(i)) < MaxManual
        /\ attempt' = [attempt EXCEPT ![i][n] =
                          [status |-> "IN_FLIGHT", auto |-> 0, overdue |-> FALSE]]
        /\ intent' = [intent EXCEPT ![i].status = "IN_FLIGHT"]
        /\ worker' = [worker EXCEPT ![w] =
                         [Idle EXCEPT !.pc = "charge", !.intent = i, !.row = n]]
        /\ reprocess' = [reprocess EXCEPT ![p] = NoReprocess]
        /\ UNCHANGED <<subscription, outbox, provider, seen, verdict>>

\* startManualAttempt refuses, a call rejects, or the process dies.
ReprocessEnds(p) ==
    /\ reprocess[p].pc # "idle"
    /\ reprocess' = [reprocess EXCEPT ![p] = NoReprocess]
    /\ UNCHANGED vars

\* A mutant: a charge that is not confirmed has failed.
FinalUnlessSucceeded(v, o) == IF v = "SUCCEEDED" THEN "SUCCEEDED" ELSE "FAILED_FINAL"

\* What reprocess() makes of the verification v of an attempt charged with o.
ManualSettlementFor(v, o) ==
    CASE v = "SUCCEEDED" -> "SUCCEEDED"
      [] v = "FAILED" /\ DeclaresFailure(o) -> "FAILED_FINAL"
      [] OTHER -> "UNKNOWN"

ManualVerify(w, v) ==
    /\ worker[w].pc = "verify"
    /\ IsManual(w)
    /\ VerifyCall(worker[w].intent, worker[w].row, v)
    /\ worker' = [worker EXCEPT ![w].pc = "settle",
                                ![w].settlement = ManualSettlementFor(v, worker[w].outcome)]
    /\ UNCHANGED <<storeVars, seen, verdict>>

-----------------------------------------------------------------------------
ReprocessStep(p) ==
    \/ \E i \in Intents, n \in Rows : LoadCandidate(p, i, n)
    \/ \E v \in Verdicts : VerifyLatest(p, v)
    \/ CloseVerification(p)
    \/ \E w \in Workers, n \in Rows : StartManualAttempt(p, w, n)
    \/ ReprocessEnds(p)

ReprocessNext ==
    \/ \E p \in Operators : ReprocessStep(p)
    \/ \E w \in Workers, v \in Verdicts : ManualVerify(w, v) /\ UNCHANGED reprocess

ReprocessSpec ==
    /\ Init /\ ReprocessInit
    /\ [][ReprocessNext \/ (Next /\ UNCHANGED reprocess)]_reprocessVars

-----------------------------------------------------------------------------
(* Correctness *)

\* ALLOWED_BILLING_INTENT_TRANSITIONS with the two takes of a reprocess.
AllowedWithReprocess ==
    AllowedTransitions \cup {<<"UNKNOWN", "IN_FLIGHT">>, <<"FAILED_FINAL", "IN_FLIGHT">>}

\* Every change of an intent's status is one of the transition table, although
\* reprocess() asserts the transition of a status it read in an earlier query.
ReprocessTransitionsAllowed ==
    [][\A i \in Intents :
          intent'[i].status # intent[i].status =>
              <<intent[i].status, intent'[i].status>> \in AllowedWithReprocess]_reprocessVars

\* INV-10 and D13: manual attempts do not count. Whatever manual attempts come
\* in between, the automatic ones of an intent are numbered 1, 2, 3... in the
\* order they were made, so the back-off and the limit see how many there were.
AutoSequence ==
    \A i \in Intents : \A n \in Rows :
        attempt[i][n].auto # 0 =>
            attempt[i][n].auto = Cardinality({m \in 1 .. n : attempt[i][m].auto # 0})

-----------------------------------------------------------------------------
(* What ChargeInvariant needs of the requests, when probes are not stale *)

\* A request about to reopen its intent knows that the operation it asked about
\* was rejected, and one about to close it knows that it was accepted.
ProbeIsSound ==
    \A p \in Operators :
        LET i == reprocess[p].intent
            n == reprocess[p].row
        IN  /\ reprocess[p].pc # "idle" => Present(i, n)
            /\ reprocess[p].pc = "start" => provider[i][n] = "REJECTED"
            /\ reprocess[p].pc = "close" => provider[i][n] = "CHARGED"

ReprocessInvariant == TypeOK /\ ReprocessTypeOK /\ ChargeInvariant /\ ProbeIsSound
=============================================================================
