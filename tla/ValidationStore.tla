--------------------------- MODULE ValidationStore ---------------------------
(***************************************************************************)
(* The durable record of validation: the rows validation_batches and       *)
(* validation_checks of the SQLite session database, and the two columns   *)
(* of the agent run they are read together with.  One action per           *)
(* operation of SessionService / SessionRepository; every action is one    *)
(* IMMEDIATE transaction, a compare-and-set whose guard is the WHERE       *)
(* clause of its UPDATE together with the service's early returns.         *)
(*                                                                         *)
(* The module says nothing about who calls the operations or in which      *)
(* order: any operation may happen at any time, which covers every client  *)
(* (the coordinator, the command line processes, startup recovery) and     *)
(* every crash between two operations.  ValidationCoordinator restricts    *)
(* it to the calls the program makes.                                      *)
(***************************************************************************)
EXTENDS Naturals

CONSTANTS
    Batches,     \* identifiers of the validation batches of one agent run
    Kinds,       \* the checks of a batch: structural, DFM and VLM
    Vlm,         \* the check evaluated by a Codex turn
    Revs,        \* model revisions
    Stamps,      \* settlement claims are timestamps, and may repeat
    Tokens,      \* effects claims are fresh UUIDs
    Turns,       \* external (Codex) turn identifiers
    MaxAttempt,  \* the largest attempt number: u32::MAX in the code
    None

ASSUME StoreAssumption ==
    /\ Vlm \in Kinds
    /\ None \notin (Revs \cup Stamps \cup Tokens \cup Turns)
    /\ MaxAttempt \in Nat

VARIABLES
    batch,   \* the validation_batches row of every batch
    check,   \* the validation_checks rows: status and verdict of every check
    issued,  \* effects claims handed out so far (UUIDs never repeat)
    outRev,  \* agent_runs.output_revision_id
    turn     \* agent_runs.external_turn_id

storeVars == <<batch, check, issued, outRev, turn>>

CheckStatus == {"queued", "running", "succeeded", "failed"}
CheckRecord == [status : CheckStatus, passed : BOOLEAN]

BatchStatus == {"absent", "queued", "running", "succeeded", "failed"}
BatchRecord ==
    [status    : BatchStatus,              \* settled_at is set with the status
     rev       : Revs \cup {None},
     attempt   : Nat,
     passed    : BOOLEAN,                  \* aggregate_report.passed
     claim     : Stamps \cup {None},       \* settlement_claimed_at
     effects   : Tokens \cup {None},       \* effects_claimed_at
     requested : BOOLEAN,                  \* refinement_requested_at is set
     bound     : BOOLEAN,                  \* refinement_bound_at is set
     applied   : BOOLEAN]                  \* effects_applied_at is set

QueuedCheck == [status |-> "queued", passed |-> FALSE]

Pristine ==
    [status |-> "absent", rev |-> None, attempt |-> 0, passed |-> FALSE,
     claim |-> None, effects |-> None,
     requested |-> FALSE, bound |-> FALSE, applied |-> FALSE]

StoreTypeOK ==
    /\ batch \in [Batches -> BatchRecord]
    /\ check \in [Batches -> [Kinds -> CheckRecord]]
    /\ issued \in SUBSET Tokens
    /\ outRev \in Revs \cup {None}
    /\ turn \in Turns \cup {None}

-----------------------------------------------------------------------------

Exists(b)      == batch[b].status # "absent"
Unsettled(b)   == batch[b].status \in {"queued", "running"}
Settled(b)     == batch[b].status \in {"succeeded", "failed"}
Rejected(b)    == batch[b].status = "succeeded" /\ ~batch[b].passed
Terminal(b, k) == check[b][k].status \in {"succeeded", "failed"}
AllTerminal(b) == \A k \in Kinds : Terminal(b, k)

SameRevision(b, r) == Exists(b) /\ batch[b].rev = r

\* The attempt numbers of a revision, and zero (COALESCE(MAX(attempt), 0)).
AttemptsOf(r) == {0} \cup {batch[b].attempt : b \in {o \in Batches : SameRevision(o, r)}}

LatestAttempt(b) ==
    \A o \in Batches : SameRevision(o, batch[b].rev)
                          => batch[o].attempt <= batch[b].attempt

\* is_latest_validation_batch: the newest attempt on the run's output revision.
LatestBatch(b) == batch[b].rev = outRev /\ LatestAttempt(b)

\* Somebody is applying the verdict of this batch.
EffectsOwned(b) == batch[b].effects # None /\ ~batch[b].applied

-----------------------------------------------------------------------------

WriteBatch(b, row)    == batch' = [batch EXCEPT ![b] = row]
WriteCheck(b, k, row) == check' = [check EXCEPT ![b][k] = row]

StoreInit ==
    /\ batch = [b \in Batches |-> Pristine]
    /\ check = [b \in Batches |-> [k \in Kinds |-> QueuedCheck]]
    /\ issued = {}
    /\ outRev = None
    /\ turn = None

\* Mutant of CreateBatch: a finalization overtakes a verdict being applied.
MutCreateBatchAnytime(b) ==
    /\ batch[b].status = "absent"
    /\ outRev # None
    /\ \E m \in AttemptsOf(outRev) :
          /\ \A n \in AttemptsOf(outRev) : n <= m
          /\ m + 1 <= MaxAttempt
          /\ WriteBatch(b, [Pristine EXCEPT !.status = "queued",
                                            !.rev = outRev,
                                            !.attempt = m + 1])
    /\ check' = [check EXCEPT ![b] = [k \in Kinds |-> QueuedCheck]]
    /\ UNCHANGED <<issued, outRev, turn>>

\* cadgen-ax-finalize queues a batch on the run's output revision, numbered
\* after its predecessors; refused while another batch of the same revision
\* has its effects claimed.
CreateBatch(b) ==
    /\ batch[b].status = "absent"
    /\ outRev # None
    /\ \A o \in Batches : SameRevision(o, outRev) => ~EffectsOwned(o)
    /\ \E m \in AttemptsOf(outRev) :
          /\ \A n \in AttemptsOf(outRev) : n <= m
          /\ m + 1 <= MaxAttempt
          /\ WriteBatch(b, [Pristine EXCEPT !.status = "queued",
                                            !.rev = outRev,
                                            !.attempt = m + 1])
    /\ check' = [check EXCEPT ![b] = [k \in Kinds |-> QueuedCheck]]
    /\ UNCHANGED <<issued, outRev, turn>>

\* The first check to run moves its batch from queued to running.
StartCheck(b, k) ==
    /\ Exists(b)
    /\ check[b][k].status = "queued"
    /\ WriteCheck(b, k, [check[b][k] EXCEPT !.status = "running"])
    /\ WriteBatch(b, [batch[b] EXCEPT !.status = IF @ = "queued" THEN "running" ELSE @])
    /\ UNCHANGED <<issued, outRev, turn>>

CompleteCheck(b, k, p) ==
    /\ Exists(b)
    /\ check[b][k].status = "running"
    /\ WriteCheck(b, k, [status |-> "succeeded", passed |-> p])
    /\ UNCHANGED <<batch, issued, outRev, turn>>

\* Mutant of FailCheck: a late failure overwrites a result.
MutFailCheckAnytime(b, k) ==
    /\ Exists(b)
    /\ WriteCheck(b, k, [status |-> "failed", passed |-> FALSE])
    /\ UNCHANGED <<batch, issued, outRev, turn>>

\* An operational failure; possible before the check ever ran.
FailCheck(b, k) ==
    /\ Exists(b)
    /\ check[b][k].status \in {"queued", "running"}
    /\ WriteCheck(b, k, [status |-> "failed", passed |-> FALSE])
    /\ UNCHANGED <<batch, issued, outRev, turn>>

\* Structural and DFM checks can be run again; a VLM check is bound to a turn.
ResetCheck(b, k) ==
    /\ Exists(b)
    /\ k # Vlm
    /\ check[b][k].status = "running"
    /\ WriteCheck(b, k, [check[b][k] EXCEPT !.status = "queued"])
    /\ UNCHANGED <<batch, issued, outRev, turn>>

-----------------------------------------------------------------------------

\* Mutant of CanClaimSettlement: the first check to end settles the batch.
MutCanClaimSettlementEarly(b) ==
    Unsettled(b) /\ batch[b].claim = None /\ \E k \in Kinds : Terminal(b, k)

CanClaimSettlement(b) == Unsettled(b) /\ batch[b].claim = None /\ AllTerminal(b)

ClaimSettlement(b, t) ==
    /\ CanClaimSettlement(b)
    /\ WriteBatch(b, [batch[b] EXCEPT !.claim = t])
    /\ UNCHANGED <<check, issued, outRev, turn>>

\* status is "succeeded" with an aggregate report or "failed" without one; a
\* batch no check of which was ever started can only fail (started_at IS NULL).
Settle(b, t, status, passed) ==
    /\ Unsettled(b)
    /\ t # None
    /\ batch[b].claim = t
    /\ AllTerminal(b)
    /\ status = "succeeded" => batch[b].status = "running"
    /\ WriteBatch(b, [batch[b] EXCEPT !.status = status,
                                      !.passed = (status = "succeeded" /\ passed),
                                      !.claim = None])
    /\ UNCHANGED <<check, issued, outRev, turn>>

ReleaseSettlement(b, t) ==
    /\ Unsettled(b)
    /\ t # None
    /\ batch[b].claim = t
    /\ WriteBatch(b, [batch[b] EXCEPT !.claim = None])
    /\ UNCHANGED <<check, issued, outRev, turn>>

\* Mutant of CanClaimEffects: effects_applied_at IS NULL is left out.
MutCanClaimEffectsAgain(b) == Settled(b) /\ batch[b].effects = None

CanClaimEffects(b) == Settled(b) /\ batch[b].effects = None /\ ~batch[b].applied

\* Mutant of ClaimEffects: the claim is a timestamp, which may repeat.
MutClaimEffectsByStamp(b, t) ==
    /\ CanClaimEffects(b)
    /\ issued' = issued \cup {t}
    /\ WriteBatch(b, [batch[b] EXCEPT !.effects = t])
    /\ UNCHANGED <<check, outRev, turn>>

ClaimEffects(b, t) ==
    /\ CanClaimEffects(b)
    /\ t \notin issued
    /\ issued' = issued \cup {t}
    /\ WriteBatch(b, [batch[b] EXCEPT !.effects = t])
    /\ UNCHANGED <<check, outRev, turn>>

OwnsEffects(b, t) == t # None /\ batch[b].effects = t /\ ~batch[b].applied

\* Mutant of MarkApplied: the claim is not released.
MutMarkAppliedKeepingClaim(b, t) ==
    /\ Settled(b)
    /\ OwnsEffects(b, t)
    /\ WriteBatch(b, [batch[b] EXCEPT !.applied = TRUE])
    /\ UNCHANGED <<check, issued, outRev, turn>>

MarkApplied(b, t) ==
    /\ Settled(b)
    /\ OwnsEffects(b, t)
    /\ WriteBatch(b, [batch[b] EXCEPT !.effects = None, !.applied = TRUE])
    /\ UNCHANGED <<check, issued, outRev, turn>>

\* Startup normalization: whoever held the claim died with the process.
ReleaseEffects(b) ==
    /\ OwnsEffects(b, batch[b].effects)
    /\ WriteBatch(b, [batch[b] EXCEPT !.effects = None])
    /\ UNCHANGED <<check, issued, outRev, turn>>

RequestRefinement(b, t) ==
    /\ Rejected(b)
    /\ OwnsEffects(b, t)
    /\ ~batch[b].requested
    /\ ~batch[b].bound
    /\ WriteBatch(b, [batch[b] EXCEPT !.requested = TRUE])
    /\ UNCHANGED <<check, issued, outRev, turn>>

\* The rejection is answered by a turn that is durably bound to the run.
BindRefinement(b, t) ==
    /\ Rejected(b)
    /\ OwnsEffects(b, t)
    /\ batch[b].requested
    /\ ~batch[b].bound
    /\ turn # None
    /\ WriteBatch(b, [batch[b] EXCEPT !.bound = TRUE, !.effects = None, !.applied = TRUE])
    /\ UNCHANGED <<check, issued, outRev, turn>>

-----------------------------------------------------------------------------

\* Mutant of LinkOutputRevision: the trigger that locks the revision is missing.
MutLinkOutputRevisionAnytime(r) ==
    /\ outRev' = r
    /\ UNCHANGED <<batch, check, issued, turn>>

\* cadgen-ax-source-apply gives the run a new output revision; the database
\* locks the old one while any verdict on the run is being applied.
LinkOutputRevision(r) ==
    /\ r = outRev \/ \A b \in Batches : ~EffectsOwned(b)
    /\ outRev' = r
    /\ UNCHANGED <<batch, check, issued, turn>>

\* A turn is bound to the run, or the binding is cleared for the next turn.
SetTurn(t) ==
    /\ turn' = t
    /\ UNCHANGED <<batch, check, issued, outRev>>

CheckStep(b) ==
    \E k \in Kinds :
        \/ StartCheck(b, k)
        \/ \E p \in BOOLEAN : CompleteCheck(b, k, p)
        \/ FailCheck(b, k)
        \/ ResetCheck(b, k)

SettlementStep(b) ==
    \E t \in Stamps :
        \/ ClaimSettlement(b, t)
        \/ \E p \in BOOLEAN : Settle(b, t, "succeeded", p)
        \/ Settle(b, t, "failed", FALSE)
        \/ ReleaseSettlement(b, t)

EffectsStep(b) ==
    \/ \E t \in Tokens :
          \/ ClaimEffects(b, t)
          \/ MarkApplied(b, t)
          \/ RequestRefinement(b, t)
          \/ BindRefinement(b, t)
    \/ ReleaseEffects(b)

RunStep ==
    \/ \E r \in Revs : LinkOutputRevision(r)
    \/ \E t \in Turns \cup {None} : SetTurn(t)

StoreNext ==
    \/ \E b \in Batches :
          CreateBatch(b) \/ CheckStep(b) \/ SettlementStep(b) \/ EffectsStep(b)
    \/ RunStep

StoreSpec == StoreInit /\ [][StoreNext]_storeVars

-----------------------------------------------------------------------------
(* Safety.  The conjuncts of StoreInv are the strengthening the proofs use. *)

\* A settlement is claimed only over a complete and still open batch.
ClaimIsOnComplete ==
    \A b \in Batches : batch[b].claim # None => Unsettled(b) /\ AllTerminal(b)

\* Whatever was done on behalf of a verdict (owned, requested or applied) was
\* done after every check of the batch had ended and a verdict was recorded.
EffectsFollowVerdict ==
    \A b \in Batches :
        /\ Settled(b) => AllTerminal(b)
        /\ (batch[b].effects # None \/ batch[b].requested \/ batch[b].applied) => Settled(b)

\* A refinement answers a rejection: never an operational failure or a pass;
\* and a bound refinement closes its batch for good, with no owner left.
RefinementAnswersRejection ==
    \A b \in Batches :
        /\ batch[b].requested => Rejected(b)
        /\ batch[b].bound => batch[b].requested /\ batch[b].applied
        /\ batch[b].applied => batch[b].effects = None

\* A batch exists with a revision and a positive attempt, and the attempts of
\* one revision are pairwise different: "the latest batch" is one batch.
AttemptsUnique ==
    \A b \in Batches :
        Exists(b) =>
            /\ batch[b].rev \in Revs
            /\ batch[b].attempt \in 1 .. MaxAttempt
            /\ \A o \in Batches : (SameRevision(o, batch[b].rev)
                                     /\ batch[o].attempt = batch[b].attempt) => o = b

\* An effects claim is held by one batch: a token names one owner.
TokensExclusive ==
    \A b \in Batches : batch[b].effects # None =>
        /\ batch[b].effects \in issued
        /\ \A o \in Batches : batch[o].effects = batch[b].effects => o = b

\* A row that does not exist yet carries nothing over.
AbsentIsPristine ==
    \A b \in Batches : ~Exists(b) => batch[b] = Pristine

StoreInv ==
    /\ StoreTypeOK
    /\ ClaimIsOnComplete
    /\ EffectsFollowVerdict
    /\ RefinementAnswersRejection
    /\ AttemptsUnique
    /\ TokensExclusive
    /\ AbsentIsPristine

(* Action properties. *)

\* Once a batch is settled its verdict and the checks it was computed from
\* never change, whatever claims are lost, released or retried afterwards.
VerdictIsFinal ==
    [][\A b \in Batches : Settled(b) =>
          /\ batch'[b].status = batch[b].status
          /\ batch'[b].passed = batch[b].passed
          /\ check'[b] = check[b]]_storeVars

\* Once the effects of a batch are applied its row is never written again: no
\* retry, recovery or late owner can apply the verdict a second time.
AppliedIsFinal ==
    [][\A b \in Batches : batch[b].applied => batch'[b] = batch[b]]_storeVars

\* The batch whose effects are being applied stays the newest attempt on the
\* run's output revision until its owner is done: neither a newer finalization
\* nor a newer model overtakes it, although both come from other processes.
OwnerStaysLatest ==
    [][\A b \in Batches :
          (batch[b].effects # None /\ LatestBatch(b) /\ batch'[b].effects = batch[b].effects)
             => LatestBatch(b)']_storeVars

\* A lost effects claim is dead: a token that owns nothing never owns again, so
\* an executor that outlived its claim cannot act on a batch claimed anew.
LostClaimIsDead ==
    [][\A t \in issued :
          (\A b \in Batches : batch[b].effects # t)
             => \A b \in Batches : batch'[b].effects # t]_storeVars

=============================================================================
