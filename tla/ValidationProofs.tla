-------------------------- MODULE ValidationProofs --------------------------
(***************************************************************************)
(* Proofs about the validation of a revision, for every set of batches,    *)
(* checks, revisions, claims and turns.                                    *)
(*                                                                         *)
(* The store: the safety of the durable record; what no step of it ever    *)
(* does, which rests on that invariant and on what the three kinds of      *)
(* writes leave alone; every write of a row is one step of the batch life  *)
(* cycle, or none.                                                         *)
(*                                                                         *)
(* The coordinator: in any environment it changes the record through the   *)
(* store's operations only, hence everything proved of the store holds of  *)
(* the running program; its state is well formed, an executor beyond its   *)
(* claim owns its batch (or the batch has been concluded), and a settled   *)
(* verdict is the one its checks give.                                     *)
(***************************************************************************)
EXTENDS StoreRefinement, ValidationCoordinator, TLAPS

-----------------------------------------------------------------------------
(* The store. *)

\* The numbers a new batch is compared with are natural numbers.
LEMMA AttemptsAreNat ==
    ASSUME StoreTypeOK, NEW r
    PROVE  AttemptsOf(r) \subseteq Nat
BY DEF StoreTypeOK, BatchRecord, AttemptsOf

\* Writing a row replaces that row and no other.
LEMMA WriteBatchRow ==
    ASSUME batch \in [Batches -> BatchRecord], NEW b \in Batches,
           NEW row \in BatchRecord, WriteBatch(b, row)
    PROVE  /\ batch' \in [Batches -> BatchRecord]
           /\ batch'[b] = row
           /\ \A o \in Batches : o # b => batch'[o] = batch[o]
BY DEF WriteBatch

\* Likewise for a check.
LEMMA WriteCheckRow ==
    ASSUME check \in [Batches -> [Kinds -> CheckRecord]], NEW b \in Batches,
           NEW k \in Kinds, NEW row \in CheckRecord, WriteCheck(b, k, row)
    PROVE  /\ check' \in [Batches -> [Kinds -> CheckRecord]]
           /\ check'[b][k] = row
           /\ \A o \in Batches, l \in Kinds : (o # b \/ l # k) => check'[o][l] = check[o][l]
BY DEF WriteCheck

\* Creation writes one pristine row, with a number above its predecessors'.
LEMMA CreateBatchEffect ==
    ASSUME StoreTypeOK, NEW b \in Batches, CreateBatch(b)
    PROVE  \E n \in 1 .. MaxAttempt :
              /\ n \in Nat
              /\ \A o \in Batches : SameRevision(o, outRev) => batch[o].attempt < n
              /\ WriteBatch(b, [Pristine EXCEPT !.status = "queued",
                                               !.rev = outRev,
                                               !.attempt = n])
<1>1. PICK m \in AttemptsOf(outRev) :
          /\ \A n \in AttemptsOf(outRev) : n <= m
          /\ m + 1 <= MaxAttempt
          /\ WriteBatch(b, [Pristine EXCEPT !.status = "queued",
                                           !.rev = outRev,
                                           !.attempt = m + 1])
  BY DEF CreateBatch
<1>2. AttemptsOf(outRev) \subseteq Nat
  BY AttemptsAreNat
<1>3. \A o \in Batches : SameRevision(o, outRev) => batch[o].attempt \in AttemptsOf(outRev)
  BY DEF AttemptsOf
<1>4. m \in Nat /\ m + 1 \in 1 .. MaxAttempt
  BY <1>1, <1>2, StoreAssumption
<1>5. \A o \in Batches : SameRevision(o, outRev) => batch[o].attempt < m + 1
  BY <1>1, <1>2, <1>3
<1>6. PICK n \in 1 .. MaxAttempt : n = m + 1
  BY <1>4
<1>7. /\ n \in Nat
      /\ \A o \in Batches : SameRevision(o, outRev) => batch[o].attempt < n
  BY <1>4, <1>5, <1>6
<1>8. WriteBatch(b, [Pristine EXCEPT !.status = "queued", !.rev = outRev, !.attempt = n])
  BY <1>1, <1>6
<1> QED
  BY <1>7, <1>8

\* Every write of a batch row writes a well-formed row; what each writes.
LEMMA RowsWritten ==
    ASSUME StoreTypeOK, NEW b \in Batches
    PROVE  /\ batch[b] \in BatchRecord
           /\ [batch[b] EXCEPT !.status = IF @ = "queued" THEN "running" ELSE @] \in BatchRecord
           /\ \A t \in Stamps \cup {None} : [batch[b] EXCEPT !.claim = t] \in BatchRecord
           /\ \A t \in Tokens \cup {None} : [batch[b] EXCEPT !.effects = t] \in BatchRecord
           /\ \A s \in {"succeeded", "failed"}, p \in BOOLEAN :
                 [batch[b] EXCEPT !.status = s, !.passed = (s = "succeeded" /\ p),
                                  !.claim = None] \in BatchRecord
           /\ [batch[b] EXCEPT !.effects = None, !.applied = TRUE] \in BatchRecord
           /\ [batch[b] EXCEPT !.requested = TRUE] \in BatchRecord
           /\ [batch[b] EXCEPT !.bound = TRUE, !.effects = None, !.applied = TRUE] \in BatchRecord
<1>1. batch[b] \in BatchRecord
  BY DEF StoreTypeOK
<1>2. /\ [batch[b] EXCEPT !.status = IF @ = "queued" THEN "running" ELSE @] \in BatchRecord
      /\ \A t \in Stamps \cup {None} : [batch[b] EXCEPT !.claim = t] \in BatchRecord
      /\ \A t \in Tokens \cup {None} : [batch[b] EXCEPT !.effects = t] \in BatchRecord
  BY <1>1 DEF BatchRecord, BatchStatus
<1>3. \A s \in {"succeeded", "failed"}, p \in BOOLEAN :
         [batch[b] EXCEPT !.status = s, !.passed = (s = "succeeded" /\ p),
                          !.claim = None] \in BatchRecord
  BY <1>1 DEF BatchRecord, BatchStatus
<1>4. /\ [batch[b] EXCEPT !.effects = None, !.applied = TRUE] \in BatchRecord
      /\ [batch[b] EXCEPT !.requested = TRUE] \in BatchRecord
      /\ [batch[b] EXCEPT !.bound = TRUE, !.effects = None, !.applied = TRUE] \in BatchRecord
  BY <1>1 DEF BatchRecord, BatchStatus
<1> QED
  BY <1>1, <1>2, <1>3, <1>4

\* A check step rewrites one check, and of batch rows only the status of one.
LEMMA CheckStepEffect ==
    ASSUME StoreTypeOK, NEW b \in Batches, CheckStep(b)
    PROVE  /\ StoreTypeOK'
           /\ UNCHANGED <<issued, outRev, turn>>
           /\ Exists(b)
           /\ \A o \in Batches : o # b => batch'[o] = batch[o] /\ check'[o] = check[o]
           /\ \/ batch'[b] = batch[b]
              \/ batch'[b] = [batch[b] EXCEPT !.status = IF @ = "queued" THEN "running" ELSE @]
           /\ \E k \in Kinds :
                 /\ ~Terminal(b, k)
                 /\ \A l \in Kinds : l # k => check'[b][l] = check[b][l]
<1>1. PICK k \in Kinds : \/ StartCheck(b, k)
                        \/ \E p \in BOOLEAN : CompleteCheck(b, k, p)
                        \/ FailCheck(b, k)
                        \/ ResetCheck(b, k)
  BY DEF CheckStep
<1>2. Exists(b) /\ ~Terminal(b, k) /\ UNCHANGED <<issued, outRev, turn>>
  BY <1>1 DEF StartCheck, CompleteCheck, FailCheck, ResetCheck, Terminal
<1>3. \E row \in CheckRecord : WriteCheck(b, k, row)
  <2>1. check[b][k] \in CheckRecord
    BY DEF StoreTypeOK
  <2>2. [check[b][k] EXCEPT !.status = "running"] \in CheckRecord
    BY <2>1 DEF CheckRecord, CheckStatus
  <2>3. [check[b][k] EXCEPT !.status = "queued"] \in CheckRecord
    BY <2>1 DEF CheckRecord, CheckStatus
  <2>4. \A p \in BOOLEAN : /\ [status |-> "succeeded", passed |-> p] \in CheckRecord
                           /\ [status |-> "failed", passed |-> p] \in CheckRecord
    BY DEF CheckRecord, CheckStatus
  <2> QED
    BY <1>1, <2>2, <2>3, <2>4 DEF StartCheck, CompleteCheck, FailCheck, ResetCheck
<1>4. /\ check' \in [Batches -> [Kinds -> CheckRecord]]
      /\ \A o \in Batches, l \in Kinds : (o # b \/ l # k) => check'[o][l] = check[o][l]
  BY <1>3, WriteCheckRow DEF StoreTypeOK
<1>5. \A o \in Batches : o # b => check'[o] = check[o]
  BY <1>3 DEF WriteCheck, StoreTypeOK
<1>6. \/ batch' = batch
      \/ WriteBatch(b, [batch[b] EXCEPT !.status = IF @ = "queued" THEN "running" ELSE @])
  BY <1>1 DEF StartCheck, CompleteCheck, FailCheck, ResetCheck
<1>7. /\ batch' \in [Batches -> BatchRecord]
      /\ \A o \in Batches : o # b => batch'[o] = batch[o]
      /\ \/ batch'[b] = batch[b]
         \/ batch'[b] = [batch[b] EXCEPT !.status = IF @ = "queued" THEN "running" ELSE @]
  BY <1>6, RowsWritten, WriteBatchRow DEF StoreTypeOK
<1>8. StoreTypeOK'
  BY <1>2, <1>4, <1>7 DEF StoreTypeOK
<1> QED
  BY <1>2, <1>4, <1>5, <1>7, <1>8

\* The claim, settlement and effects operations rewrite one batch row.
LEMMA RowStepEffect ==
    ASSUME StoreTypeOK, NEW b \in Batches, NEW row \in BatchRecord, WriteBatch(b, row),
           UNCHANGED <<check, outRev, turn>>, issued' \in SUBSET Tokens
    PROVE  /\ StoreTypeOK'
           /\ batch'[b] = row
           /\ \A o \in Batches : o # b => batch'[o] = batch[o]
BY WriteBatchRow DEF StoreTypeOK

\* What a rewritten row must satisfy for the invariant to survive: the row
\* keeps its identity, and is by itself a row the invariant allows.
RowOK(b, row) ==
    /\ row.status # "absent" /\ row.rev = batch[b].rev /\ row.attempt = batch[b].attempt
    /\ row.claim # None => row.status \in {"queued", "running"} /\ AllTerminal(b)
    /\ row.status \in {"succeeded", "failed"} => AllTerminal(b)
    /\ (row.effects # None \/ row.requested \/ row.applied)
          => row.status \in {"succeeded", "failed"}
    /\ row.requested => row.status = "succeeded" /\ ~row.passed
    /\ row.bound => row.requested /\ row.applied
    /\ row.applied => row.effects = None
    /\ row.effects # None => row.effects \in issued'
    /\ row.effects # None => row.effects \in {batch[b].effects} \/ row.effects \notin issued

\* A row written by a claim, settlement or effects operation that is itself well
\* formed keeps the record well formed.
LEMMA RowInv ==
    ASSUME StoreInv, NEW b \in Batches, Exists(b), NEW row \in BatchRecord,
           WriteBatch(b, row), RowOK(b, row),
           UNCHANGED <<check, outRev, turn>>,
           issued \subseteq issued', issued' \subseteq Tokens
    PROVE  StoreInv'
<1>1. /\ StoreTypeOK'
      /\ batch'[b] = row
      /\ \A o \in Batches : o # b => batch'[o] = batch[o]
  BY RowStepEffect DEF StoreInv
<1>2. check' = check
  OBVIOUS
<1>3. ClaimIsOnComplete'
  BY <1>1, <1>2 DEF StoreInv, ClaimIsOnComplete, RowOK, Unsettled, AllTerminal, Terminal
<1>4. EffectsFollowVerdict'
  BY <1>1, <1>2 DEF StoreInv, EffectsFollowVerdict, RowOK, Settled, AllTerminal, Terminal
<1>5. RefinementAnswersRejection'
  BY <1>1 DEF StoreInv, RefinementAnswersRejection, RowOK, Rejected
<1>6. AttemptsUnique'
  <2>1. \A o \in Batches : /\ Exists(o)' = Exists(o)
                           /\ batch'[o].rev = batch[o].rev
                           /\ batch'[o].attempt = batch[o].attempt
    BY <1>1 DEF RowOK, Exists
  <2>2. AttemptsUnique
    BY DEF StoreInv
  <2> QED
    BY <2>1, <2>2 DEF AttemptsUnique, SameRevision
<1>7. TokensExclusive'
  <2>1. TokensExclusive
    BY DEF StoreInv
  <2>2. \A o \in Batches : o # b => batch'[o].effects = batch[o].effects
    BY <1>1
  <2>3. batch'[b].effects # None =>
          /\ batch'[b].effects \in issued'
          /\ batch'[b].effects = batch[b].effects \/ batch'[b].effects \notin issued
    <3>1. batch'[b].effects = row.effects
      BY <1>1
    <3>2. row.effects # None => /\ row.effects \in issued'
                                /\ row.effects = batch[b].effects \/ row.effects \notin issued
      BY DEF RowOK
    <3> QED
      BY <3>1, <3>2
  <2> QED
    BY <2>1, <2>2, <2>3 DEF TokensExclusive
<1>8. AbsentIsPristine'
  BY <1>1 DEF StoreInv, AbsentIsPristine, RowOK, Exists
<1> QED
  BY <1>1, <1>3, <1>4, <1>5, <1>6, <1>7, <1>8 DEF StoreInv

\* Claiming, settling and releasing a settlement keep the invariant.
LEMMA SettlementInv ==
    ASSUME StoreInv, NEW b \in Batches, SettlementStep(b)
    PROVE  StoreInv'
<1>1. batch[b] \in BatchRecord /\ Exists(b) /\ StoreTypeOK
  BY DEF StoreInv, StoreTypeOK, SettlementStep, ClaimSettlement, CanClaimSettlement,
         Settle, ReleaseSettlement, Unsettled, Exists
<1>2. issued' = issued /\ UNCHANGED <<check, outRev, turn>>
  BY DEF SettlementStep, ClaimSettlement, Settle, ReleaseSettlement
<1>3. batch[b].effects # None => batch[b].effects \in issued
  BY DEF StoreInv, TokensExclusive
<1>4. /\ batch[b].claim # None => Unsettled(b) /\ AllTerminal(b)
      /\ Settled(b) => AllTerminal(b)
      /\ (batch[b].effects # None \/ batch[b].requested \/ batch[b].applied) => Settled(b)
      /\ batch[b].requested => Rejected(b)
      /\ batch[b].bound => batch[b].requested /\ batch[b].applied
      /\ batch[b].applied => batch[b].effects = None
  BY DEF StoreInv, ClaimIsOnComplete, EffectsFollowVerdict, RefinementAnswersRejection
<1>5. ASSUME NEW t \in Stamps, ClaimSettlement(b, t) PROVE StoreInv'
  <2> DEFINE row == [batch[b] EXCEPT !.claim = t]
  <2>1. row \in BatchRecord
    BY <1>1, RowsWritten
  <2>2. WriteBatch(b, row) /\ issued \subseteq issued' /\ issued' \subseteq Tokens
    BY <1>1, <1>2, <1>5 DEF ClaimSettlement, StoreTypeOK
  <2>3. RowOK(b, row)
    BY <1>1, <1>2, <1>3, <1>4, <1>5 DEF ClaimSettlement, CanClaimSettlement, Unsettled, Settled, Rejected, Exists, RowOK, BatchRecord
  <2> QED
    BY <1>1, <1>2, <2>1, <2>2, <2>3, RowInv
<1>6. ASSUME NEW t \in Stamps, NEW s \in {"succeeded", "failed"}, NEW p \in BOOLEAN,
             Settle(b, t, s, p)
      PROVE StoreInv'
  <2> DEFINE row == [batch[b] EXCEPT !.status = s, !.passed = (s = "succeeded" /\ p),
                                     !.claim = None]
  <2>1. row \in BatchRecord
    BY <1>1, RowsWritten
  <2>2. WriteBatch(b, row) /\ issued \subseteq issued' /\ issued' \subseteq Tokens
    BY <1>1, <1>2, <1>6 DEF Settle, StoreTypeOK
  <2>3. RowOK(b, row)
    BY <1>1, <1>2, <1>3, <1>4, <1>6 DEF Settle, Unsettled, Settled, Rejected, Exists, RowOK, BatchRecord
  <2> QED
    BY <1>1, <1>2, <2>1, <2>2, <2>3, RowInv
<1>7. ASSUME NEW t \in Stamps, ReleaseSettlement(b, t) PROVE StoreInv'
  <2> DEFINE row == [batch[b] EXCEPT !.claim = None]
  <2>1. row \in BatchRecord
    BY <1>1, RowsWritten
  <2>2. WriteBatch(b, row) /\ issued \subseteq issued' /\ issued' \subseteq Tokens
    BY <1>1, <1>2, <1>7 DEF ReleaseSettlement, StoreTypeOK
  <2>3. RowOK(b, row)
    BY <1>1, <1>2, <1>3, <1>4, <1>7 DEF ReleaseSettlement, Unsettled, Settled, Rejected, Exists, RowOK, BatchRecord
  <2> QED
    BY <1>1, <1>2, <2>1, <2>2, <2>3, RowInv
<1> QED
  BY <1>5, <1>6, <1>7 DEF SettlementStep

\* Claiming, releasing, applying effects and answering a rejection keep it too.
LEMMA EffectsInv ==
    ASSUME StoreInv, NEW b \in Batches, EffectsStep(b)
    PROVE  StoreInv'
<1>1. batch[b] \in BatchRecord /\ StoreTypeOK
  BY DEF StoreInv, StoreTypeOK
<1>2. issued \subseteq issued' /\ issued' \subseteq Tokens /\ UNCHANGED <<check, outRev, turn>>
  BY <1>1 DEF EffectsStep, ClaimEffects, MarkApplied, RequestRefinement, BindRefinement,
     ReleaseEffects, StoreTypeOK
<1>3. batch[b].effects # None => batch[b].effects \in issued
  BY DEF StoreInv, TokensExclusive
<1>4. /\ batch[b].claim # None => Unsettled(b) /\ AllTerminal(b)
      /\ Settled(b) => AllTerminal(b)
      /\ (batch[b].effects # None \/ batch[b].requested \/ batch[b].applied) => Settled(b)
      /\ batch[b].requested => Rejected(b)
      /\ batch[b].bound => batch[b].requested /\ batch[b].applied
      /\ batch[b].applied => batch[b].effects = None
  BY DEF StoreInv, ClaimIsOnComplete, EffectsFollowVerdict, RefinementAnswersRejection
<1>a. Exists(b)
  BY <1>4 DEF EffectsStep, ClaimEffects, CanClaimEffects, MarkApplied, RequestRefinement,
     BindRefinement, ReleaseEffects, OwnsEffects, Settled, Rejected, Exists
<1>5. ASSUME NEW t \in Tokens, ClaimEffects(b, t) PROVE StoreInv'
  <2> DEFINE row == [batch[b] EXCEPT !.effects = t]
  <2>1. row \in BatchRecord
    BY <1>1, RowsWritten
  <2>2. WriteBatch(b, row) /\ issued \subseteq issued' /\ issued' \subseteq Tokens
    BY <1>1, <1>2, <1>5 DEF ClaimEffects, StoreTypeOK
  <2>3. RowOK(b, row)
    BY <1>1, <1>2, <1>3, <1>4, <1>5 DEF ClaimEffects, CanClaimEffects, OwnsEffects, Unsettled, Settled, Rejected, Exists, RowOK, BatchRecord
  <2> QED
    BY <1>1, <1>2, <1>a, <2>1, <2>2, <2>3, RowInv
<1>6. ASSUME NEW t \in Tokens, MarkApplied(b, t) PROVE StoreInv'
  <2> DEFINE row == [batch[b] EXCEPT !.effects = None, !.applied = TRUE]
  <2>1. row \in BatchRecord
    BY <1>1, RowsWritten
  <2>2. WriteBatch(b, row) /\ issued \subseteq issued' /\ issued' \subseteq Tokens
    BY <1>1, <1>2, <1>6 DEF MarkApplied, StoreTypeOK
  <2>3. RowOK(b, row)
    BY <1>1, <1>2, <1>3, <1>4, <1>6 DEF MarkApplied, OwnsEffects, Unsettled, Settled, Rejected, Exists, RowOK, BatchRecord
  <2> QED
    BY <1>1, <1>2, <1>a, <2>1, <2>2, <2>3, RowInv
<1>7. ASSUME NEW t \in Tokens, RequestRefinement(b, t) PROVE StoreInv'
  <2> DEFINE row == [batch[b] EXCEPT !.requested = TRUE]
  <2>1. row \in BatchRecord
    BY <1>1, RowsWritten
  <2>2. WriteBatch(b, row) /\ issued \subseteq issued' /\ issued' \subseteq Tokens
    BY <1>1, <1>2, <1>7 DEF RequestRefinement, StoreTypeOK
  <2>3. RowOK(b, row)
    BY <1>1, <1>2, <1>3, <1>4, <1>7 DEF RequestRefinement, OwnsEffects, Unsettled, Settled, Rejected, Exists, RowOK, BatchRecord
  <2> QED
    BY <1>1, <1>2, <1>a, <2>1, <2>2, <2>3, RowInv
<1>8. ASSUME NEW t \in Tokens, BindRefinement(b, t) PROVE StoreInv'
  <2> DEFINE row == [batch[b] EXCEPT !.bound = TRUE, !.effects = None, !.applied = TRUE]
  <2>1. row \in BatchRecord
    BY <1>1, RowsWritten
  <2>2. WriteBatch(b, row) /\ issued \subseteq issued' /\ issued' \subseteq Tokens
    BY <1>1, <1>2, <1>8 DEF BindRefinement, StoreTypeOK
  <2>3. RowOK(b, row)
    BY <1>1, <1>2, <1>3, <1>4, <1>8 DEF BindRefinement, OwnsEffects, Unsettled, Settled, Rejected, Exists, RowOK, BatchRecord
  <2> QED
    BY <1>1, <1>2, <1>a, <2>1, <2>2, <2>3, RowInv
<1>9. ASSUME ReleaseEffects(b) PROVE StoreInv'
  <2> DEFINE row == [batch[b] EXCEPT !.effects = None]
  <2>1. row \in BatchRecord
    BY <1>1, RowsWritten
  <2>2. WriteBatch(b, row) /\ issued \subseteq issued' /\ issued' \subseteq Tokens
    BY <1>1, <1>2, <1>9 DEF ReleaseEffects, StoreTypeOK
  <2>3. RowOK(b, row)
    BY <1>1, <1>2, <1>3, <1>4, <1>9 DEF ReleaseEffects, OwnsEffects, Unsettled, Settled, Rejected, Exists, RowOK, BatchRecord
  <2> QED
    BY <1>1, <1>2, <1>a, <2>1, <2>2, <2>3, RowInv
<1> QED
  BY <1>5, <1>6, <1>7, <1>8, <1>9 DEF EffectsStep

\* A new batch is fresh in every respect the invariant looks at.
LEMMA CreateInv ==
    ASSUME StoreInv, NEW b \in Batches, CreateBatch(b)
    PROVE  StoreInv'
<1>1. StoreTypeOK /\ batch[b].status = "absent" /\ outRev \in Revs
  BY StoreAssumption DEF StoreInv, StoreTypeOK, CreateBatch
<1>2. PICK n \in 1 .. MaxAttempt :
          /\ n \in Nat
          /\ \A o \in Batches : SameRevision(o, outRev) => batch[o].attempt < n
          /\ WriteBatch(b, [Pristine EXCEPT !.status = "queued", !.rev = outRev, !.attempt = n])
  BY <1>1, CreateBatchEffect
<1> DEFINE row == [Pristine EXCEPT !.status = "queued", !.rev = outRev, !.attempt = n]
<1>3. /\ row.status = "queued" /\ row.rev = outRev /\ row.attempt = n
      /\ row.claim = None /\ row.effects = None
      /\ row.requested = FALSE /\ row.bound = FALSE /\ row.applied = FALSE
  BY DEF Pristine
<1>4. row \in BatchRecord
  BY <1>1, <1>2 DEF Pristine, BatchRecord, BatchStatus
<1>5. /\ batch' \in [Batches -> BatchRecord]
      /\ batch'[b] = row
      /\ \A o \in Batches : o # b => batch'[o] = batch[o]
  BY <1>1, <1>2, <1>4, WriteBatchRow DEF StoreTypeOK
<1>6. \A o \in Batches : o # b => check'[o] = check[o]
  BY <1>1 DEF CreateBatch, StoreTypeOK
<1>7. UNCHANGED <<issued, outRev, turn>>
  BY DEF CreateBatch
<1> HIDE DEF row
<1>8. StoreTypeOK'
  <2>1. check' \in [Batches -> [Kinds -> CheckRecord]]
    BY <1>1 DEF CreateBatch, StoreTypeOK, QueuedCheck, CheckRecord, CheckStatus
  <2> QED
    BY <1>1, <1>5, <1>7, <2>1 DEF StoreTypeOK
<1>9. ClaimIsOnComplete'
  BY <1>3, <1>5, <1>6 DEF StoreInv, ClaimIsOnComplete, Unsettled, AllTerminal, Terminal
<1>10. EffectsFollowVerdict'
  BY <1>3, <1>5, <1>6 DEF StoreInv, EffectsFollowVerdict, Settled, AllTerminal, Terminal
<1>11. RefinementAnswersRejection'
  BY <1>3, <1>5 DEF StoreInv, RefinementAnswersRejection, Rejected
<1>12. AttemptsUnique'
  <2>1. AttemptsUnique
    BY DEF StoreInv
  <2>2. \A o \in Batches : o # b /\ SameRevision(o, outRev)' => batch'[o].attempt < n
    BY <1>2, <1>5, <1>7 DEF SameRevision, Exists
  <2>3. \A o \in Batches : Exists(o)' => batch'[o].attempt \in 1 .. MaxAttempt
    BY <1>2, <1>3, <1>5, <2>1 DEF AttemptsUnique, Exists
  <2>4. \A o \in Batches : Exists(o)' => batch'[o].rev \in Revs
    BY <1>1, <1>3, <1>5, <2>1 DEF AttemptsUnique, Exists
  <2>5. ASSUME NEW o \in Batches, NEW p \in Batches, Exists(o)',
               SameRevision(p, batch[o].rev)', batch'[p].attempt = batch'[o].attempt
        PROVE  p = o
    <3>1. CASE o # b /\ p # b
      BY <1>5, <2>1, <2>5, <3>1 DEF AttemptsUnique, SameRevision, Exists
    <3>2. CASE o = b /\ p # b
      BY <1>2, <1>3, <1>5, <1>7, <2>2, <2>5, <3>2 DEF SameRevision
    <3>3. CASE p = b /\ o # b
      BY <1>2, <1>3, <1>5, <1>7, <2>2, <2>5, <3>3 DEF SameRevision
    <3> QED
      BY <3>1, <3>2, <3>3
  <2> QED
    BY <2>3, <2>4, <2>5 DEF AttemptsUnique, SameRevision
<1>13. TokensExclusive'
  BY <1>3, <1>5, <1>7 DEF StoreInv, TokensExclusive
<1>14. AbsentIsPristine'
  BY <1>3, <1>5 DEF StoreInv, AbsentIsPristine, Exists
<1> QED
  BY <1>8, <1>9, <1>10, <1>11, <1>12, <1>13, <1>14 DEF StoreInv

\* Check steps touch no batch whose checks have all ended.
LEMMA CheckInv ==
    ASSUME StoreInv, NEW b \in Batches, CheckStep(b)
    PROVE  StoreInv'
<1>1. StoreTypeOK
  BY DEF StoreInv
<1>2. /\ StoreTypeOK'
      /\ UNCHANGED <<issued, outRev, turn>>
      /\ Exists(b)
      /\ \A o \in Batches : o # b => batch'[o] = batch[o] /\ check'[o] = check[o]
      /\ \/ batch'[b] = batch[b]
         \/ batch'[b] = [batch[b] EXCEPT !.status = IF @ = "queued" THEN "running" ELSE @]
      /\ ~AllTerminal(b)
  BY <1>1, CheckStepEffect DEF AllTerminal
<1>3. /\ Unsettled(b)
      /\ batch[b].claim = None /\ batch[b].effects = None
      /\ ~batch[b].requested /\ ~batch[b].bound /\ ~batch[b].applied
  BY <1>1, <1>2 DEF StoreInv, ClaimIsOnComplete, EffectsFollowVerdict, RefinementAnswersRejection,
     StoreTypeOK, BatchRecord, BatchStatus, Exists, Settled, Unsettled
<1>4. /\ Unsettled(b)'
      /\ batch'[b].rev = batch[b].rev /\ batch'[b].attempt = batch[b].attempt
      /\ batch'[b].claim = None /\ batch'[b].effects = None
      /\ ~batch'[b].requested /\ ~batch'[b].bound /\ ~batch'[b].applied
  BY <1>1, <1>2, <1>3 DEF StoreTypeOK, BatchRecord, Unsettled
<1>5. \A o \in Batches : o # b => batch'[o] = batch[o] /\ check'[o] = check[o]
  BY <1>2
<1>6. ClaimIsOnComplete'
  BY <1>4, <1>5 DEF StoreInv, ClaimIsOnComplete, Unsettled, AllTerminal, Terminal
<1>7. EffectsFollowVerdict'
  BY <1>4, <1>5 DEF StoreInv, EffectsFollowVerdict, Settled, Unsettled, AllTerminal, Terminal
<1>8. RefinementAnswersRejection'
  BY <1>4, <1>5 DEF StoreInv, RefinementAnswersRejection, Rejected
<1>9. AttemptsUnique'
  <2>1. \A o \in Batches : /\ Exists(o)' = Exists(o)
                           /\ batch'[o].rev = batch[o].rev
                           /\ batch'[o].attempt = batch[o].attempt
    BY <1>2, <1>4, <1>5 DEF Exists, Unsettled
  <2>2. AttemptsUnique
    BY DEF StoreInv
  <2> QED
    BY <2>1, <2>2 DEF AttemptsUnique, SameRevision
<1>10. TokensExclusive'
  BY <1>2, <1>4, <1>5 DEF StoreInv, TokensExclusive
<1>11. AbsentIsPristine'
  BY <1>4, <1>5 DEF StoreInv, AbsentIsPristine, Exists, Unsettled
<1> QED
  BY <1>2, <1>6, <1>7, <1>8, <1>9, <1>10, <1>11 DEF StoreInv

\* Every operation keeps the invariant.
LEMMA StoreInvStep ==
    ASSUME StoreInv, [StoreNext]_storeVars
    PROVE  StoreInv'
<1>1. CASE RunStep
  BY <1>1 DEF RunStep, LinkOutputRevision, SetTurn, StoreInv, StoreTypeOK, ClaimIsOnComplete,
     EffectsFollowVerdict, RefinementAnswersRejection, AttemptsUnique, TokensExclusive,
     AbsentIsPristine, Unsettled, Settled, Rejected, Exists, SameRevision, AllTerminal, Terminal
<1>2. CASE UNCHANGED storeVars
  BY <1>2 DEF storeVars, StoreInv, StoreTypeOK, ClaimIsOnComplete,
     EffectsFollowVerdict, RefinementAnswersRejection, AttemptsUnique, TokensExclusive,
     AbsentIsPristine, Unsettled, Settled, Rejected, Exists, SameRevision, AllTerminal, Terminal
<1> QED
  BY <1>1, <1>2, CreateInv, CheckInv, SettlementInv, EffectsInv DEF StoreNext

\* The empty record is well formed.
LEMMA StoreInitInv == StoreInit => StoreInv
BY StoreAssumption DEF StoreInit, StoreInv, StoreTypeOK, ClaimIsOnComplete, EffectsFollowVerdict,
   RefinementAnswersRejection, AttemptsUnique, TokensExclusive, AbsentIsPristine, Pristine,
   QueuedCheck, BatchRecord, BatchStatus, CheckRecord, CheckStatus, Unsettled, Settled, Exists

\* The durable validation record is well formed in every reachable state.
THEOREM StoreSafe == StoreSpec => []StoreInv
<1>1. StoreInv /\ [StoreNext]_storeVars => StoreInv'
  BY StoreInvStep
<1> QED
  BY <1>1, StoreInitInv, PTL DEF StoreSpec

-----------------------------------------------------------------------------
(* What no step does. *)

\* A settlement step writes one open batch, and its identity survives.
LEMMA SettlementFrame ==
    ASSUME StoreInv, NEW b \in Batches, SettlementStep(b)
    PROVE  /\ Unsettled(b)
           /\ UNCHANGED <<check, issued, outRev>>
           /\ \A o \in Batches : o # b => batch'[o] = batch[o]
           /\ batch'[b].status # "absent"
           /\ batch'[b].rev = batch[b].rev
           /\ batch'[b].attempt = batch[b].attempt
           /\ batch'[b].effects = batch[b].effects
<1>1. batch \in [Batches -> BatchRecord] /\ batch[b] \in BatchRecord
  BY DEF StoreInv, StoreTypeOK
<1>2. Unsettled(b) /\ UNCHANGED <<check, issued, outRev>>
  BY DEF SettlementStep, ClaimSettlement, CanClaimSettlement, Settle, ReleaseSettlement
<1>3. ASSUME NEW t, WriteBatch(b, [batch[b] EXCEPT !.claim = t])
      PROVE  /\ \A o \in Batches : o # b => batch'[o] = batch[o]
             /\ batch'[b].status = batch[b].status
             /\ batch'[b].rev = batch[b].rev
             /\ batch'[b].attempt = batch[b].attempt
             /\ batch'[b].effects = batch[b].effects
  BY <1>1, <1>3 DEF WriteBatch, BatchRecord
<1>4. ASSUME NEW s \in {"succeeded", "failed"}, NEW p \in BOOLEAN,
             WriteBatch(b, [batch[b] EXCEPT !.status = s, !.passed = (s = "succeeded" /\ p),
                                            !.claim = None])
      PROVE  /\ \A o \in Batches : o # b => batch'[o] = batch[o]
             /\ batch'[b].status = s
             /\ batch'[b].rev = batch[b].rev
             /\ batch'[b].attempt = batch[b].attempt
             /\ batch'[b].effects = batch[b].effects
  BY <1>1, <1>4 DEF WriteBatch, BatchRecord
<1>5. CASE \E t \in Stamps : ClaimSettlement(b, t) \/ ReleaseSettlement(b, t)
  BY <1>2, <1>3, <1>5 DEF ClaimSettlement, ReleaseSettlement, Unsettled
<1>6. CASE \E t \in Stamps, s \in {"succeeded", "failed"}, p \in BOOLEAN : Settle(b, t, s, p)
  BY <1>2, <1>4, <1>6 DEF Settle
<1> QED
  BY <1>5, <1>6 DEF SettlementStep

\* An effects step writes one batch whose effects are still to be applied; the
\* verdict survives, and a claim that appears has never been used.
LEMMA EffectsFrame ==
    ASSUME StoreInv, NEW b \in Batches, EffectsStep(b)
    PROVE  /\ ~batch[b].applied
           /\ UNCHANGED <<check, outRev>>
           /\ issued \subseteq issued'
           /\ \A o \in Batches : o # b => batch'[o] = batch[o]
           /\ batch'[b].status = batch[b].status
           /\ batch'[b].passed = batch[b].passed
           /\ batch'[b].rev = batch[b].rev
           /\ batch'[b].attempt = batch[b].attempt
           /\ batch'[b].effects \in {None, batch[b].effects} \/ batch'[b].effects \notin issued
<1>1. batch \in [Batches -> BatchRecord] /\ batch[b] \in BatchRecord
  BY DEF StoreInv, StoreTypeOK
<1>2. UNCHANGED <<check, outRev>> /\ issued \subseteq issued' /\ ~batch[b].applied
  BY DEF EffectsStep, ClaimEffects, CanClaimEffects, MarkApplied, RequestRefinement,
     BindRefinement, ReleaseEffects, OwnsEffects
<1> DEFINE Keeps ==
        /\ \A o \in Batches : o # b => batch'[o] = batch[o]
        /\ batch'[b].status = batch[b].status
        /\ batch'[b].passed = batch[b].passed
        /\ batch'[b].rev = batch[b].rev
        /\ batch'[b].attempt = batch[b].attempt
<1>3. ASSUME NEW t \in Tokens, ClaimEffects(b, t)
      PROVE  Keeps /\ batch'[b].effects \notin issued
  BY <1>1, <1>3 DEF ClaimEffects, WriteBatch, BatchRecord
<1>4. ASSUME NEW t \in Tokens, MarkApplied(b, t)
      PROVE  Keeps /\ batch'[b].effects = None
  BY <1>1, <1>4 DEF MarkApplied, WriteBatch, BatchRecord
<1>5. ASSUME NEW t \in Tokens, RequestRefinement(b, t)
      PROVE  Keeps /\ batch'[b].effects = batch[b].effects
  BY <1>1, <1>5 DEF RequestRefinement, WriteBatch, BatchRecord
<1>6. ASSUME NEW t \in Tokens, BindRefinement(b, t)
      PROVE  Keeps /\ batch'[b].effects = None
  BY <1>1, <1>6 DEF BindRefinement, WriteBatch, BatchRecord
<1>7. ASSUME ReleaseEffects(b)
      PROVE  Keeps /\ batch'[b].effects = None
  BY <1>1, <1>7 DEF ReleaseEffects, WriteBatch, BatchRecord
<1>8. Keeps /\ (batch'[b].effects \in {None, batch[b].effects} \/ batch'[b].effects \notin issued)
  BY <1>3, <1>4, <1>5, <1>6, <1>7 DEF EffectsStep
<1> QED
  BY <1>2, <1>8

\* A creation writes one absent batch, under no claim, numbered above the
\* others of its revision, none of which is being acted upon.
LEMMA CreateFrame ==
    ASSUME StoreInv, NEW b \in Batches, CreateBatch(b)
    PROVE  /\ ~Exists(b)
           /\ UNCHANGED <<issued, outRev>>
           /\ \A o \in Batches : o # b => batch'[o] = batch[o] /\ check'[o] = check[o]
           /\ batch'[b].rev = outRev
           /\ batch'[b].effects = None
           /\ \A o \in Batches : SameRevision(o, outRev) => ~EffectsOwned(o)
<1>1. /\ batch \in [Batches -> BatchRecord]
      /\ check \in [Batches -> [Kinds -> CheckRecord]]
      /\ StoreTypeOK
  BY DEF StoreInv, StoreTypeOK
<1>2. PICK n : WriteBatch(b, [Pristine EXCEPT !.status = "queued", !.rev = outRev, !.attempt = n])
  BY <1>1, CreateBatchEffect
<1>3. /\ \A o \in Batches : o # b => batch'[o] = batch[o]
      /\ batch'[b] = [Pristine EXCEPT !.status = "queued", !.rev = outRev, !.attempt = n]
  BY <1>1, <1>2 DEF WriteBatch
<1>4. batch'[b].rev = outRev /\ batch'[b].effects = None
  BY <1>3 DEF Pristine
<1>5. \A o \in Batches : o # b => check'[o] = check[o]
  BY <1>1 DEF CreateBatch
<1> QED
  BY <1>3, <1>4, <1>5 DEF CreateBatch, Exists

-----------------------------------------------------------------------------

\* No operation changes a settled verdict.
LEMMA VerdictIsFinalStep ==
    ASSUME StoreInv, StoreNext, NEW b \in Batches, Settled(b)
    PROVE  /\ batch'[b].status = batch[b].status
           /\ batch'[b].passed = batch[b].passed
           /\ check'[b] = check[b]
<1>1. CASE \E o \in Batches : CreateBatch(o)
  BY <1>1, CreateFrame DEF Settled, Exists
<1>2. CASE \E o \in Batches : CheckStep(o)
  <2>1. PICK o \in Batches : CheckStep(o)
    BY <1>2
  <2>2. /\ \A x \in Batches : x # o => batch'[x] = batch[x] /\ check'[x] = check[x]
        /\ ~AllTerminal(o)
    BY <2>1, CheckStepEffect DEF StoreInv, AllTerminal
  <2>3. o # b
    BY <2>2 DEF StoreInv, EffectsFollowVerdict
  <2> QED
    BY <2>2, <2>3
<1>3. CASE \E o \in Batches : SettlementStep(o)
  BY <1>3, SettlementFrame DEF Settled, Unsettled
<1>4. CASE \E o \in Batches : EffectsStep(o)
  BY <1>4, EffectsFrame
<1>5. CASE RunStep
  BY <1>5 DEF RunStep, LinkOutputRevision, SetTurn
<1> QED
  BY <1>1, <1>2, <1>3, <1>4, <1>5 DEF StoreNext

\* No step changes a verdict once given, nor the checks it was computed from:
\* settle_validation_batch and update_validation_check refuse.
THEOREM VerdictFinal == StoreSpec => VerdictIsFinal
<1>1. StoreInv /\ [StoreNext]_storeVars
        => [\A b \in Batches : Settled(b) =>
              /\ batch'[b].status = batch[b].status
              /\ batch'[b].passed = batch[b].passed
              /\ check'[b] = check[b]]_storeVars
  BY VerdictIsFinalStep DEF storeVars
<1> QED
  BY <1>1, StoreSafe, PTL DEF StoreSpec, VerdictIsFinal

\* No operation writes the row of an applied batch.
LEMMA AppliedIsFinalStep ==
    ASSUME StoreInv, StoreNext, NEW b \in Batches, batch[b].applied
    PROVE  batch'[b] = batch[b]
<1>0. Settled(b)
  BY DEF StoreInv, EffectsFollowVerdict
<1>1. CASE \E o \in Batches : CreateBatch(o)
  BY <1>0, <1>1, CreateFrame DEF Settled, Exists
<1>2. CASE \E o \in Batches : CheckStep(o)
  <2>1. PICK o \in Batches : CheckStep(o)
    BY <1>2
  <2>2. (\A x \in Batches : x # o => batch'[x] = batch[x]) /\ ~AllTerminal(o)
    BY <2>1, CheckStepEffect DEF StoreInv, AllTerminal
  <2>3. o # b
    BY <1>0, <2>2 DEF StoreInv, EffectsFollowVerdict
  <2> QED
    BY <2>2, <2>3
<1>3. CASE \E o \in Batches : SettlementStep(o)
  BY <1>0, <1>3, SettlementFrame DEF Settled, Unsettled
<1>4. CASE \E o \in Batches : EffectsStep(o)
  BY <1>4, EffectsFrame
<1>5. CASE RunStep
  BY <1>5 DEF RunStep, LinkOutputRevision, SetTurn
<1> QED
  BY <1>1, <1>2, <1>3, <1>4, <1>5 DEF StoreNext

\* A batch whose effects were applied is never written again.
THEOREM AppliedFinal == StoreSpec => AppliedIsFinal
<1>1. StoreInv /\ [StoreNext]_storeVars
        => [\A b \in Batches : batch[b].applied => batch'[b] = batch[b]]_storeVars
  BY AppliedIsFinalStep DEF storeVars
<1> QED
  BY <1>1, StoreSafe, PTL DEF StoreSpec, AppliedIsFinal

-----------------------------------------------------------------------------

\* What a step other than a creation keeps of every row.
LEMMA IdentityKept ==
    ASSUME StoreInv, NEW o \in Batches, CheckStep(o) \/ SettlementStep(o) \/ EffectsStep(o)
    PROVE  \A b \in Batches : /\ Exists(b)' = Exists(b)
                              /\ batch'[b].rev = batch[b].rev
                              /\ batch'[b].attempt = batch[b].attempt
<1>1. CASE CheckStep(o)
  <2>1. /\ \A x \in Batches : x # o => batch'[x] = batch[x]
        /\ \/ batch'[o] = batch[o]
           \/ batch'[o] = [batch[o] EXCEPT !.status = IF @ = "queued" THEN "running" ELSE @]
        /\ Exists(o)
    BY <1>1, CheckStepEffect DEF StoreInv
  <2>2. batch[o] \in BatchRecord
    BY DEF StoreInv, StoreTypeOK
  <2>3. /\ Exists(o)' = Exists(o)
        /\ batch'[o].rev = batch[o].rev
        /\ batch'[o].attempt = batch[o].attempt
    BY <2>1, <2>2 DEF BatchRecord, Exists
  <2> QED
    BY <2>1, <2>3 DEF Exists
<1>2. CASE SettlementStep(o)
  BY <1>2, SettlementFrame DEF Exists, Unsettled
<1>3. CASE EffectsStep(o)
  BY <1>3, EffectsFrame DEF Exists
<1> QED
  BY <1>1, <1>2, <1>3

\* Only linking a revision changes the run's output revision.
LEMMA OutRevKept ==
    ASSUME NEW o \in Batches, CheckStep(o) \/ SettlementStep(o) \/ EffectsStep(o)
    PROVE  outRev' = outRev
<1>1. CASE CheckStep(o)
  BY <1>1 DEF CheckStep, StartCheck, CompleteCheck, FailCheck, ResetCheck
<1>2. CASE SettlementStep(o)
  BY <1>2 DEF SettlementStep, ClaimSettlement, Settle, ReleaseSettlement
<1>3. CASE EffectsStep(o)
  BY <1>3 DEF EffectsStep, ClaimEffects, MarkApplied, RequestRefinement, BindRefinement,
     ReleaseEffects
<1> QED
  BY <1>1, <1>2, <1>3

\* No operation overtakes the owner of the newest batch.
LEMMA OwnerStaysLatestStep ==
    ASSUME StoreInv, StoreNext, NEW b \in Batches, batch[b].effects # None, LatestBatch(b),
           batch'[b].effects = batch[b].effects
    PROVE  LatestBatch(b)'
<1>1. Exists(b) /\ EffectsOwned(b) /\ batch[b].rev = outRev
  BY DEF StoreInv, EffectsFollowVerdict, RefinementAnswersRejection, Settled, Exists,
     EffectsOwned, LatestBatch
<1>2. ASSUME NEW o \in Batches, CreateBatch(o) PROVE FALSE
  BY <1>1, <1>2 DEF CreateBatch, SameRevision
<1>3. CASE \E o \in Batches : CheckStep(o) \/ SettlementStep(o) \/ EffectsStep(o)
  BY <1>3, IdentityKept, OutRevKept DEF LatestBatch, LatestAttempt, SameRevision
<1>4. CASE RunStep
  BY <1>1, <1>4 DEF RunStep, LinkOutputRevision, SetTurn, LatestBatch, LatestAttempt,
     SameRevision, Exists
<1> QED
  BY <1>2, <1>3, <1>4 DEF StoreNext

\* While somebody applies the verdict of the newest attempt on the run's output
\* revision, no newer attempt and no newer revision is recorded.
THEOREM OwnerLatest == StoreSpec => OwnerStaysLatest
<1>1. StoreInv /\ [StoreNext]_storeVars
        => [\A b \in Batches :
              (batch[b].effects # None /\ LatestBatch(b) /\ batch'[b].effects = batch[b].effects)
                 => LatestBatch(b)']_storeVars
  BY OwnerStaysLatestStep DEF storeVars
<1> QED
  BY <1>1, StoreSafe, PTL DEF StoreSpec, OwnerStaysLatest

\* No operation gives a claim that was handed out before to a batch.
LEMMA LostClaimIsDeadStep ==
    ASSUME StoreInv, StoreNext, NEW t \in issued, \A b \in Batches : batch[b].effects # t,
           NEW b \in Batches
    PROVE  batch'[b].effects # t
<1>1. t # None
  BY StoreAssumption DEF StoreInv, StoreTypeOK
<1>2. CASE \E o \in Batches : CreateBatch(o)
  BY <1>1, <1>2, CreateFrame
<1>3. CASE \E o \in Batches : CheckStep(o)
  <2>1. PICK o \in Batches : CheckStep(o)
    BY <1>3
  <2>2. /\ \A x \in Batches : x # o => batch'[x] = batch[x]
        /\ \/ batch'[o] = batch[o]
           \/ batch'[o] = [batch[o] EXCEPT !.status = IF @ = "queued" THEN "running" ELSE @]
    BY <2>1, CheckStepEffect DEF StoreInv
  <2>3. batch[o] \in BatchRecord
    BY DEF StoreInv, StoreTypeOK
  <2>4. batch'[o].effects = batch[o].effects
    BY <2>2, <2>3 DEF BatchRecord
  <2> QED
    BY <2>2, <2>4
<1>4. CASE \E o \in Batches : SettlementStep(o)
  BY <1>4, SettlementFrame
<1>5. CASE \E o \in Batches : EffectsStep(o)
  BY <1>1, <1>5, EffectsFrame
<1>6. CASE RunStep
  BY <1>6 DEF RunStep, LinkOutputRevision, SetTurn
<1> QED
  BY <1>2, <1>3, <1>4, <1>5, <1>6 DEF StoreNext

\* A claim that was released or lost never owns a batch again.
THEOREM LostClaimDead == StoreSpec => LostClaimIsDead
<1>1. StoreInv /\ [StoreNext]_storeVars
        => [\A t \in issued :
              (\A b \in Batches : batch[b].effects # t)
                 => \A b \in Batches : batch'[b].effects # t]_storeVars
  BY LostClaimIsDeadStep DEF storeVars
<1> QED
  BY <1>1, StoreSafe, PTL DEF StoreSpec, LostClaimIsDead

-----------------------------------------------------------------------------
(* The life cycle. *)

\* A write that shows nothing of a row to the life cycle is a stutter.
LEMMA HiddenWrite ==
    ASSUME \A o \in Batches : /\ VerdictOf(o)' = VerdictOf(o)
                              /\ batch'[o].rev = batch[o].rev
                              /\ batch'[o].effects = batch[o].effects
                              /\ OutcomeOf(o)' = OutcomeOf(o)
    PROVE  UNCHANGED Lifecycle!lifecycleVars
BY DEF Lifecycle!lifecycleVars

\* Checks are not visible to the life cycle.
LEMMA CheckHidden ==
    ASSUME StoreInv, NEW b \in Batches, CheckStep(b)
    PROVE  UNCHANGED Lifecycle!lifecycleVars
<1>1. /\ \A o \in Batches : o # b => batch'[o] = batch[o]
      /\ \/ batch'[b] = batch[b]
         \/ batch'[b] = [batch[b] EXCEPT !.status = IF @ = "queued" THEN "running" ELSE @]
  BY CheckStepEffect DEF StoreInv
<1>2. batch[b] \in BatchRecord
  BY DEF StoreInv, StoreTypeOK
<1>3. /\ batch'[b].rev = batch[b].rev
      /\ batch'[b].effects = batch[b].effects
      /\ batch'[b].applied = batch[b].applied
      /\ batch'[b].bound = batch[b].bound
      /\ batch'[b].passed = batch[b].passed
      /\ batch'[b].status = IF batch[b].status = "queued" THEN "running" ELSE batch[b].status
      \/ batch'[b] = batch[b]
  BY <1>1, <1>2 DEF BatchRecord
<1>4. \A o \in Batches : VerdictOf(o)' = VerdictOf(o) /\ OutcomeOf(o)' = OutcomeOf(o)
  BY <1>1, <1>3 DEF VerdictOf, OutcomeOf, Exists, Unsettled, Rejected
<1> QED
  BY <1>1, <1>3, <1>4, HiddenWrite

\* A new batch is opened for a revision whose verdict nobody is acting upon.
LEMMA CreateOpens ==
    ASSUME StoreInv, NEW b \in Batches, CreateBatch(b)
    PROVE  Lifecycle!LifecycleNext
<1>1. /\ ~Exists(b)
      /\ \A o \in Batches : o # b => batch'[o] = batch[o]
      /\ \A o \in Batches : SameRevision(o, outRev) => ~EffectsOwned(o)
  BY CreateFrame
<1>2. outRev \in Revs /\ StoreTypeOK
  BY DEF CreateBatch, StoreInv, StoreTypeOK
<1>3. PICK n : WriteBatch(b, [Pristine EXCEPT !.status = "queued", !.rev = outRev, !.attempt = n])
  BY <1>2, CreateBatchEffect
<1>4. batch'[b] = [Pristine EXCEPT !.status = "queued", !.rev = outRev, !.attempt = n]
  BY <1>2, <1>3 DEF WriteBatch, StoreTypeOK
<1>5. /\ batch'[b].status = "queued" /\ batch'[b].rev = outRev
      /\ batch'[b].effects = None /\ ~batch'[b].applied
  BY <1>4 DEF Pristine
<1>6. batch[b].effects = None /\ ~batch[b].applied /\ VerdictOf(b) = "none"
  BY <1>1 DEF StoreInv, AbsentIsPristine, Pristine, VerdictOf, Exists, Unsettled, Rejected
<1>7. VerdictOf(b)' = "pending" /\ OutcomeOf(b)' = OutcomeOf(b)
  BY <1>5, <1>6 DEF VerdictOf, OutcomeOf, Exists, Unsettled, Rejected
<1>8. \A o \in Batches : o # b => VerdictOf(o)' = VerdictOf(o) /\ OutcomeOf(o)' = OutcomeOf(o)
  BY <1>1 DEF VerdictOf, OutcomeOf, Exists, Unsettled, Rejected
<1>9. \A o \in Batches : batch[o].effects # None => batch[o].rev # outRev
  BY <1>1, <1>2 DEF SameRevision, EffectsOwned, StoreInv, RefinementAnswersRejection,
     EffectsFollowVerdict, Settled, Exists
<1>10. PICK r \in Revs : r = outRev
  BY <1>2
<1>11. Lifecycle!Open(b, r)
  BY <1>1, <1>5, <1>6, <1>7, <1>8, <1>9, <1>10 DEF Lifecycle!Open
<1> QED
  BY <1>11 DEF Lifecycle!LifecycleNext

\* Settling judges the batch; claiming and releasing a settlement are hidden.
LEMMA SettlementJudges ==
    ASSUME StoreInv, NEW b \in Batches, SettlementStep(b)
    PROVE  [Lifecycle!LifecycleNext]_Lifecycle!lifecycleVars
<1>1. /\ Unsettled(b)
      /\ \A o \in Batches : o # b => batch'[o] = batch[o]
      /\ batch'[b].rev = batch[b].rev
      /\ batch'[b].effects = batch[b].effects
  BY SettlementFrame
<1>2. batch \in [Batches -> BatchRecord] /\ batch[b] \in BatchRecord
  BY DEF StoreInv, StoreTypeOK
<1>3. \A o \in Batches : o # b => VerdictOf(o)' = VerdictOf(o) /\ OutcomeOf(o)' = OutcomeOf(o)
  BY <1>1 DEF VerdictOf, OutcomeOf, Exists, Unsettled, Rejected
<1>4. CASE \E t \in Stamps : ClaimSettlement(b, t) \/ ReleaseSettlement(b, t)
  <2>1. PICK t : WriteBatch(b, [batch[b] EXCEPT !.claim = t])
    BY <1>4 DEF ClaimSettlement, ReleaseSettlement
  <2>2. /\ batch'[b].status = batch[b].status /\ batch'[b].passed = batch[b].passed
        /\ batch'[b].applied = batch[b].applied /\ batch'[b].bound = batch[b].bound
    BY <1>2, <2>1 DEF WriteBatch, BatchRecord
  <2>3. VerdictOf(b)' = VerdictOf(b) /\ OutcomeOf(b)' = OutcomeOf(b)
    BY <2>2 DEF VerdictOf, OutcomeOf, Exists, Unsettled, Rejected
  <2> QED
    BY <1>1, <1>3, <2>3, HiddenWrite
<1>5. CASE \E t \in Stamps, s \in {"succeeded", "failed"}, p \in BOOLEAN : Settle(b, t, s, p)
  <2>1. PICK s \in {"succeeded", "failed"}, p \in BOOLEAN :
            WriteBatch(b, [batch[b] EXCEPT !.status = s, !.passed = (s = "succeeded" /\ p),
                                           !.claim = None])
    BY <1>5 DEF Settle
  <2>2. /\ batch'[b].status = s
        /\ batch'[b].applied = batch[b].applied /\ batch'[b].bound = batch[b].bound
    BY <1>2, <2>1 DEF WriteBatch, BatchRecord
  <2>3. VerdictOf(b) = "pending" /\ VerdictOf(b)' \in Lifecycle!Judged /\ OutcomeOf(b)' = OutcomeOf(b)
    BY <1>1, <2>2 DEF VerdictOf, OutcomeOf, Exists, Unsettled, Rejected, Lifecycle!Judged
  <2>4. Lifecycle!Judge(b, VerdictOf(b)')
    BY <1>1, <1>3, <2>3 DEF Lifecycle!Judge
  <2> QED
    BY <2>3, <2>4 DEF Lifecycle!LifecycleNext
<1> QED
  BY <1>4, <1>5 DEF SettlementStep

\* Claiming effects is to act, releasing them to abandon, applying to conclude.
LEMMA EffectsAct ==
    ASSUME StoreInv, NEW b \in Batches, EffectsStep(b)
    PROVE  [Lifecycle!LifecycleNext]_Lifecycle!lifecycleVars
<1>1. /\ ~batch[b].applied
      /\ \A o \in Batches : o # b => batch'[o] = batch[o]
      /\ batch'[b].status = batch[b].status
      /\ batch'[b].passed = batch[b].passed
      /\ batch'[b].rev = batch[b].rev
  BY EffectsFrame
<1>2. batch \in [Batches -> BatchRecord] /\ batch[b] \in BatchRecord
  BY DEF StoreInv, StoreTypeOK
<1>3. /\ \A o \in Batches : VerdictOf(o)' = VerdictOf(o) /\ batch'[o].rev = batch[o].rev
      /\ \A o \in Batches : o # b => /\ OutcomeOf(o)' = OutcomeOf(o)
                                     /\ batch'[o].effects = batch[o].effects
      /\ OutcomeOf(b) = "open"
  BY <1>1 DEF VerdictOf, OutcomeOf, Exists, Unsettled, Rejected
<1>4. batch[b].bound => batch[b].applied
  BY DEF StoreInv, RefinementAnswersRejection
<1>5. ASSUME NEW t \in Tokens, ClaimEffects(b, t) PROVE Lifecycle!Act(b)
  <2>1. t # None /\ batch[b].effects = None /\ Settled(b)
    BY <1>5, StoreAssumption DEF ClaimEffects, CanClaimEffects
  <2>2. batch'[b].effects = t /\ ~batch'[b].applied
    BY <1>1, <1>2, <1>5 DEF ClaimEffects, WriteBatch, BatchRecord
  <2>3. VerdictOf(b) \in Lifecycle!Judged /\ OutcomeOf(b)' = OutcomeOf(b)
    BY <1>1, <2>1, <2>2 DEF VerdictOf, OutcomeOf, Exists, Unsettled, Settled, Rejected, Lifecycle!Judged
  <2> QED
    BY <1>3, <2>1, <2>2, <2>3 DEF Lifecycle!Act
<1>6. ASSUME NEW t \in Tokens, MarkApplied(b, t) PROVE Lifecycle!Conclude(b, "closed")
  <2>1. batch[b].effects # None
    BY <1>6 DEF MarkApplied, OwnsEffects
  <2>2. batch'[b].effects = None /\ batch'[b].applied /\ batch'[b].bound = batch[b].bound
    BY <1>2, <1>6 DEF MarkApplied, WriteBatch, BatchRecord
  <2>3. OutcomeOf(b)' = "closed"
    BY <1>1, <1>4, <2>2 DEF OutcomeOf
  <2> QED
    BY <1>3, <2>1, <2>2, <2>3 DEF Lifecycle!Conclude
<1>7. ASSUME NEW t \in Tokens, BindRefinement(b, t) PROVE Lifecycle!Conclude(b, "refining")
  <2>1. batch[b].effects # None /\ Rejected(b)
    BY <1>7 DEF BindRefinement, OwnsEffects
  <2>2. batch'[b].effects = None /\ batch'[b].applied /\ batch'[b].bound
    BY <1>2, <1>7 DEF BindRefinement, WriteBatch, BatchRecord
  <2>3. OutcomeOf(b)' = "refining" /\ VerdictOf(b) = "rejected"
    BY <2>1, <2>2 DEF OutcomeOf, VerdictOf, Exists, Unsettled, Rejected
  <2> QED
    BY <1>3, <2>1, <2>2, <2>3 DEF Lifecycle!Conclude
<1>8. ASSUME NEW t \in Tokens, RequestRefinement(b, t) PROVE UNCHANGED Lifecycle!lifecycleVars
  <2>1. batch'[b].effects = batch[b].effects /\ ~batch'[b].applied
    BY <1>1, <1>2, <1>8 DEF RequestRefinement, WriteBatch, BatchRecord
  <2>2. OutcomeOf(b)' = OutcomeOf(b)
    BY <1>1, <2>1 DEF OutcomeOf
  <2> QED
    BY <1>3, <2>1, <2>2, HiddenWrite
<1>9. ASSUME ReleaseEffects(b) PROVE Lifecycle!Abandon(b)
  <2>1. batch[b].effects # None
    BY <1>9 DEF ReleaseEffects, OwnsEffects
  <2>2. batch'[b].effects = None /\ ~batch'[b].applied
    BY <1>1, <1>2, <1>9 DEF ReleaseEffects, WriteBatch, BatchRecord
  <2>3. OutcomeOf(b)' = OutcomeOf(b)
    BY <1>1, <2>2 DEF OutcomeOf
  <2> QED
    BY <1>3, <2>1, <2>2, <2>3 DEF Lifecycle!Abandon
<1> QED
  BY <1>5, <1>6, <1>7, <1>8, <1>9 DEF EffectsStep, Lifecycle!LifecycleNext

\* The durable record implements the life cycle of a batch: judged once, acted
\* upon by one actor at a time, concluded once, and refined only if rejected.
THEOREM LifecycleImplemented == StoreSpec => ImplementsLifecycle
<1>1. StoreInit => Lifecycle!LifecycleInit
  BY DEF StoreInit, Lifecycle!LifecycleInit, Pristine, VerdictOf, OutcomeOf, Exists,
     Unsettled, Rejected
<1>2. StoreInv /\ [StoreNext]_storeVars => [Lifecycle!LifecycleNext]_Lifecycle!lifecycleVars
  <2>1. ASSUME UNCHANGED batch PROVE UNCHANGED Lifecycle!lifecycleVars
    BY <2>1 DEF Lifecycle!lifecycleVars, VerdictOf, OutcomeOf, Exists, Unsettled, Rejected
  <2>2. ASSUME RunStep \/ UNCHANGED storeVars PROVE UNCHANGED batch
    BY <2>2 DEF RunStep, LinkOutputRevision, SetTurn, storeVars
  <2> QED
    BY <2>1, <2>2, CheckHidden, CreateOpens, SettlementJudges, EffectsAct DEF StoreNext
<1> QED
  BY <1>1, <1>2, StoreSafe, PTL DEF StoreSpec, ImplementsLifecycle, Lifecycle!LifecycleSpec

-----------------------------------------------------------------------------
(* The coordinator. *)

\* What an executor or a confirmation does to the effects of a batch: every
\* effects operation but the release, which belongs to the startup.
OwnerStep(b) ==
    \E t \in Tokens :
        ClaimEffects(b, t) \/ MarkApplied(b, t) \/ RequestRefinement(b, t) \/ BindRefinement(b, t)

\* The steps of a check's execution are check operations of the store.
LEMMA CheckExecIsStoreStep ==
    ASSUME NEW b \in Batches, CheckExec(b)
    PROVE  CheckStep(b)
<1>1. ASSUME NEW k \in Kinds, EndCheck(b, k) PROVE CheckStep(b)
  BY <1>1 DEF EndCheck, CheckStep
<1>2. ASSUME NEW k \in Kinds, StartCheck(b, k) \/ FailCheck(b, k) PROVE CheckStep(b)
  BY <1>2 DEF CheckStep
<1>3. Vlm \in Kinds
  BY StoreAssumption
<1>4. CASE \E k \in Kinds \ {Vlm} : ExecStart(b, k) \/ ExecFinish(b, k)
  BY <1>1, <1>2, <1>4 DEF ExecStart, ExecFinish
<1>5. CASE VlmUnavailable(b) \/ VlmBind(b)
  BY <1>2, <1>3, <1>5 DEF VlmUnavailable, VlmBind
<1>6. CASE VlmFinish(b) \/ VlmRecover(b)
  BY <1>1, <1>3, <1>6 DEF VlmFinish, VlmRecover
<1> QED
  BY <1>4, <1>5, <1>6 DEF CheckExec

\* Joining leaves the rows alone; claiming and settling are the store's.
LEMMA TaskIsStoreStep ==
    ASSUME StoreTypeOK, NEW b \in Batches, TaskStep(b)
    PROVE  SettlementStep(b) \/ UNCHANGED storeVars
<1>1. CASE TaskJoin(b)
  BY <1>1 DEF TaskJoin
<1>2. CASE TaskClaim(b)
  BY <1>2 DEF TaskClaim, SettlementStep
<1>3. CASE TaskSettle(b)
  <2>1. PICK t : t = batch[b].claim
    OBVIOUS
  <2>2. PICK p : p = AllPassed(b)
    OBVIOUS
  <2>3. Settle(b, t, "failed", p) \/ Settle(b, t, "succeeded", p)
    BY <1>3, <2>1, <2>2 DEF TaskSettle, Settle, WriteBatch
  <2>4. t \in Stamps
    BY <2>1, <2>3 DEF Settle, StoreTypeOK, BatchRecord
  <2>5. p \in BOOLEAN
    BY <2>2 DEF AllPassed
  <2>6. Settle(b, t, "failed", p) => Settle(b, t, "failed", FALSE)
    BY DEF Settle, WriteBatch
  <2> QED
    BY <2>3, <2>4, <2>5, <2>6 DEF SettlementStep
<1> QED
  BY <1>1, <1>2, <1>3 DEF TaskStep

\* Acting under the claim that is on the row is an effects operation.
LEMMA OwnClaimIsStoreStep ==
    ASSUME StoreTypeOK, NEW b \in Batches,
           \/ MarkApplied(b, batch[b].effects)
           \/ RequestRefinement(b, batch[b].effects)
           \/ BindRefinement(b, batch[b].effects)
    PROVE  OwnerStep(b)
<1>1. PICK t : t = batch[b].effects
  OBVIOUS
<1>2. t \in Tokens
  BY <1>1 DEF StoreTypeOK, BatchRecord, MarkApplied, RequestRefinement, BindRefinement, OwnsEffects
<1>3. MarkApplied(b, t) \/ RequestRefinement(b, t) \/ BindRefinement(b, t)
  BY <1>1 DEF MarkApplied, RequestRefinement, BindRefinement, OwnsEffects
<1> QED
  BY <1>2, <1>3 DEF OwnerStep

\* The steps of an effects executor are effects operations of the store.
LEMMA EffIsStoreStep ==
    ASSUME StoreTypeOK, NEW b \in Batches, EffStep(b)
    PROVE  OwnerStep(b) \/ RunStep \/ UNCHANGED storeVars
<1>1. CASE EffClaim(b)
  BY <1>1 DEF EffClaim, OwnerStep
<1>2. CASE EffBind(b) \/ EffRequest(b) \/ EffMark(b)
  BY <1>2, OwnClaimIsStoreStep DEF EffBind, EffRequest, EffMark
<1>3. CASE EffPrepare(b)
  BY <1>3 DEF EffPrepare, RunStep
<1>4. CASE \/ EffLatest(b)   \/ EffStatus(b)  \/ EffFail(b)
           \/ EffIterate(b) \/ EffSave(b)     \/ EffComplete(b)
           \/ EffRefine(b)  \/ EffEnqueue(b)
  BY <1>4 DEF EffLatest, EffStatus, EffFail, EffIterate, EffSave, EffComplete, EffRefine, EffEnqueue
<1> QED
  BY <1>1, <1>2, <1>3, <1>4 DEF EffStep

\* Confirming a bound refinement is one too, under the claim as listed.
LEMMA ConfirmIsStoreStep ==
    ASSUME NEW b \in Batches, CallConfirmBound(b)
    PROVE  OwnerStep(b) \/ UNCHANGED storeVars
<1>1. PICK c \in Tokens \cup {None} : ConfirmBound(b, c)
  BY DEF CallConfirmBound
<1>2. c # None => c \in Tokens
  OBVIOUS
<1> QED
  BY <1>1, <1>2 DEF ConfirmBound, OwnerStep

\* Startup normalization resets checks and releases claims.
LEMMA NormalizeIsStoreStep ==
    ASSUME StoreTypeOK, NEW b \in Batches, CoordNormalize(b)
    PROVE  CheckStep(b) \/ SettlementStep(b) \/ EffectsStep(b)
<1>1. CASE \E k \in Kinds \ {Vlm} : ResetCheck(b, k)
  BY <1>1 DEF CheckStep
<1>2. CASE ReleaseSettlement(b, batch[b].claim)
  <2>1. PICK t : t = batch[b].claim
    OBVIOUS
  <2>2. ReleaseSettlement(b, t) /\ t \in Stamps
    BY <1>2, <2>1 DEF ReleaseSettlement, StoreTypeOK, BatchRecord
  <2> QED
    BY <2>2 DEF SettlementStep
<1>3. CASE ReleaseEffects(b)
  BY <1>3 DEF EffectsStep
<1> QED
  BY <1>1, <1>2, <1>3 DEF CoordNormalize, Normalize

\* What the rest of the program does to the run binds a turn, gives it a model,
\* adds a batch, or leaves the store alone.
LEMMA RunChangesIsStoreStep ==
    ASSUME RunChanges
    PROVE  RunStep \/ (\E b \in Batches : CreateBatch(b)) \/ UNCHANGED storeVars
BY DEF RunChanges, RunStep

\* Every step of the coordinator and of its environment is a step of the store.
LEMMA CoordIsStoreStep ==
    ASSUME StoreTypeOK, [CoordNext]_allCoordVars
    PROVE  [StoreNext]_storeVars
<1>0. \A b \in Batches : OwnerStep(b) => EffectsStep(b)
  BY DEF OwnerStep, EffectsStep
<1>1. CASE CoordStep
  BY <1>0, <1>1, CheckExecIsStoreStep, TaskIsStoreStep, EffIsStoreStep DEF CoordStep, StoreNext
<1>2. CASE \E b \in Batches : CallConfirmBound(b) \/ CoordNormalize(b)
  BY <1>0, <1>2, ConfirmIsStoreStep, NormalizeIsStoreStep DEF StoreNext
<1>3. CASE RunChanges
  BY <1>3, RunChangesIsStoreStep DEF StoreNext
<1>4. CASE CallEnqueueRun \/ CoordCrash \/ CoordBoot \/ CoordRecover
  BY <1>4 DEF CallEnqueueRun, CoordCrash, CoordBoot, CoordRecover
<1>5. CASE UNCHANGED allCoordVars
  BY <1>5 DEF allCoordVars
<1> QED
  BY <1>1, <1>2, <1>3, <1>4, <1>5 DEF CoordNext

\* The durable record stays well formed under the coordinator, its crashes and
\* its restarts.
THEOREM CoordStoreSafe == CoordSpec => []StoreInv
<1>1. CoordInit => StoreInv
  BY StoreInitInv DEF CoordInit
<1>2. StoreInv /\ [CoordNext]_allCoordVars => StoreInv'
  BY CoordIsStoreStep, StoreInvStep DEF StoreInv
<1> QED
  BY <1>1, <1>2, PTL DEF CoordSpec

\* Every behaviour of the coordinator, seen at the rows, is one of the store.
THEOREM CoordImplementsStore == CoordSpec => ImplementsStore
<1>1. CoordInit => StoreInit
  BY DEF CoordInit
<1>2. StoreInv /\ [CoordNext]_allCoordVars => [StoreNext]_storeVars
  BY CoordIsStoreStep DEF StoreInv
<1> QED
  BY <1>1, <1>2, CoordStoreSafe, PTL DEF CoordSpec, ImplementsStore, StoreSpec

-----------------------------------------------------------------------------
(* The coordinator's own invariants *)

\* The strengthening: only a running process has executors (so the startup
\* normalization releases nobody's claim), and a failed check never passed (so
\* an operational failure cannot be aggregated to a pass).
QuietUnlessUp == phase # "up" => \A b \in Batches : eff[b] = "idle"

FailedNotPassed ==
    \A b \in Batches, k \in Kinds : check[b][k].status = "failed" => ~check[b][k].passed

CoordInv ==
    /\ StoreInv
    /\ CoordTypeOK
    /\ QuietUnlessUp
    /\ ExecutorOwns
    /\ FailedNotPassed
    /\ VerdictMatchesChecks

Owned(b) == batch[b].effects # None \/ batch[b].applied

LEMMA CoordInitInv == ASSUME CoordInit PROVE CoordInv
<1>1. StoreInv
  BY StoreInitInv DEF CoordInit
<1>2. CoordTypeOK
  BY <1>1 DEF CoordInit, IdleVolatile, CoordTypeOK, StoreInv, RunRecord, RunStatus, ActiveStep,
     TaskPC, ExecPC, EffPC
<1>3. QuietUnlessUp /\ ExecutorOwns
  BY DEF CoordInit, IdleVolatile, QuietUnlessUp, ExecutorOwns
<1>4. FailedNotPassed /\ VerdictMatchesChecks
  BY DEF CoordInit, StoreInit, QueuedCheck, Pristine, FailedNotPassed, VerdictMatchesChecks, Settled
<1> QED
  BY <1>1, <1>2, <1>3, <1>4 DEF CoordInv

-----------------------------------------------------------------------------
(* Types. *)

\* Starting tasks and executors moves program counters only within their types.
LEMMA StartsTyped ==
    ASSUME CoordTypeOK, NEW S
    PROVE  /\ StartTasks(S) => /\ task' \in [Batches -> TaskPC]
                               /\ exec' \in [Batches -> [Kinds -> ExecPC]]
           /\ StartEffects(S) => eff' \in [Batches -> EffPC]
<1>1. \A b \in Batches, k \in Kinds : ExecEntry(b, k) \in ExecPC
  BY DEF CoordTypeOK, StoreTypeOK, CheckRecord, CheckStatus, ExecEntry, Terminal, ExecPC
<1>2. ASSUME StartTasks(S) PROVE task' \in [Batches -> TaskPC]
  BY <1>2 DEF StartTasks, CoordTypeOK, TaskPC
<1>3. ASSUME StartTasks(S) PROVE exec' \in [Batches -> [Kinds -> ExecPC]]
  BY <1>1, <1>3 DEF StartTasks, CoordTypeOK
<1>4. ASSUME StartEffects(S) PROVE eff' \in [Batches -> EffPC]
  BY <1>4 DEF StartEffects, CoordTypeOK, EffPC
<1> QED
  BY <1>2, <1>3, <1>4

LEMMA CheckExecTyped ==
    ASSUME CoordTypeOK, StoreTypeOK', phase' = phase, NEW b \in Batches, CheckExec(b)
    PROVE  CoordTypeOK'
<1>1. Vlm \in Kinds
  BY StoreAssumption
<1>2. ASSUME NEW k \in Kinds, NEW pc \in ExecPC, GoExec(b, k, pc)
      PROVE  exec' \in [Batches -> [Kinds -> ExecPC]]
  BY <1>2 DEF GoExec, CoordTypeOK
<1>3. /\ exec' \in [Batches -> [Kinds -> ExecPC]]
      /\ lease' \in Batches \cup {None}
      /\ task' = task
  BY <1>1, <1>2 DEF CheckExec, ExecStart, ExecFinish, VlmUnavailable, VlmBind, VlmFinish, VlmRecover,
     ExecPC, CoordTypeOK
<1>4. UNCHANGED <<run, cacheVars, iteration, eff, number, activeRef, spawned>>
  BY DEF CheckExec
<1> QED
  BY <1>3, <1>4 DEF CoordTypeOK, cacheVars

LEMMA TaskTyped ==
    ASSUME CoordTypeOK, StoreTypeOK', phase' = phase, NEW b \in Batches, TaskStep(b)
    PROVE  CoordTypeOK'
<1>1. task' \in [Batches -> TaskPC] /\ exec' = exec
  BY DEF TaskStep, TaskJoin, TaskClaim, TaskSettle, GoTask, TaskPC, CoordTypeOK
<1>2. eff' \in [Batches -> EffPC]
  BY StartsTyped DEF TaskStep, TaskJoin, TaskClaim, TaskSettle, CoordTypeOK
<1>3. UNCHANGED <<run, cacheVars, iteration, number, lease, activeRef, spawned>>
  BY DEF TaskStep
<1> QED
  BY <1>1, <1>2, <1>3 DEF CoordTypeOK, cacheVars

LEMMA EffTyped ==
    ASSUME CoordTypeOK, StoreTypeOK', phase' = phase, NEW b \in Batches, EffStep(b)
    PROVE  CoordTypeOK'
<1>1. ASSUME NEW pc \in EffPC, GoEff(b, pc)
      PROVE  eff' \in [Batches -> EffPC]
  BY <1>1 DEF GoEff, CoordTypeOK
<1>2. AfterIteration(b) \in EffPC
  BY DEF AfterIteration, EffPC
<1>3. eff' \in [Batches -> EffPC]
  <2>1. CASE EffIterate(b) \/ EffSave(b)
    BY <1>1, <1>2, <2>1 DEF EffIterate, EffSave, EffPC
  <2>2. CASE EffClaim(b) \/ EffLatest(b) \/ EffStatus(b) \/ EffFail(b) \/ EffComplete(b)
    BY <1>1, <2>2 DEF EffClaim, EffLatest, EffStatus, EffFail, EffComplete, EffPC
  <2>3. CASE EffRefine(b) \/ EffBind(b) \/ EffPrepare(b) \/ EffRequest(b) \/ EffEnqueue(b) \/ EffMark(b)
    BY <1>1, <2>3 DEF EffRefine, EffBind, EffPrepare, EffRequest, EffEnqueue, EffMark, EffPC
  <2> QED
    BY <2>1, <2>2, <2>3 DEF EffStep
<1>4. run' \in RunRecord
  <2>1. CASE run' = run
    BY <2>1 DEF CoordTypeOK
  <2>2. CASE SetRun("failed", "none") \/ SetRun("completed", "none")
    BY <2>2 DEF SetRun, CoordTypeOK, RunRecord, RunStatus, ActiveStep
  <2>3. CASE run' = [status |-> "running", step |-> "refining", reconciling |-> FALSE]
    BY <2>3 DEF RunRecord, RunStatus, ActiveStep
  <2> QED
    BY <2>1, <2>2, <2>3 DEF EffStep, EffClaim, EffLatest, EffStatus, EffFail, EffIterate, EffSave,
       EffComplete, EffRefine, EffBind, EffPrepare, EffRequest, EffEnqueue, EffMark
<1>5. iteration' \in [Batches -> Nat] /\ number' \in [Batches -> Nat]
  <2>1. CASE EffSave(b)
    BY <2>1 DEF EffSave, CoordTypeOK
  <2>2. CASE EffIterate(b)
    <3>1. Iterations \subseteq Nat
      BY DEF Iterations, CoordTypeOK
    <3>2. iteration' = iteration
      BY <2>2 DEF EffIterate
    <3>3. CASE number' = number
      BY <3>2, <3>3 DEF CoordTypeOK
    <3>4. CASE number' # number
      <4>1. PICK n \in Iterations : number' = [number EXCEPT ![b] = n + 1]
        BY <2>2, <3>4 DEF EffIterate
      <4>2. n + 1 \in Nat
        BY <3>1
      <4> QED
        BY <3>2, <4>1, <4>2 DEF CoordTypeOK
    <3> QED
      BY <3>3, <3>4
  <2>3. CASE ~EffSave(b) /\ ~EffIterate(b)
    BY <2>3 DEF EffStep, EffClaim, EffLatest, EffStatus, EffFail,
       EffComplete, EffRefine, EffBind, EffPrepare, EffRequest, EffEnqueue, EffMark, CoordTypeOK
  <2> QED
    BY <2>1, <2>2, <2>3
<1>6. activeRef' \in SUBSET Batches /\ spawned' \in Nat
  <2>1. CASE EffEnqueue(b)
    BY <2>1 DEF EffEnqueue, CoordTypeOK
  <2>2. CASE ~EffEnqueue(b)
    BY <2>2 DEF EffStep, EffClaim, EffLatest, EffStatus, EffFail, EffIterate, EffSave,
       EffComplete, EffRefine, EffBind, EffPrepare, EffRequest, EffMark, CoordTypeOK
  <2> QED
    BY <2>1, <2>2
<1>7. UNCHANGED <<taskVars, cacheVars>>
  BY DEF EffStep
<1> QED
  BY <1>3, <1>4, <1>5, <1>6, <1>7 DEF CoordTypeOK, taskVars, cacheVars

\* Every step keeps the coordinator's state well formed.
LEMMA CoordTypedStep ==
    ASSUME CoordTypeOK, StoreTypeOK', [CoordNext]_allCoordVars
    PROVE  CoordTypeOK'
<1>1. CASE CoordStep
  BY <1>1, CheckExecTyped, TaskTyped, EffTyped DEF CoordStep
<1>2. CASE CallEnqueueRun
  <2>1. /\ task' \in [Batches -> TaskPC]
        /\ exec' \in [Batches -> [Kinds -> ExecPC]]
        /\ eff' \in [Batches -> EffPC]
    <3>1. CASE cachedRev = None
      BY <1>2, <3>1 DEF CallEnqueueRun, EnqueueRun, CoordTypeOK
    <3>2. CASE cachedRev # None
      BY <1>2, <3>2, StartsTyped DEF CallEnqueueRun, EnqueueRun
    <3> QED
      BY <3>1, <3>2
  <2>2. UNCHANGED <<run, phase, cacheVars, iteration, number, lease, activeRef, spawned>>
    BY <1>2 DEF CallEnqueueRun
  <2> QED
    BY <2>1, <2>2 DEF CoordTypeOK, cacheVars
<1>3. ASSUME NEW b \in Batches, CallConfirmBound(b)
      PROVE  CoordTypeOK'
  <2>1. eff' \in [Batches -> EffPC] /\ activeRef' \in SUBSET Batches
    BY <1>3, StartsTyped DEF CallConfirmBound, ConfirmBound, CoordTypeOK
  <2>2. UNCHANGED <<run, phase, cacheVars, iteration, task, exec, number, lease, spawned>>
    BY <1>3 DEF CallConfirmBound
  <2> QED
    BY <2>1, <2>2 DEF CoordTypeOK, cacheVars
<1>4. CASE \E b \in Batches : CoordNormalize(b)
  BY <1>4 DEF CoordNormalize, CoordTypeOK, cacheVars, coordVars
<1>5. CASE RunChanges
  <2>1. /\ run' \in RunRecord
        /\ known' \in SUBSET Batches
        /\ cachedRev' \in Revs \cup {None}
        /\ spawned' \in Nat
    BY <1>5 DEF RunChanges, InstallCache, CoordTypeOK, cacheVars
  <2> QED
    BY <1>5, <2>1 DEF RunChanges, coordVars, CoordTypeOK
<1>6. CASE CoordCrash
  BY <1>6 DEF CoordCrash, DropVolatile, CoordTypeOK, TaskPC, ExecPC, EffPC, cacheVars
<1>7. CASE CoordBoot
  BY <1>7 DEF CoordBoot, LoadCache, CoordTypeOK, StoreTypeOK, coordVars
<1>8. CASE CoordRecover
  <2>1. eff' \in [Batches -> EffPC]
    BY <1>8, StartsTyped DEF CoordRecover, RecoverBatches
  <2>2. task' \in [Batches -> TaskPC]
    BY <1>8 DEF CoordRecover, RecoverBatches, TaskPC
  <2>3. exec' \in [Batches -> [Kinds -> ExecPC]]
    <3>1. \A b \in Batches, k \in Kinds : ExecEntry(b, k) \in ExecPC
      BY DEF CoordTypeOK, StoreTypeOK, CheckRecord, CheckStatus, ExecEntry, Terminal, ExecPC
    <3> QED
      BY <1>8, <3>1 DEF CoordRecover, RecoverBatches, ExecPC
  <2> QED
    BY <1>8, <2>1, <2>2, <2>3 DEF CoordRecover, CoordTypeOK, cacheVars
<1>9. CASE UNCHANGED allCoordVars
  BY <1>9 DEF allCoordVars, CoordTypeOK, cacheVars, coordVars
<1> QED
  BY <1>1, <1>2, <1>3, <1>4, <1>5, <1>6, <1>7, <1>8, <1>9 DEF CoordNext

-----------------------------------------------------------------------------
(* Ownership. *)

\* Nobody but the startup takes a batch away from its owner.
LEMMA OwnedKept ==
    ASSUME StoreInv, NEW b \in Batches, Owned(b),
           \/ \E o \in Batches : CreateBatch(o) \/ CheckStep(o) \/ SettlementStep(o) \/ OwnerStep(o)
           \/ RunStep
           \/ UNCHANGED storeVars
    PROVE  Owned(b)'
<1>0. Settled(b) /\ batch[b] \in BatchRecord /\ batch \in [Batches -> BatchRecord] /\ StoreTypeOK
  BY DEF Owned, StoreInv, EffectsFollowVerdict, StoreTypeOK
<1>1. CASE \E o \in Batches : CreateBatch(o)
  BY <1>0, <1>1, CreateFrame DEF Owned, Settled, Exists
<1>2. CASE \E o \in Batches : CheckStep(o)
  <2>1. PICK o \in Batches : CheckStep(o)
    BY <1>2
  <2>2. (\A x \in Batches : x # o => batch'[x] = batch[x]) /\ ~AllTerminal(o)
    BY <1>0, <2>1, CheckStepEffect DEF AllTerminal
  <2>3. o # b
    BY <1>0, <2>2 DEF StoreInv, EffectsFollowVerdict
  <2> QED
    BY <2>2, <2>3 DEF Owned
<1>3. CASE \E o \in Batches : SettlementStep(o)
  BY <1>0, <1>3, SettlementFrame DEF Owned, Settled, Unsettled
<1>4. CASE \E o \in Batches : OwnerStep(o)
  <2>1. PICK o \in Batches, t \in Tokens :
            ClaimEffects(o, t) \/ MarkApplied(o, t) \/ RequestRefinement(o, t) \/ BindRefinement(o, t)
    BY <1>4 DEF OwnerStep
  <2>2. CASE o # b
    BY <2>1, <2>2, EffectsFrame DEF EffectsStep, Owned
  <2>3. CASE o = b /\ ClaimEffects(b, t)
    BY <1>0, <2>3, StoreAssumption DEF ClaimEffects, WriteBatch, Owned, BatchRecord
  <2>4. CASE o = b /\ RequestRefinement(b, t)
    BY <1>0, <2>4 DEF RequestRefinement, WriteBatch, Owned, BatchRecord
  <2>5. CASE o = b /\ (MarkApplied(b, t) \/ BindRefinement(b, t))
    BY <1>0, <2>5 DEF MarkApplied, BindRefinement, WriteBatch, Owned, BatchRecord
  <2> QED
    BY <2>1, <2>2, <2>3, <2>4, <2>5
<1>5. CASE RunStep \/ UNCHANGED storeVars
  BY <1>5 DEF RunStep, LinkOutputRevision, SetTurn, Owned, storeVars
<1> QED
  BY <1>1, <1>2, <1>3, <1>4, <1>5

\* Starting executors leaves those at work alone and starts others at the claim.
LEMMA StartEffectsFrame ==
    ASSUME CoordTypeOK, NEW S, StartEffects(S)
    PROVE  \A b \in Batches : eff'[b] = eff[b] \/ eff'[b] = "claim"
BY DEF StartEffects, CoordTypeOK

LEMMA ExecutorOwnsStep ==
    ASSUME CoordInv, [CoordNext]_allCoordVars
    PROVE  ExecutorOwns'
<1> SUFFICES ASSUME NEW b \in Batches, eff'[b] \notin {"idle", "claim"}
             PROVE  Owned(b)'
  BY DEF ExecutorOwns, Owned
<1>0. /\ StoreInv /\ CoordTypeOK /\ StoreTypeOK
      /\ eff[b] \notin {"idle", "claim"} => Owned(b)
  BY DEF CoordInv, StoreInv, ExecutorOwns, Owned
<1>1. ASSUME phase = "up", phase' = phase, NEW o \in Batches, CheckExec(o)
      PROVE  Owned(b)'
  BY <1>0, <1>1, CheckExecIsStoreStep, OwnedKept DEF CheckExec
<1>2. ASSUME NEW o \in Batches, TaskStep(o)
      PROVE  Owned(b)'
  <2>1. eff' = eff \/ StartEffects({o})
    BY <1>2 DEF TaskStep, TaskJoin, TaskClaim, TaskSettle
  <2>2. eff'[b] = eff[b]
    BY <1>0, <2>1, StartEffectsFrame
  <2> QED
    BY <1>0, <1>2, <2>2, TaskIsStoreStep, OwnedKept
<1>3. ASSUME NEW o \in Batches, EffStep(o)
      PROVE  Owned(b)'
  <2>1. CASE eff'[b] = eff[b]
    BY <1>0, <1>3, <2>1, EffIsStoreStep, OwnedKept
  <2>2. CASE eff'[b] # eff[b] /\ eff[b] \notin {"idle", "claim"}
    BY <1>0, <1>3, <2>2, EffIsStoreStep, OwnedKept
  <2>3. CASE eff'[b] # eff[b] /\ eff[b] \in {"idle", "claim"}
    <3>1. ASSUME NEW pc, GoEff(o, pc) PROVE o = b
      BY <1>0, <2>3, <3>1 DEF GoEff, CoordTypeOK
    <3>2. \E pc : GoEff(o, pc)
      BY <1>3 DEF EffStep, EffClaim, EffLatest, EffStatus, EffFail, EffIterate, EffSave,
         EffComplete, EffRefine, EffBind, EffPrepare, EffRequest, EffEnqueue, EffMark
    <3>3. o = b
      BY <3>1, <3>2
    <3>4. EffClaim(b)
      BY <1>3, <2>3, <3>3 DEF EffStep, EffClaim, EffLatest, EffStatus, EffFail, EffIterate, EffSave,
         EffComplete, EffRefine, EffBind, EffPrepare, EffRequest, EffEnqueue, EffMark
    <3>5. GoEff(b, "idle") => eff'[b] = "idle"
      BY <1>0 DEF GoEff, CoordTypeOK
    <3>6. PICK t \in Tokens : ClaimEffects(b, t)
      BY <3>4, <3>5 DEF EffClaim
    <3>7. batch \in [Batches -> BatchRecord]
      BY <1>0 DEF StoreTypeOK
    <3> QED
      BY <3>6, <3>7, StoreAssumption DEF ClaimEffects, WriteBatch, Owned, BatchRecord
  <2> QED
    BY <2>1, <2>2, <2>3
<1>4. CASE CoordStep
  BY <1>1, <1>2, <1>3, <1>4 DEF CoordStep
<1>5. CASE CallEnqueueRun
  <2>1. eff' = eff \/ \E S : StartEffects(S)
    BY <1>5 DEF CallEnqueueRun, EnqueueRun
  <2>2. eff'[b] = eff[b]
    BY <1>0, <2>1, StartEffectsFrame
  <2> QED
    BY <1>0, <1>5, <2>2, OwnedKept DEF CallEnqueueRun
<1>6. ASSUME NEW o \in Batches, CallConfirmBound(o)
      PROVE  Owned(b)'
  <2>1. eff' = eff \/ StartEffects({o})
    BY <1>6 DEF CallConfirmBound, ConfirmBound
  <2>2. eff'[b] = eff[b]
    BY <1>0, <2>1, StartEffectsFrame
  <2> QED
    BY <1>0, <1>6, <2>2, ConfirmIsStoreStep, OwnedKept
<1>7. CASE \E o \in Batches : CoordNormalize(o)
  BY <1>7 DEF CoordNormalize, coordVars, CoordInv, QuietUnlessUp
<1>8. CASE RunChanges
  <2>1. eff' = eff
    BY <1>8 DEF RunChanges, coordVars
  <2> QED
    BY <1>0, <1>8, <2>1, RunChangesIsStoreStep, OwnedKept
<1>9. CASE CoordCrash
  BY <1>9 DEF CoordCrash, DropVolatile
<1>10. CASE CoordBoot
  BY <1>0, <1>10, OwnedKept DEF CoordBoot, coordVars
<1>11. CASE CoordRecover
  <2>1. \E S : StartEffects(S)
    BY <1>11 DEF CoordRecover, RecoverBatches
  <2>2. eff'[b] = eff[b]
    BY <1>0, <2>1, StartEffectsFrame
  <2> QED
    BY <1>0, <1>11, <2>2, OwnedKept DEF CoordRecover
<1>12. CASE UNCHANGED allCoordVars
  BY <1>0, <1>12, OwnedKept DEF allCoordVars, coordVars
<1> QED
  BY <1>4, <1>5, <1>6, <1>7, <1>8, <1>9, <1>10, <1>11, <1>12 DEF CoordNext

\* A process that is not up has no executor.
LEMMA QuietStep ==
    ASSUME CoordInv, [CoordNext]_allCoordVars
    PROVE  QuietUnlessUp'
<1>1. CASE CoordStep \/ CallEnqueueRun \/ \E b \in Batches : CallConfirmBound(b)
  BY <1>1 DEF CoordStep, CallEnqueueRun, CallConfirmBound, QuietUnlessUp
<1>2. CASE CoordCrash
  BY <1>2 DEF CoordCrash, DropVolatile, QuietUnlessUp
<1>3. CASE CoordRecover
  BY <1>3 DEF CoordRecover, QuietUnlessUp
<1>4. CASE RunChanges \/ CoordBoot \/ \E b \in Batches : CoordNormalize(b)
  BY <1>4 DEF RunChanges, CoordBoot, CoordNormalize, coordVars, QuietUnlessUp, CoordInv
<1>5. CASE UNCHANGED allCoordVars
  BY <1>5 DEF allCoordVars, coordVars, QuietUnlessUp, CoordInv
<1> QED
  BY <1>1, <1>2, <1>3, <1>4, <1>5 DEF CoordNext

-----------------------------------------------------------------------------
(* Verdicts. *)

\* No operation of the store records a failure as passed.
LEMMA FailedNotPassedStep ==
    ASSUME StoreTypeOK, FailedNotPassed, [StoreNext]_storeVars
    PROVE  FailedNotPassed'
<1>0. check \in [Batches -> [Kinds -> CheckRecord]]
  BY DEF StoreTypeOK
<1>1. ASSUME NEW b \in Batches, NEW k \in Kinds, NEW row \in CheckRecord,
             row.status = "failed" => ~row.passed, WriteCheck(b, k, row)
      PROVE  FailedNotPassed'
  BY <1>0, <1>1, WriteCheckRow, SMTT(30) DEF FailedNotPassed
<1>2. ASSUME NEW b \in Batches, CheckStep(b)
      PROVE  FailedNotPassed'
  <2>1. PICK k \in Kinds : \/ StartCheck(b, k)
                           \/ \E p \in BOOLEAN : CompleteCheck(b, k, p)
                           \/ FailCheck(b, k)
                           \/ ResetCheck(b, k)
    BY <1>2 DEF CheckStep
  <2>2. check[b][k] \in CheckRecord
    BY <1>0
  <2>3. CASE StartCheck(b, k)
    <3>1. [check[b][k] EXCEPT !.status = "running"] \in CheckRecord
      BY <2>2 DEF CheckRecord, CheckStatus
    <3> QED
      BY <1>1, <2>2, <2>3, <3>1 DEF StartCheck, CheckRecord
  <2>4. CASE ResetCheck(b, k)
    <3>1. [check[b][k] EXCEPT !.status = "queued"] \in CheckRecord
      BY <2>2 DEF CheckRecord, CheckStatus
    <3> QED
      BY <1>1, <2>2, <2>4, <3>1 DEF ResetCheck, CheckRecord
  <2>5. ASSUME NEW p \in BOOLEAN, CompleteCheck(b, k, p)
        PROVE  FailedNotPassed'
    <3>1. [status |-> "succeeded", passed |-> p] \in CheckRecord
      BY DEF CheckRecord, CheckStatus
    <3> QED
      BY <1>1, <2>5, <3>1 DEF CompleteCheck
  <2>6. CASE FailCheck(b, k)
    <3>1. [status |-> "failed", passed |-> FALSE] \in CheckRecord
      BY DEF CheckRecord, CheckStatus
    <3> QED
      BY <1>1, <2>6, <3>1 DEF FailCheck
  <2> QED
    BY <2>1, <2>3, <2>4, <2>5, <2>6
<1>3. ASSUME NEW b \in Batches, CreateBatch(b)
      PROVE  FailedNotPassed'
  BY <1>0, <1>3 DEF CreateBatch, QueuedCheck, FailedNotPassed
<1>4. CASE \E b \in Batches : SettlementStep(b) \/ EffectsStep(b)
  <2>1. check' = check
    BY <1>4 DEF SettlementStep, ClaimSettlement, Settle, ReleaseSettlement, EffectsStep, ClaimEffects,
       MarkApplied, RequestRefinement, BindRefinement, ReleaseEffects
  <2> QED
    BY <2>1 DEF FailedNotPassed
<1>5. CASE RunStep \/ UNCHANGED storeVars
  BY <1>5 DEF RunStep, LinkOutputRevision, SetTurn, storeVars, FailedNotPassed
<1> QED
  BY <1>2, <1>3, <1>4, <1>5 DEF StoreNext

\* A batch is settled by its own task and by nothing else.
LEMMA OnlyTaskSettles ==
    ASSUME CoordInv, [CoordNext]_allCoordVars, NEW b \in Batches, Settled(b)', ~Settled(b)
    PROVE  TaskSettle(b)
<1>0. StoreInv /\ StoreTypeOK /\ batch \in [Batches -> BatchRecord] /\ batch[b] \in BatchRecord
  BY DEF CoordInv, StoreInv, StoreTypeOK
<1>1. batch'[b].status # batch[b].status /\ batch'[b].status \notin {"queued", "running"}
  BY DEF Settled
<1>2. ~ UNCHANGED storeVars /\ ~RunStep
  BY <1>1 DEF storeVars, RunStep, LinkOutputRevision, SetTurn
<1>3. ASSUME NEW o \in Batches, CheckStep(o)
      PROVE  FALSE
  <2>1. /\ o # b => batch'[b] = batch[b]
        /\ \/ batch'[o] = batch[o]
           \/ batch'[o] = [batch[o] EXCEPT !.status = IF @ = "queued" THEN "running" ELSE @]
    BY <1>0, <1>3, CheckStepEffect
  <2> QED
    BY <1>0, <1>1, <2>1 DEF BatchRecord
<1>4. ASSUME NEW o \in Batches, CreateBatch(o)
      PROVE  FALSE
  <2>1. PICK n : WriteBatch(o, [Pristine EXCEPT !.status = "queued", !.rev = outRev, !.attempt = n])
    BY <1>0, <1>4, CreateBatchEffect
  <2> QED
    BY <1>0, <1>1, <2>1 DEF WriteBatch, Pristine
<1>5. ASSUME NEW o \in Batches, EffectsStep(o)
      PROVE  FALSE
  BY <1>0, <1>1, <1>5, EffectsFrame
<1>6. ASSUME NEW o \in Batches, NEW t, ClaimSettlement(o, t) \/ ReleaseSettlement(o, t)
      PROVE  FALSE
  BY <1>0, <1>1, <1>6 DEF ClaimSettlement, ReleaseSettlement, WriteBatch, BatchRecord
<1>7. ASSUME NEW o \in Batches, TaskStep(o)
      PROVE  TaskSettle(b)
  <2>1. TaskSettle(o)
    BY <1>2, <1>6, <1>7 DEF TaskStep, TaskJoin, TaskClaim
  <2>2. o = b
    BY <1>0, <1>1, <2>1 DEF TaskSettle, Settle, WriteBatch
  <2> QED
    BY <2>1, <2>2
<1>8. CASE CoordStep
  <2>1. PICK o \in Batches : CheckExec(o) \/ TaskStep(o) \/ EffStep(o)
    BY <1>8 DEF CoordStep
  <2>2. ~CheckExec(o)
    BY <1>3, CheckExecIsStoreStep
  <2>3. EffStep(o) => FALSE
    BY <1>0, <1>2, <1>5, EffIsStoreStep DEF OwnerStep, EffectsStep
  <2> QED
    BY <1>7, <2>1, <2>2, <2>3
<1>9. ~CallEnqueueRun /\ ~CoordCrash /\ ~CoordBoot /\ ~CoordRecover /\ ~UNCHANGED allCoordVars
  BY <1>2 DEF CallEnqueueRun, CoordCrash, CoordBoot, CoordRecover, allCoordVars
<1>10. ASSUME NEW o \in Batches, CallConfirmBound(o)
       PROVE  FALSE
  BY <1>2, <1>5, <1>10, ConfirmIsStoreStep DEF OwnerStep, EffectsStep
<1>11. ASSUME NEW o \in Batches, CoordNormalize(o)
       PROVE  FALSE
  <2>1. CASE \E k \in Kinds \ {Vlm} : ResetCheck(o, k)
    BY <1>3, <2>1 DEF CheckStep
  <2>2. CASE ReleaseSettlement(o, batch[o].claim)
    BY <1>6, <2>2
  <2>3. CASE ReleaseEffects(o)
    BY <1>5, <2>3 DEF EffectsStep
  <2> QED
    BY <1>11, <2>1, <2>2, <2>3 DEF CoordNormalize, Normalize
<1>12. ~RunChanges
  BY <1>2, <1>4, RunChangesIsStoreStep
<1> QED
  BY <1>8, <1>9, <1>10, <1>11, <1>12 DEF CoordNext

LEMMA VerdictStep ==
    ASSUME CoordInv, [CoordNext]_allCoordVars
    PROVE  VerdictMatchesChecks'
<1> SUFFICES ASSUME NEW b \in Batches, Settled(b)'
             PROVE  /\ (batch[b].status = "failed")' <=> SomeFailed(b)'
                    /\ (batch[b].passed)' <=> AllPassed(b)'
  BY DEF VerdictMatchesChecks
<1>0. StoreInv /\ StoreTypeOK /\ batch \in [Batches -> BatchRecord] /\ batch[b] \in BatchRecord
  BY DEF CoordInv, StoreInv, StoreTypeOK
<1>1. CASE Settled(b)
  <2>1. [StoreNext]_storeVars
    BY <1>0, CoordIsStoreStep
  <2>2. /\ batch'[b].status = batch[b].status
        /\ batch'[b].passed = batch[b].passed
        /\ check'[b] = check[b]
    BY <1>0, <1>1, <2>1, VerdictIsFinalStep DEF storeVars
  <2>3. /\ batch[b].status = "failed" <=> SomeFailed(b)
        /\ batch[b].passed <=> AllPassed(b)
    BY <1>1 DEF CoordInv, VerdictMatchesChecks
  <2>4. SomeFailed(b)' <=> SomeFailed(b)
    BY <2>2 DEF SomeFailed
  <2>5. AllPassed(b)' <=> AllPassed(b)
    BY <2>2 DEF AllPassed
  <2> QED
    BY <2>2, <2>3, <2>4, <2>5
<1>2. CASE ~Settled(b)
  <2>1. TaskSettle(b)
    BY <1>2, OnlyTaskSettles
  <2>2. check' = check
    BY <2>1 DEF TaskSettle, Settle
  <2>3. SomeFailed(b)' <=> SomeFailed(b)
    BY <2>2 DEF SomeFailed
  <2>4. AllPassed(b)' <=> AllPassed(b)
    BY <2>2 DEF AllPassed
  <2>5. CASE SomeFailed(b)
    <3>1. batch'[b].status = "failed" /\ batch'[b].passed = FALSE
      BY <1>0, <2>1, <2>5 DEF TaskSettle, Settle, WriteBatch, BatchRecord
    <3>2. ~AllPassed(b)
      BY <2>5 DEF SomeFailed, AllPassed, CoordInv, FailedNotPassed
    <3> QED
      BY <2>3, <2>4, <2>5, <3>1, <3>2
  <2>6. CASE ~SomeFailed(b)
    <3>1. batch'[b].status = "succeeded" /\ (batch'[b].passed <=> AllPassed(b))
      BY <1>0, <2>1, <2>6 DEF TaskSettle, Settle, WriteBatch, BatchRecord
    <3> QED
      BY <2>3, <2>4, <2>6, <3>1
  <2> QED
    BY <2>5, <2>6
<1> QED
  BY <1>1, <1>2

-----------------------------------------------------------------------------

LEMMA CoordInvStep ==
    ASSUME CoordInv, [CoordNext]_allCoordVars
    PROVE  CoordInv'
<1>1. StoreTypeOK /\ [StoreNext]_storeVars
  BY CoordIsStoreStep DEF CoordInv, StoreInv
<1>2. StoreInv'
  BY <1>1, StoreInvStep DEF CoordInv
<1>3. CoordTypeOK'
  BY <1>2, CoordTypedStep DEF CoordInv, StoreInv
<1>4. FailedNotPassed'
  BY <1>1, FailedNotPassedStep DEF CoordInv
<1> QED
  BY <1>2, <1>3, <1>4, QuietStep, ExecutorOwnsStep, VerdictStep DEF CoordInv

\* The coordinator's state is well formed in every environment.
THEOREM CoordTyped == CoordSpec => []CoordTypeOK
<1>1. CoordInv => CoordTypeOK
  BY DEF CoordInv
<1> QED
  BY <1>1, CoordInitInv, CoordInvStep, PTL DEF CoordSpec

\* Whatever crashes, restarts and calls do, an executor that is past its claim
\* still owns its batch, or the batch has been concluded.
THEOREM CoordExecutorOwns == CoordSpec => []ExecutorOwns
<1>1. CoordInv => ExecutorOwns
  BY DEF CoordInv
<1> QED
  BY <1>1, CoordInitInv, CoordInvStep, PTL DEF CoordSpec

\* Whoever settled it, and after however many restarts, a settled verdict is
\* the one its checks give.
THEOREM CoordVerdicts == CoordSpec => []VerdictMatchesChecks
<1>1. CoordInv => VerdictMatchesChecks
  BY DEF CoordInv
<1> QED
  BY <1>1, CoordInitInv, CoordInvStep, PTL DEF CoordSpec

=============================================================================
