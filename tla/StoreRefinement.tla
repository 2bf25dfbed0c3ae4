--------------------------- MODULE StoreRefinement ---------------------------
(***************************************************************************)
(* The refinement mapping from the durable rows to the promise they keep.  *)
(***************************************************************************)
EXTENDS ValidationStore

VerdictOf(b) ==
    CASE ~Exists(b)    -> "none"
      [] Unsettled(b)  -> "pending"
      [] Rejected(b)   -> "rejected"
      [] batch[b].status = "succeeded" /\ batch[b].passed -> "passed"
      [] OTHER         -> "broken"

OutcomeOf(b) ==
    IF ~batch[b].applied THEN "open"
    ELSE IF batch[b].bound THEN "refining" ELSE "closed"

Lifecycle == INSTANCE BatchLifecycle WITH
    verdict <- [b \in Batches |-> VerdictOf(b)],
    subject <- [b \in Batches |-> batch[b].rev],
    acting  <- {b \in Batches : batch[b].effects # None},
    outcome <- [b \in Batches |-> OutcomeOf(b)]

\* Every behaviour of the rows, under any clients and any crashes, is one of
\* the batch life cycle: judged once, acted upon once, by one actor at a time.
ImplementsLifecycle == Lifecycle!LifecycleSpec

=============================================================================
