--------------------------- MODULE BatchLifecycle ---------------------------
(***************************************************************************)
(* What validation promises of a batch, without claims, tokens, rows or    *)
(* checks: a batch is opened for a revision, judged once, and its verdict  *)
(* is acted upon once, by one actor at a time.  An actor may die; its      *)
(* successor starts over.  While somebody acts on a verdict no newer batch *)
(* is opened for the same revision.  ValidationStore implements this.      *)
(***************************************************************************)
CONSTANTS Batches, Revs, None

VARIABLES
    verdict,  \* Batches -> Verdict
    subject,  \* Batches -> the revision under judgement
    acting,   \* the batches whose verdict somebody is acting upon
    outcome   \* Batches -> Outcome

lifecycleVars == <<verdict, subject, acting, outcome>>

Verdict == {"none", "pending", "passed", "rejected", "broken"}
Judged  == {"passed", "rejected", "broken"}
Outcome == {"open", "closed", "refining"}

LifecycleTypeOK ==
    /\ verdict \in [Batches -> Verdict]
    /\ subject \in [Batches -> Revs \cup {None}]
    /\ acting \in SUBSET Batches
    /\ outcome \in [Batches -> Outcome]

LifecycleInit ==
    /\ verdict = [b \in Batches |-> "none"]
    /\ subject = [b \in Batches |-> None]
    /\ acting = {}
    /\ outcome = [b \in Batches |-> "open"]

Open(b, r) ==
    /\ verdict[b] = "none"
    /\ \A o \in acting : subject[o] # r
    /\ verdict' = [verdict EXCEPT ![b] = "pending"]
    /\ subject' = [subject EXCEPT ![b] = r]
    /\ UNCHANGED <<acting, outcome>>

Judge(b, v) ==
    /\ verdict[b] = "pending"
    /\ verdict' = [verdict EXCEPT ![b] = v]
    /\ UNCHANGED <<subject, acting, outcome>>

Act(b) ==
    /\ verdict[b] \in Judged
    /\ outcome[b] = "open"
    /\ b \notin acting
    /\ acting' = acting \cup {b}
    /\ UNCHANGED <<verdict, subject, outcome>>

Abandon(b) ==
    /\ b \in acting
    /\ acting' = acting \ {b}
    /\ UNCHANGED <<verdict, subject, outcome>>

\* "closed": the run was completed, failed, or had moved on.
\* "refining": a rejection was answered by a new modelling turn.
Conclude(b, o) ==
    /\ b \in acting
    /\ outcome[b] = "open"
    /\ o = "refining" => verdict[b] = "rejected"
    /\ outcome' = [outcome EXCEPT ![b] = o]
    /\ acting' = acting \ {b}
    /\ UNCHANGED <<verdict, subject>>

LifecycleNext ==
    \E b \in Batches :
        \/ \E r \in Revs : Open(b, r)
        \/ \E v \in Judged : Judge(b, v)
        \/ Act(b)
        \/ Abandon(b)
        \/ \E o \in {"closed", "refining"} : Conclude(b, o)

LifecycleSpec == LifecycleInit /\ [][LifecycleNext]_lifecycleVars

=============================================================================
