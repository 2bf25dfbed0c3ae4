------------------------- MODULE AgentThreadsProofs -------------------------
(***************************************************************************)
(* Proofs about the threads of a session: a plane has one active thread,   *)
(* a thread is activated only where it is loaded, and a run with a turn    *)
(* keeps its thread.  The argument: whoever holds the lease of a plane and *)
(* has its thread has the plane's active one, since nobody else retires    *)
(* threads of that plane; and the generations in the rows, in the          *)
(* manager's memory and with the leases are never ahead of the             *)
(* connection's, so that a new connection finds nothing that claims to be  *)
(* loaded in it.                                                           *)
(***************************************************************************)
EXTENDS AgentThreads, FiniteSetTheorems, TLAPS

\* At most one active thread, without counting.
OnlyOne == \A p \in Planes : \A t, u \in Active(p) : t = u

\* What is remembered as loaded in the connection that lives is loaded in it.
MemoryIsTrue ==
    /\ \A e \in loaded : e[1] <= conn.gen
    /\ \A e \in loaded : conn.live /\ e[1] = conn.gen => e[2] \in conn.loaded
    /\ \A p \in Planes : op[p].gen <= conn.gen
    /\ \A p \in Planes :
          op[p].pc \in {"activated", "installing"} /\ conn.live /\ conn.gen = op[p].gen
             => op[p].thread \in conn.loaded

HasThread == {"activated", "asked", "promoted", "turn"}

\* Who holds a lease, and what he has in hand.
LeaseHoldsActive ==
    /\ op["modeling"].pc # "idle" => op["modeling"].who \in Runs \cup {User}
    /\ op["validation"].pc # "idle" => op["validation"].who \in Checks
    /\ \A r \in Runs : Holds("modeling", r) => run[r].st = "running"
    /\ op["validation"].pc \notin {"replacing", "installing"}
    /\ \A p \in Planes : op[p].pc \in HasThread => op[p].thread \in Active(p)
    /\ op["modeling"].pc = "installing" =>
          op["modeling"].thread \in Threads /\ row[op["modeling"].thread].st = "absent"

\* A run has no turn before it has run.
TurnOfRunning == \A r \in Runs : run[r].st \in {"none", "queued"} => ~run[r].turn

ThreadsIInv ==
    /\ ThreadsTypeOK
    /\ OnlyOne
    /\ MemoryIsTrue
    /\ LeaseHoldsActive
    /\ TurnOfRunning
    /\ BoundOnActiveThread

-----------------------------------------------------------------------------
(* Every variable keeps its type. *)

\* The row of a new thread belongs to who holds the lease.
LEMMA NewRowTyped ==
    ASSUME ThreadsTypeOK, LeaseHoldsActive, NEW p \in Planes, op[p].pc # "idle"
    PROVE  \A st \in {"ready", "active"} : NewRow(p, st) \in Row
<1>1. op[p] \in Op
  BY DEF ThreadsTypeOK
<1>2. op[p].gen \in Gens
  BY <1>1 DEF Op
<1>3. p = "modeling" \/ op[p].who \in Checks
  BY DEF LeaseHoldsActive, Planes
<1> QED
  BY <1>2, <1>3 DEF NewRow, Row

\* What a plane has, and what a new or resumed thread leaves in the manager's memory.
LEMMA Elements ==
    ASSUME ThreadsTypeOK
    PROVE  /\ \A p \in Planes : op[p] \in Op /\ op[p].gen \in Gens
           /\ \A t \in Threads : row[t] \in Row
           /\ \A p \in Planes, t \in Threads : MarkLoaded(op[p].gen, t) \subseteq Gens \X Threads
           /\ "modeling" \in Planes /\ "validation" \in Planes
           /\ 0 \in Gens /\ NoOp \in Op
<1>1. \A p \in Planes : op[p] \in Op /\ op[p].gen \in Gens
  BY DEF ThreadsTypeOK, Op
<1>2. 0 \in Gens
  BY ThreadsAssumption DEF Gens
<1>3. NoOp \in Op
  BY <1>2 DEF NoOp, Op
<1> QED
  BY <1>1, <1>2, <1>3 DEF ThreadsTypeOK, MarkLoaded, Planes, Gens

\* Every step leaves every variable with a value of its type.
LEMMA TypeStep ==
    ASSUME ThreadsTypeOK, LeaseHoldsActive, ThreadsNext
    PROVE  ThreadsTypeOK'
<1> DEFINE m == "modeling"
           v == "validation"
<1>0. /\ \A p \in Planes : op[p] \in Op /\ op[p].gen \in Gens
      /\ \A t \in Threads : row[t] \in Row
      /\ \A p \in Planes, t \in Threads : MarkLoaded(op[p].gen, t) \subseteq Gens \X Threads
      /\ m \in Planes /\ v \in Planes
      /\ NoOp \in Op
  BY Elements
<1> HIDE DEF m, v
<1>1. ASSUME NEW r \in Runs, CreateRun(r) \/ EndRun(r) \/ PrepareRefinement(r)
      PROVE  ThreadsTypeOK'
  <2>1. run' \in [Runs -> RunState]
    <3>1. /\ [run[r] EXCEPT !.st = "queued"] \in RunState
          /\ [run[r] EXCEPT !.st = "ended"] \in RunState
          /\ [run[r] EXCEPT !.turn = FALSE] \in RunState
      BY DEF ThreadsTypeOK, RunState
    <3> QED
      BY <1>1, <3>1 DEF CreateRun, EndRun, PrepareRefinement, ThreadsTypeOK
  <2> QED
    BY <1>1, <2>1 DEF CreateRun, EndRun, PrepareRefinement, ThreadsTypeOK
<1>2. ASSUME NEW r \in Runs, OpenTurn(r)
      PROVE  ThreadsTypeOK'
  <2>1. run' \in [Runs -> RunState]
    BY <1>2 DEF OpenTurn, ThreadsTypeOK, RunState
  <2>2. [NoOp EXCEPT !.pc = "opened", !.who = r] \in Op
    BY <1>0 DEF Op
  <2>3. op' \in [Planes -> Op]
    BY <1>2, <2>2 DEF OpenTurn, ThreadsTypeOK
  <2> QED
    BY <1>2, <2>1, <2>3 DEF OpenTurn, ThreadsTypeOK
<1>3. ASSUME NEW k \in Checks, OpenCheck(k)
      PROVE  ThreadsTypeOK'
  <2>2. [NoOp EXCEPT !.pc = "opened", !.who = k] \in Op
    BY <1>0 DEF Op
  <2>3. op' \in [Planes -> Op]
    BY <1>3, <2>2 DEF OpenCheck, ThreadsTypeOK
  <2> QED
    BY <1>3, <2>3 DEF OpenCheck, ThreadsTypeOK
<1>4. ASSUME NEW k \in Checks, EndCheck(k) \/ RecoverFailed(k)
      PROVE  ThreadsTypeOK'
  BY <1>4 DEF EndCheck, RecoverFailed, ThreadsTypeOK
<1>5. ASSUME NEW k \in Checks, RecoverCheck(k)
      PROVE  ThreadsTypeOK'
  <2>1. PICK t \in Threads : row' = [row EXCEPT ![t].st = "archived", ![t].archived = TRUE]
    BY <1>5 DEF RecoverCheck, Active
  <2>2. [row[t] EXCEPT !.st = "archived", !.archived = TRUE] \in Row
    BY <1>0 DEF Row
  <2>3. row' \in [Threads -> Row]
    BY <2>1, <2>2 DEF ThreadsTypeOK
  <2> QED
    BY <1>5, <2>3 DEF RecoverCheck, ThreadsTypeOK
<1>6. CASE OpenConversation
  <2>2. [NoOp EXCEPT !.pc = "opened", !.who = User] \in Op
    BY <1>0 DEF Op
  <2>3. op' \in [Planes -> Op]
    BY <1>6, <2>2 DEF OpenConversation, ThreadsTypeOK
  <2> QED
    BY <1>6, <2>3 DEF OpenConversation, ThreadsTypeOK
<1>7. CASE StartConversationThread
  <2>1. PICK t \in Threads : ExternalStart(t) /\ op' = [op EXCEPT ![m].pc = "installing", ![m].thread = t]
    BY <1>7 DEF StartConversationThread, m
  <2>2. [op[m] EXCEPT !.pc = "installing", !.thread = t] \in Op
    BY <1>0 DEF Op
  <2>3. op' \in [Planes -> Op]
    BY <1>0, <2>1, <2>2 DEF ThreadsTypeOK
  <2>4. conn' \in Connection /\ rollouts' \subseteq Threads
    BY <2>1 DEF ExternalStart, ThreadsTypeOK, Connection
  <2> QED
    BY <1>7, <2>3, <2>4 DEF StartConversationThread, ThreadsTypeOK
<1>8. CASE InstallConversation
  <2> DEFINE new == op[m].thread
  <2>0. new \in Threads /\ \A st \in {"ready", "active"} : NewRow(m, st) \in Row
    BY <1>8, <1>0, NewRowTyped DEF InstallConversation, LeaseHoldsActive, m
  <2>1. row' \in [Threads -> Row] /\ loaded' \subseteq Gens \X Threads
    <3>1. ASSUME NEW old \in Threads, Replace(old, new, None)
          PROVE  row' \in [Threads -> Row] /\ loaded' \subseteq Gens \X Threads
      <4>1. [row[old] EXCEPT !.st = "replaced", !.archived = TRUE] \in Row
        BY <1>0 DEF Row
      <4> QED
        BY <1>0, <2>0, <3>1, <4>1 DEF Replace, ThreadsTypeOK, m
    <3>2. ASSUME Install(m, new, "ready")
          PROVE  row' \in [Threads -> Row] /\ loaded' \subseteq Gens \X Threads
      BY <1>0, <2>0, <3>2 DEF Install, ThreadsTypeOK
    <3> QED
      BY <1>8, <3>1, <3>2 DEF InstallConversation, m
  <2>2. op' \in [Planes -> Op]
    BY <1>8, <1>0 DEF InstallConversation, ThreadsTypeOK
  <2> QED
    BY <1>8, <2>1, <2>2 DEF InstallConversation, ThreadsTypeOK
<1>9. CASE ReuseThread \/ ResumeMissing
  <2>1. PICK t \in Threads, pc \in {"activated", "replacing"} :
           op' = [op EXCEPT ![m].pc = pc, ![m].thread = t]
    BY <1>9 DEF ReuseThread, ResumeMissing, Active, m
  <2>2. [op[m] EXCEPT !.pc = pc, !.thread = t] \in Op
    BY <1>0 DEF Op
  <2>3. op' \in [Planes -> Op]
    BY <1>0, <2>1, <2>2 DEF ThreadsTypeOK
  <2> QED
    BY <1>9, <2>3 DEF ReuseThread, ResumeMissing, ThreadsTypeOK
<1>10. CASE ResumeThread
  <2>1. PICK t \in Threads :
           /\ conn' = [conn EXCEPT !.loaded = @ \cup {t}]
           /\ row' = [row EXCEPT ![t].st = "ready", ![t].gen = op[m].gen]
           /\ loaded' = MarkLoaded(op[m].gen, t)
           /\ op' = [op EXCEPT ![m].pc = "activated", ![m].thread = t]
    BY <1>10 DEF ResumeThread, Active, m
  <2>2. [op[m] EXCEPT !.pc = "activated", !.thread = t] \in Op
    BY <1>0 DEF Op
  <2>3. [row[t] EXCEPT !.st = "ready", !.gen = op[m].gen] \in Row
    BY <1>0 DEF Row
  <2>4. op' \in [Planes -> Op] /\ row' \in [Threads -> Row]
    BY <1>0, <2>1, <2>2, <2>3 DEF ThreadsTypeOK
  <2>5. conn' \in Connection
    BY <2>1 DEF ThreadsTypeOK, Connection
  <2> QED
    BY <1>0, <1>10, <2>1, <2>4, <2>5 DEF ResumeThread, ThreadsTypeOK
<1>11. CASE ReplaceThread
  <2> DEFINE old == op[m].thread
  <2>1. PICK t \in Threads :
           /\ ExternalStart(t)
           /\ Replace(old, t, op[m].who)
           /\ op' = [op EXCEPT ![m].pc = "activated", ![m].thread = t]
    BY <1>11 DEF ReplaceThread, m
  <2>2. [op[m] EXCEPT !.pc = "activated", !.thread = t] \in Op
    BY <1>0 DEF Op
  <2>3. NewRow(m, "ready") \in Row
    BY <1>11, <1>0, NewRowTyped DEF ReplaceThread, m
  <2>4. old \in Threads /\ [row[old] EXCEPT !.st = "replaced", !.archived = TRUE] \in Row
    <3>1. old \in Threads
      BY <2>1 DEF Replace, Active
    <3>2. \A x \in Row : [x EXCEPT !.st = "replaced", !.archived = TRUE] \in Row
      BY DEF Row
    <3> QED
      BY <3>1, <3>2, <1>0
  <2>5. op' \in [Planes -> Op]
    BY <1>0, <2>1, <2>2 DEF ThreadsTypeOK
  <2>6. row' \in [Threads -> Row] /\ loaded' \subseteq Gens \X Threads
    BY <1>0, <2>1, <2>3, <2>4 DEF Replace, ThreadsTypeOK, m
  <2>7. conn' \in Connection /\ rollouts' \subseteq Threads
    BY <2>1 DEF ExternalStart, ThreadsTypeOK, Connection
  <2> QED
    BY <1>11, <2>5, <2>6, <2>7 DEF ReplaceThread, ThreadsTypeOK
<1>12. ASSUME NEW p \in Planes, Connect(p)
       PROVE  ThreadsTypeOK'
  <2>1. conn' \in Connection /\ conn'.gen \in Gens
    <3>1. /\ conn \in Connection /\ conn.gen \in Gens
          /\ conn.gen < MaxGens => conn.gen + 1 \in Gens
      BY ThreadsAssumption DEF ThreadsTypeOK, Connection, Gens
    <3>2. CASE conn' = conn
      BY <3>1, <3>2
    <3>3. CASE conn' = [gen |-> conn.gen + 1, live |-> TRUE, losing |-> FALSE, loaded |-> {}]
               /\ conn.gen < MaxGens
      BY <3>1, <3>3 DEF Connection
    <3> QED
      BY <1>12, <3>2, <3>3 DEF Connect
  <2>2. [op[p] EXCEPT !.pc = "connected", !.gen = conn'.gen] \in Op
    BY <1>0, <2>1 DEF Op
  <2>3. op' \in [Planes -> Op]
    BY <1>12, <2>2 DEF Connect, ThreadsTypeOK
  <2> QED
    BY <1>12, <2>1, <2>3 DEF Connect, ThreadsTypeOK
<1>13. ASSUME NEW p \in Planes, StartThread(p)
       PROVE  ThreadsTypeOK'
  <2>1. PICK t \in Threads, st \in {"ready", "active"} :
           /\ ExternalStart(t)
           /\ row' = [row EXCEPT ![t] = NewRow(p, st)]
           /\ loaded' = MarkLoaded(op[p].gen, t)
           /\ op' = [op EXCEPT ![p].pc = "activated", ![p].thread = t]
    BY <1>13 DEF StartThread, Install
  <2>2. [op[p] EXCEPT !.pc = "activated", !.thread = t] \in Op
    BY <1>0 DEF Op
  <2>3. NewRow(p, st) \in Row
    BY <1>13, NewRowTyped DEF StartThread
  <2>4. op' \in [Planes -> Op] /\ row' \in [Threads -> Row] /\ loaded' \subseteq Gens \X Threads
    BY <1>0, <2>1, <2>2, <2>3 DEF ThreadsTypeOK
  <2>5. conn' \in Connection /\ rollouts' \subseteq Threads
    BY <2>1 DEF ExternalStart, ThreadsTypeOK, Connection
  <2> QED
    BY <1>13, <2>4, <2>5 DEF StartThread, ThreadsTypeOK
<1>14. ASSUME NEW p \in Planes, AskTurn(p) \/ TurnStarted(p) \/ FinishTurn(p) \/ GiveUp(p)
       PROVE  ThreadsTypeOK'
  <2> DEFINE t == op[p].thread
  <2>1. op' \in [Planes -> Op]
    <3>1. \A pc \in {"asked", "promoted"} : [op[p] EXCEPT !.pc = pc] \in Op
      BY <1>0 DEF Op
    <3> QED
      BY <1>0, <1>14, <3>1 DEF AskTurn, TurnStarted, FinishTurn, GiveUp, ThreadsTypeOK
  <2>2. row' \in [Threads -> Row]
    <3>1. CASE AskTurn(p) \/ FinishTurn(p)
      <4>1. t \in Threads
        BY <3>1 DEF LeaseHoldsActive, AskTurn, FinishTurn, HasThread, Active
      <4>2. [row[t] EXCEPT !.st = "active"] \in Row
        BY <4>1, <1>0 DEF Row
      <4>3. [row[t] EXCEPT !.st = "ready"] \in Row
        BY <4>1, <1>0 DEF Row
      <4>4. [row[t] EXCEPT !.st = "archived", !.archived = TRUE] \in Row
        BY <4>1, <1>0 DEF Row
      <4> QED
        BY <3>1, <1>0, <4>1, <4>2, <4>3, <4>4 DEF AskTurn, FinishTurn, ThreadsTypeOK
    <3> QED
      BY <3>1, <1>14 DEF TurnStarted, GiveUp, ThreadsTypeOK
  <2>3. pending' \subseteq Planes
    BY <1>14 DEF AskTurn, TurnStarted, FinishTurn, GiveUp, ThreadsTypeOK
  <2> QED
    BY <1>14, <2>1, <2>2, <2>3 DEF AskTurn, TurnStarted, FinishTurn, GiveUp, ThreadsTypeOK
<1>15. ASSUME NEW p \in Planes, BindTurn(p)
       PROVE  ThreadsTypeOK'
  <2>1. op' \in [Planes -> Op]
    <3>1. [op[p] EXCEPT !.pc = "turn"] \in Op
      BY <1>0 DEF Op
    <3> QED
      BY <1>15, <3>1 DEF BindTurn, ThreadsTypeOK
  <2>2. op[p].thread \in Threads
    BY <1>15 DEF BindTurn, LeaseHoldsActive, HasThread, Active
  <2>3. run' \in [Runs -> RunState] /\ check' \in [Checks -> {"queued", "running", "ended"}]
    BY <1>15, <2>2 DEF BindTurn, ThreadsTypeOK, RunState
  <2> QED
    BY <1>15, <2>1, <2>3 DEF BindTurn, ThreadsTypeOK
<1>16. ASSUME NEW p \in Planes, AskFailed(p) \/ BindFailed(p)
       PROVE  ThreadsTypeOK'
  <2> DEFINE t == op[p].thread
  <2>1. op' \in [Planes -> Op]
    BY <1>0, <1>16 DEF AskFailed, BindFailed, ThreadsTypeOK
  <2>2. row' \in [Threads -> Row]
    <3>1. t \in Threads
      BY <1>16 DEF LeaseHoldsActive, AskFailed, BindFailed, HasThread, Active
    <3>2. \A st \in {"ready", "failed"}, b \in BOOLEAN :
             [row[t] EXCEPT !.st = st, !.archived = b] \in Row
      BY <3>1, <1>0 DEF Row
    <3>3. CASE UNCHANGED row
      BY <3>3 DEF ThreadsTypeOK
    <3>4. CASE Cleaned(p)
      <4>1. PICK st \in {"ready", "failed"}, b \in BOOLEAN :
               row' = [row EXCEPT ![t].st = st, ![t].archived = b]
        BY <3>4 DEF Cleaned
      <4> QED
        BY <3>1, <3>2, <4>1 DEF ThreadsTypeOK
    <3> QED
      BY <1>16, <3>3, <3>4 DEF AskFailed, BindFailed
  <2>3. pending' \subseteq Planes
    BY <1>16 DEF AskFailed, BindFailed, ThreadsTypeOK
  <2> QED
    BY <1>16, <2>1, <2>2, <2>3 DEF AskFailed, BindFailed, ThreadsTypeOK
<1>17. CASE LoseConnection \/ FailRoutes
  <2>1. conn' \in Connection
    BY <1>17 DEF LoseConnection, FailRoutes, ThreadsTypeOK, Connection
  <2> QED
    BY <1>17, <2>1 DEF LoseConnection, FailRoutes, ThreadsTypeOK
<1>18. CASE Restart
  <2>1. row' \in [Threads -> Row]
    <3>1. \A t \in Threads : [row[t] EXCEPT !.st = "notloaded", !.gen = 0] \in Row
      BY <1>0, Elements DEF Row
    <3> QED
      BY <1>18, <1>0, <3>1 DEF Restart
  <2>2. op' \in [Planes -> Op]
    BY <1>18, <1>0 DEF Restart
  <2>3. run' \in [Runs -> RunState]
    <3>1. \A r \in Runs : run[r] \in RunState /\ [run[r] EXCEPT !.st = "ended"] \in RunState
      BY DEF ThreadsTypeOK, RunState
    <3> QED
      BY <1>18, <3>1 DEF Restart
  <2>4. conn' \in Connection
    BY <1>18 DEF Restart, ThreadsTypeOK, Connection
  <2>5. crashes' \in 0..MaxCrashes
    <3>1. crashes \in 0..MaxCrashes /\ MaxCrashes \in Nat
      BY ThreadsAssumption DEF ThreadsTypeOK
    <3>2. crashes < MaxCrashes /\ crashes' = crashes + 1
      BY <1>18 DEF Restart
    <3> QED
      BY <3>1, <3>2
  <2> QED
    BY <1>18, <2>1, <2>2, <2>3, <2>4, <2>5 DEF Restart, ThreadsTypeOK
<1>19. ASSUME NEW t \in Threads, LoseRollout(t)
       PROVE  ThreadsTypeOK'
  BY <1>19 DEF LoseRollout, ThreadsTypeOK
<1> QED
  BY <1>1, <1>2, <1>3, <1>4, <1>5, <1>6, <1>7, <1>8, <1>9, <1>10, <1>11, <1>12, <1>13, <1>14, <1>15,
     <1>16, <1>17, <1>18, <1>19 DEF ThreadsNext, OpStep, ConversationStep, ActivationStep

-----------------------------------------------------------------------------
(* What a step does to the active threads of a plane. *)

\* A new row of a plane is active in it.
LEMMA NewActive ==
    ASSUME ThreadsTypeOK, NEW p \in Planes, NEW t \in Threads, NEW st \in {"ready", "active"},
           row[t].st = "absent", row' = [row EXCEPT ![t] = NewRow(p, st)]
    PROVE  /\ Active(p)' = Active(p) \cup {t}
           /\ \A q \in Planes \ {p} : Active(q)' = Active(q)
BY DEF ThreadsTypeOK, Active, NewRow

\* A replaced thread makes room for its successor.
LEMMA ReplacedActive ==
    ASSUME ThreadsTypeOK, OnlyOne, NEW old, NEW t \in Threads, NEW w, row[t].st = "absent",
           Replace(old, t, w)
    PROVE  /\ Active("modeling")' = {t}
           /\ Active("validation")' = Active("validation")
           /\ \A r \in ActiveRuns : ~run[r].turn
<1>1. /\ old \in Active("modeling") /\ MayReplace(w)
      /\ row' = [row EXCEPT ![old].st = "replaced", ![old].archived = TRUE,
                            ![t] = NewRow("modeling", "ready")]
  BY DEF Replace
<1>2. /\ old \in Threads /\ old # t /\ row[old].plane = "modeling"
      /\ \A u \in Active("modeling") : u = old
  BY <1>1 DEF Active, OnlyOne, Planes
<1>3. /\ row'[old].archived /\ row'[old].plane = "modeling"
      /\ row'[t].st = "ready" /\ row'[t].plane = "modeling" /\ ~row'[t].archived
      /\ \A u \in Threads \ {old, t} : row'[u] = row[u]
  <2>1. row[old] \in Row
    BY <1>2 DEF ThreadsTypeOK
  <2> QED
    BY <1>1, <1>2, <2>1 DEF NewRow, ThreadsTypeOK, Row
<1>4. Active("modeling")' = {t}
  BY <1>2, <1>3 DEF Active
<1>5. Active("validation")' = Active("validation")
  BY <1>2, <1>3 DEF Active
<1> QED
  BY <1>1, <1>4, <1>5 DEF MayReplace

\* An operation that cleans up after an error leaves a modelling thread active and
\* retires a validation thread.
LEMMA CleanedActive ==
    ASSUME ThreadsTypeOK, NEW p \in Planes, op[p].thread \in Active(p), Cleaned(p)
    PROVE  /\ Active("modeling")' = Active("modeling")
           /\ p = "modeling" => Active("validation")' = Active("validation")
           /\ Active("validation")' \subseteq Active("validation")
<1> DEFINE t == op[p].thread
<1>1. t \in Threads /\ row[t] \in Row /\ row[t].plane = p
  BY DEF ThreadsTypeOK, Active
<1>2. PICK st \in {"ready", "failed"} :
         row' = [row EXCEPT ![t].st = st, ![t].archived = (p = "validation")]
  BY DEF Cleaned
<1>3. CASE p = "modeling"
  BY <1>1, <1>2, <1>3 DEF Active, ThreadsTypeOK, Row
<1>4. CASE p = "validation"
  BY <1>1, <1>2, <1>4 DEF Active, ThreadsTypeOK, Row
<1> QED
  BY <1>3, <1>4 DEF Planes

LeavesActive == \A q \in Planes : Active(q)' = Active(q)

\* The thread of an operation is the only active one of its plane from now on.
MakesActive(p, t) ==
    /\ Active(p)' = {t}
    /\ \A q \in Planes \ {p} : Active(q)' = Active(q) /\ op'[q] = op[q]
    /\ op'[p].pc = "idle" \/ op'[p].thread = t
    /\ p = "modeling" => \A r \in ActiveRuns : ~run[r].turn
    /\ run' = run

RetiresEvaluator ==
    /\ Active("modeling")' = Active("modeling")
    /\ Active("validation")' \subseteq Active("validation")
    /\ op'["validation"].pc = "idle"

\* A step leaves the active threads, or makes one the only one of its plane, or
\* retires an evaluator's.
LEMMA ActiveStep ==
    ASSUME ThreadsIInv, ThreadsNext
    PROVE  \/ LeavesActive
           \/ \E p \in Planes, t \in Threads : MakesActive(p, t)
           \/ RetiresEvaluator
<1>0. /\ ThreadsTypeOK /\ OnlyOne /\ LeaseHoldsActive
      /\ \A p \in Planes : op[p] \in Op
      /\ \A t \in Threads : row[t] \in Row
      /\ "modeling" \in Planes /\ "validation" \in Planes
  BY Elements DEF ThreadsIInv
<1>1. CASE UNCHANGED row
  BY <1>1 DEF LeavesActive, Active
<1>2. ASSUME NEW k \in Checks, RecoverCheck(k)
      PROVE  RetiresEvaluator
  <2>1. PICK t \in Active("validation") : row' = [row EXCEPT ![t].st = "archived", ![t].archived = TRUE]
    BY <1>2 DEF RecoverCheck
  <2>2. t \in Threads /\ row[t] \in Row /\ row[t].plane = "validation"
    BY <1>0 DEF Active
  <2>3. Active("modeling")' = Active("modeling") /\ Active("validation")' \subseteq Active("validation")
    BY <1>0, <2>1, <2>2 DEF Active, ThreadsTypeOK, Row
  <2> QED
    BY <1>2, <2>3 DEF RecoverCheck, RetiresEvaluator
<1>3. CASE InstallConversation
  <2> DEFINE t == op["modeling"].thread
  <2>1. t \in Threads /\ row[t].st = "absent"
    BY <1>0, <1>3 DEF InstallConversation, LeaseHoldsActive
  <2>2. /\ Active("modeling")' = {t} /\ Active("validation")' = Active("validation")
        /\ \A r \in ActiveRuns : ~run[r].turn
    <3>1. ASSUME NEW old \in Threads, Replace(old, t, None)
          PROVE  /\ Active("modeling")' = {t} /\ Active("validation")' = Active("validation")
                 /\ \A r \in ActiveRuns : ~run[r].turn
      BY <1>0, <2>1, <3>1, ReplacedActive
    <3>2. CASE MayReplace(None) /\ Install("modeling", t, "ready")
      BY <1>0, <2>1, <3>2, NewActive DEF Install, MayReplace, Planes
    <3> QED
      BY <1>3, <3>1, <3>2 DEF InstallConversation
  <2>3. op'["modeling"].pc = "idle" /\ op'["validation"] = op["validation"] /\ run' = run
    BY <1>0, <1>3 DEF InstallConversation, NoOp, ThreadsTypeOK
  <2>4. MakesActive("modeling", t)
    BY <2>2, <2>3 DEF MakesActive, Planes
  <2> QED
    BY <1>0, <2>1, <2>4
<1>4. CASE ResumeThread
  <2>1. PICK t \in Active("modeling") : row' = [row EXCEPT ![t].st = "ready", ![t].gen = op["modeling"].gen]
    BY <1>4 DEF ResumeThread
  <2>2. t \in Threads /\ row[t] \in Row
    BY <1>0 DEF Active
  <2>3. LeavesActive
    BY <1>0, <2>1, <2>2 DEF LeavesActive, Active, ThreadsTypeOK, Row
  <2> QED
    BY <2>3
<1>5. CASE ReplaceThread
  <2>1. PICK t \in Threads :
           /\ t \in Fresh
           /\ Replace(op["modeling"].thread, t, op["modeling"].who)
           /\ op' = [op EXCEPT !["modeling"].pc = "activated", !["modeling"].thread = t]
    BY <1>5 DEF ReplaceThread, ExternalStart
  <2>2. op'["modeling"].thread = t /\ op'["validation"] = op["validation"]
    BY <1>0, <2>1 DEF ThreadsTypeOK, Op
  <2>3. MakesActive("modeling", t)
    BY <1>0, <1>5, <2>1, <2>2, ReplacedActive DEF MakesActive, Planes, Fresh, ReplaceThread
  <2> QED
    BY <1>0, <2>3
<1>6. ASSUME NEW p \in Planes, StartThread(p)
      PROVE  \E t \in Threads : MakesActive(p, t)
  <2>1. PICK t \in Threads, st \in {"ready", "active"} :
           /\ t \in Fresh
           /\ Active(p) = {}
           /\ row' = [row EXCEPT ![t] = NewRow(p, st)]
           /\ op' = [op EXCEPT ![p].pc = "activated", ![p].thread = t]
    BY <1>6 DEF StartThread, Install, ExternalStart
  <2>2. op'[p].thread = t /\ \A q \in Planes \ {p} : op'[q] = op[q]
    BY <1>0, <2>1 DEF ThreadsTypeOK, Op
  <2>3. Active(p)' = {t} /\ \A q \in Planes \ {p} : Active(q)' = Active(q)
    <3>1. row[t].st = "absent" /\ row' = [row EXCEPT ![t] = NewRow(p, st)]
      BY <2>1 DEF Fresh
    <3>2. Active(p)' = Active(p) \cup {t} /\ \A q \in Planes \ {p} : Active(q)' = Active(q)
      BY <1>0, <3>1, NewActive
    <3> QED
      BY <2>1, <3>2
  <2>4. p = "modeling" => \A r \in ActiveRuns : ~run[r].turn
    BY <2>1 DEF ThreadsIInv, BoundOnActiveThread
  <2> QED
    BY <1>6, <2>2, <2>3, <2>4 DEF MakesActive, StartThread
<1>7. ASSUME NEW p \in Planes, AskTurn(p) \/ FinishTurn(p) \/ AskFailed(p) \/ BindFailed(p)
      PROVE  LeavesActive \/ RetiresEvaluator
  <2> DEFINE t == op[p].thread
  <2>1. t \in Active(p) /\ t \in Threads /\ row[t] \in Row /\ row[t].plane = p /\ ~row[t].archived
    BY <1>0, <1>7 DEF AskTurn, FinishTurn, AskFailed, BindFailed, LeaseHoldsActive, HasThread, Active
  <2>2. CASE AskTurn(p)
    BY <1>0, <2>1, <2>2 DEF AskTurn, LeavesActive, Active, ThreadsTypeOK, Row
  <2>4. CASE FinishTurn(p) /\ p = "modeling"
    BY <1>0, <2>1, <2>4 DEF FinishTurn, LeavesActive, Active, ThreadsTypeOK, Row
  <2>5. CASE FinishTurn(p) /\ p = "validation"
    <3>1. row' = [row EXCEPT ![t] = [@ EXCEPT !.st = "archived", !.archived = TRUE]]
      BY <2>1, <2>5 DEF FinishTurn
    <3>2. Active("modeling")' = Active("modeling") /\ Active("validation")' \subseteq Active("validation")
      BY <1>0, <2>1, <2>5, <3>1 DEF Active, ThreadsTypeOK, Row
    <3>3. op'["validation"].pc = "idle"
      BY <1>0, <2>5 DEF FinishTurn, ThreadsTypeOK, NoOp
    <3> QED
      BY <3>2, <3>3 DEF RetiresEvaluator
  <2>6. CASE Cleaned(p) /\ op' = [op EXCEPT ![p] = NoOp]
    <3>1. p = "validation" => op'["validation"].pc = "idle"
      BY <1>0, <2>6 DEF ThreadsTypeOK, NoOp
    <3> QED
      BY <1>0, <2>1, <2>6, <3>1, CleanedActive DEF RetiresEvaluator, LeavesActive, Planes
  <2> QED
    <3>1. CASE AskFailed(p) \/ BindFailed(p)
      <4>1. op' = [op EXCEPT ![p] = NoOp]
        BY <3>1 DEF AskFailed, BindFailed
      <4>2. Cleaned(p) \/ UNCHANGED row
        BY <3>1 DEF AskFailed, BindFailed
      <4>3. UNCHANGED row => LeavesActive
        BY DEF LeavesActive, Active
      <4> QED
        BY <2>6, <4>1, <4>2, <4>3
    <3> QED
      BY <1>7, <2>2, <2>4, <2>5, <3>1 DEF Planes
<1>8. CASE Restart
  <2>1. \A t \in Threads : /\ row'[t].plane = row[t].plane /\ row'[t].archived = row[t].archived
                           /\ row'[t].st = "absent" <=> row[t].st = "absent"
    BY <1>0, <1>8 DEF Restart, Row
  <2>2. LeavesActive
    BY <2>1 DEF LeavesActive, Active
  <2> QED
    BY <2>2
<1>9. \/ UNCHANGED row \/ (\E k \in Checks : RecoverCheck(k)) \/ InstallConversation \/ ResumeThread
      \/ ReplaceThread \/ Restart
      \/ \E p \in Planes : StartThread(p) \/ AskTurn(p) \/ FinishTurn(p) \/ AskFailed(p) \/ BindFailed(p)
  BY DEF ThreadsNext, OpStep, ConversationStep, ActivationStep, CreateRun, EndRun, PrepareRefinement,
     OpenTurn, OpenCheck, EndCheck, RecoverFailed, OpenConversation, StartConversationThread,
     ReuseThread, ResumeMissing, Connect, TurnStarted, BindTurn, GiveUp, LoseConnection, FailRoutes,
     LoseRollout
<1> QED
  BY <1>1, <1>2, <1>3, <1>4, <1>5, <1>6, <1>7, <1>8, <1>9

-----------------------------------------------------------------------------
(* The invariant is inductive. *)

\* A plane keeps one active thread.
LEMMA OnlyOneStep ==
    ASSUME ThreadsIInv, ThreadsNext
    PROVE  OnlyOne'
BY ActiveStep DEF ThreadsIInv, OnlyOne, LeavesActive, MakesActive, RetiresEvaluator, Planes

\* Whose steps write the rows of runs.
LEMMA RunWriters ==
    ASSUME ThreadsNext
    PROVE  \/ run' = run
           \/ \E r \in Runs : CreateRun(r) \/ EndRun(r) \/ PrepareRefinement(r) \/ OpenTurn(r)
           \/ BindTurn("modeling")
           \/ Restart
<1>1. ASSUME NEW p \in Planes, OpStep(p)
      PROVE  run' = run \/ BindTurn("modeling")
  <2>1. BindTurn(p) => run' = run \/ BindTurn("modeling")
    BY DEF BindTurn, Planes
  <2> QED
    BY <1>1, <2>1 DEF OpStep, Connect, StartThread, AskTurn, TurnStarted, FinishTurn, GiveUp, AskFailed,
       BindFailed
<1>2. ConversationStep \/ ActivationStep => run' = run
  BY DEF ConversationStep, ActivationStep, StartConversationThread, InstallConversation, ReuseThread,
     ResumeThread, ResumeMissing, ReplaceThread
<1>3. ASSUME NEW k \in Checks, OpenCheck(k) \/ EndCheck(k) \/ RecoverCheck(k) \/ RecoverFailed(k)
      PROVE  run' = run
  BY <1>3 DEF OpenCheck, EndCheck, RecoverCheck, RecoverFailed
<1>4. OpenConversation \/ LoseConnection \/ FailRoutes \/ (\E t \in Threads : LoseRollout(t)) => run' = run
  BY DEF OpenConversation, LoseConnection, FailRoutes, LoseRollout
<1> QED
  BY <1>1, <1>2, <1>3, <1>4 DEF ThreadsNext

\* A run has a turn only while it runs, and then its thread is the active one.
LEMMA BoundStep ==
    ASSUME ThreadsIInv, ThreadsNext
    PROVE  TurnOfRunning' /\ BoundOnActiveThread'
<1>0. /\ ThreadsTypeOK /\ TurnOfRunning /\ BoundOnActiveThread /\ LeaseHoldsActive
      /\ \A r \in Runs : run[r] \in RunState
      /\ "modeling" \in Planes
  BY DEF ThreadsIInv, ThreadsTypeOK, Planes
<1>1. CASE run' = run
  <2>1. TurnOfRunning'
    BY <1>0, <1>1 DEF TurnOfRunning
  <2>2. Active("modeling")' = Active("modeling") \/ \A r \in ActiveRuns : ~run[r].turn
    BY <1>0, ActiveStep DEF LeavesActive, MakesActive, RetiresEvaluator, Planes
  <2>3. BoundOnActiveThread'
    BY <1>0, <1>1, <2>2 DEF BoundOnActiveThread, ActiveRuns
  <2> QED
    BY <2>1, <2>3
<1>2. ASSUME NEW r \in Runs, CreateRun(r) \/ EndRun(r) \/ PrepareRefinement(r) \/ OpenTurn(r)
      PROVE  TurnOfRunning' /\ BoundOnActiveThread'
  <2>1. Active("modeling")' = Active("modeling")
    BY <1>2 DEF CreateRun, EndRun, PrepareRefinement, OpenTurn, Active
  <2>2. /\ \A o \in Runs \ {r} : run'[o] = run[o]
        /\ \/ ~run'[r].turn
           \/ run'[r].st = "ended"
    BY <1>0, <1>2 DEF CreateRun, EndRun, PrepareRefinement, OpenTurn, ThreadsTypeOK, RunState,
       TurnOfRunning
  <2>3. TurnOfRunning'
    BY <1>0, <2>2 DEF TurnOfRunning
  <2>4. BoundOnActiveThread'
    BY <1>0, <2>1, <2>2 DEF BoundOnActiveThread, ActiveRuns
  <2> QED
    BY <2>3, <2>4
<1>3. CASE BindTurn("modeling")
  <2> DEFINE w == op["modeling"].who
             t == op["modeling"].thread
  <2>1. t \in Active("modeling") /\ t \in Threads /\ t # None
    BY <1>0, <1>3, ThreadsAssumption DEF BindTurn, LeaseHoldsActive, HasThread, Active
  <2>2. Active("modeling")' = Active("modeling")
    BY <1>3 DEF BindTurn, Active
  <2>3. w \in Runs /\ run[w].st \in {"queued", "running"} /\ run[w] \in RunState
    BY <1>0, <1>3 DEF BindTurn, ActiveRuns
  <2>4. run' = [run EXCEPT ![w].thread = t, ![w].turn = TRUE]
    BY <1>3 DEF BindTurn
  <2>5. run'[w].thread = t /\ run'[w].st = run[w].st /\ \A o \in Runs \ {w} : run'[o] = run[o]
    BY <2>3, <2>4, <1>0 DEF ThreadsTypeOK, RunState
  <2>6. BoundOnActiveThread'
    BY <1>0, <2>1, <2>2, <2>3, <2>5 DEF BoundOnActiveThread, ActiveRuns
  <2>7. run[w].st = "running"
    BY <1>0, <1>3, <2>3 DEF LeaseHoldsActive, Holds, BindTurn
  <2>8. TurnOfRunning'
    BY <1>0, <2>5, <2>7 DEF TurnOfRunning
  <2> QED
    BY <2>6, <2>8
<1>4. CASE Restart
  <2>1. \A r \in Runs : run'[r].st # "running" /\ (run'[r] = run[r] \/ run'[r].st = "ended")
    BY <1>0, <1>4 DEF Restart, RunState
  <2>2. TurnOfRunning'
    BY <1>0, <2>1 DEF TurnOfRunning
  <2>3. \A r \in ActiveRuns' : ~run'[r].turn
    BY <1>0, <2>1 DEF ActiveRuns, TurnOfRunning
  <2> QED
    BY <2>2, <2>3 DEF BoundOnActiveThread
<1> QED
  BY <1>1, <1>2, <1>3, <1>4, RunWriters

\* How a step changes what the operation of a plane has in hand.
OpChange(p) ==
    \/ op'[p] = op[p]
    \/ op'[p].pc = "idle"
    \/ /\ op'[p].pc = "opened"
       /\ IF p = "validation" THEN op'[p].who \in Checks
          ELSE op'[p].who = User \/ (op'[p].who \in Runs /\ run'[op'[p].who].st = "running")
    \/ /\ op[p].pc # "idle" /\ op'[p].who = op[p].who /\ UNCHANGED run
       /\ \/ op'[p].pc = "connected"
          \/ op'[p].pc \in HasThread /\ op'[p].thread \in Active(p)
          \/ op'[p].pc \in HasThread /\ op'[p].thread \in Active(p)'
          \/ p = "modeling" /\ op'[p].pc = "replacing"
          \/ /\ p = "modeling" /\ op'[p].pc = "installing" /\ UNCHANGED row
             /\ op'[p].thread \in Threads /\ row[op'[p].thread].st = "absent"
    \/ /\ op[p].pc \in HasThread /\ op'[p].pc = "turn"
       /\ op'[p].who = op[p].who /\ op'[p].thread = op[p].thread
       /\ \A r \in Runs : run[r].st = "running" => run'[r].st = "running"

\* Every step changes it in one of these ways.
LEMMA OpShape ==
    ASSUME ThreadsIInv, ThreadsNext, NEW p \in Planes
    PROVE  OpChange(p)
<1>0. /\ ThreadsTypeOK /\ OnlyOne /\ LeaseHoldsActive
      /\ \A q \in Planes : op[q] \in Op
      /\ "modeling" \in Planes /\ "validation" \in Planes
      /\ NoOp \in Op /\ NoOp.pc = "idle"
  BY Elements DEF ThreadsIInv, NoOp
<1>1. CASE UNCHANGED op
  BY <1>1 DEF OpChange
<1>2. ASSUME NEW r \in Runs, OpenTurn(r)
      PROVE  OpChange(p)
  <2>1. run'[r].st = "running"
    BY <1>0, <1>2 DEF OpenTurn, ThreadsTypeOK, RunState
  <2>2. /\ op' = [op EXCEPT !["modeling"] = [NoOp EXCEPT !.pc = "opened", !.who = r]]
        /\ op'["validation"] = op["validation"]
        /\ op'["modeling"].pc = "opened" /\ op'["modeling"].who = r
    BY <1>0, <1>2 DEF OpenTurn, ThreadsTypeOK, Op
  <2> QED
    BY <2>1, <2>2 DEF OpChange, Planes
<1>3. ASSUME NEW k \in Checks, OpenCheck(k)
      PROVE  OpChange(p)
  <2>1. /\ op'["modeling"] = op["modeling"]
        /\ op'["validation"].pc = "opened" /\ op'["validation"].who = k
    BY <1>0, <1>3 DEF OpenCheck, ThreadsTypeOK, Op
  <2> QED
    BY <2>1 DEF OpChange, Planes
<1>4. CASE OpenConversation
  <2>1. /\ op'["validation"] = op["validation"]
        /\ op'["modeling"].pc = "opened" /\ op'["modeling"].who = User
    BY <1>0, <1>4 DEF OpenConversation, ThreadsTypeOK, Op
  <2> QED
    BY <2>1 DEF OpChange, Planes
<1>5. ASSUME NEW q \in Planes, GiveUp(q) \/ FinishTurn(q) \/ AskFailed(q) \/ BindFailed(q)
      PROVE  OpChange(p)
  <2>1. op' = [op EXCEPT ![q] = NoOp]
    BY <1>5 DEF GiveUp, FinishTurn, AskFailed, BindFailed
  <2> QED
    BY <1>0, <2>1 DEF OpChange, ThreadsTypeOK
<1>6. CASE InstallConversation \/ Restart
  BY <1>0, <1>6 DEF InstallConversation, Restart, OpChange, ThreadsTypeOK
<1>7. ASSUME NEW q \in Planes, Connect(q)
      PROVE  OpChange(p)
  <2>1. /\ p # q => op'[p] = op[p]
        /\ op'[q].pc = "connected" /\ op'[q].who = op[q].who
    BY <1>0, <1>7 DEF Connect, ThreadsTypeOK, Op
  <2> QED
    BY <1>7, <2>1 DEF OpChange, Connect
<1>8. ASSUME NEW q \in Planes, AskTurn(q) \/ TurnStarted(q)
      PROVE  OpChange(p)
  <2>1. /\ p # q => op'[p] = op[p]
        /\ op'[q].pc \in HasThread /\ op'[q].who = op[q].who /\ op'[q].thread = op[q].thread
    BY <1>0, <1>8 DEF AskTurn, TurnStarted, ThreadsTypeOK, Op, HasThread
  <2>2. op[q].thread \in Active(q) /\ op[q].pc # "idle" /\ UNCHANGED run
    BY <1>0, <1>8 DEF AskTurn, TurnStarted, LeaseHoldsActive, HasThread
  <2> QED
    BY <2>1, <2>2 DEF OpChange
<1>9. ASSUME NEW q \in Planes, BindTurn(q)
      PROVE  OpChange(p)
  <2>1. /\ p # q => op'[p] = op[p]
        /\ op'[q].pc = "turn" /\ op'[q].who = op[q].who /\ op'[q].thread = op[q].thread
    BY <1>0, <1>9 DEF BindTurn, ThreadsTypeOK, Op
  <2>2. \A r \in Runs : run[r].st = "running" => run'[r].st = "running"
    <3>1. \A r \in Runs : run[r] \in RunState
      BY <1>0 DEF ThreadsTypeOK
    <3> QED
      BY <1>0, <1>9, <3>1 DEF BindTurn, ThreadsTypeOK, RunState
  <2> QED
    BY <1>9, <2>1, <2>2 DEF OpChange, BindTurn, HasThread
<1>10. CASE ReuseThread \/ ResumeThread
  <2>1. PICK t \in Active("modeling") :
           op' = [op EXCEPT !["modeling"].pc = "activated", !["modeling"].thread = t]
    BY <1>10 DEF ReuseThread, ResumeThread
  <2>2. /\ op'["validation"] = op["validation"]
        /\ op'["modeling"].pc = "activated" /\ op'["modeling"].who = op["modeling"].who
        /\ op'["modeling"].thread = t
    BY <1>0, <2>1 DEF ThreadsTypeOK, Op
  <2> QED
    BY <1>10, <2>1, <2>2 DEF OpChange, ReuseThread, ResumeThread, HasThread, Planes
<1>11. CASE ResumeMissing
  <2>1. /\ op'["validation"] = op["validation"]
        /\ op'["modeling"].pc = "replacing" /\ op'["modeling"].who = op["modeling"].who
    BY <1>0, <1>11 DEF ResumeMissing, ThreadsTypeOK, Op
  <2> QED
    BY <1>11, <2>1 DEF OpChange, ResumeMissing, Planes
<1>12. CASE ReplaceThread
  <2>1. PICK t \in Threads :
           /\ t \in Fresh
           /\ Replace(op["modeling"].thread, t, op["modeling"].who)
           /\ op' = [op EXCEPT !["modeling"].pc = "activated", !["modeling"].thread = t]
    BY <1>12 DEF ReplaceThread, ExternalStart
  <2>2. /\ op'["validation"] = op["validation"]
        /\ op'["modeling"].pc = "activated" /\ op'["modeling"].who = op["modeling"].who
        /\ op'["modeling"].thread = t
    BY <1>0, <2>1 DEF ThreadsTypeOK, Op
  <2>3. t \in Active("modeling")'
    BY <1>0, <2>1, ReplacedActive DEF Fresh
  <2> QED
    BY <1>12, <2>2, <2>3 DEF OpChange, ReplaceThread, HasThread, Planes
<1>13. ASSUME NEW q \in Planes, StartThread(q)
       PROVE  OpChange(p)
  <2>1. PICK t \in Threads, st \in {"ready", "active"} :
           /\ t \in Fresh
           /\ row' = [row EXCEPT ![t] = NewRow(q, st)]
           /\ op' = [op EXCEPT ![q].pc = "activated", ![q].thread = t]
    BY <1>13 DEF StartThread, Install, ExternalStart
  <2>2. /\ p # q => op'[p] = op[p]
        /\ op'[q].pc = "activated" /\ op'[q].who = op[q].who /\ op'[q].thread = t
    BY <1>0, <2>1 DEF ThreadsTypeOK, Op
  <2>3. t \in Active(q)'
    <3>1. row[t].st = "absent" /\ row' = [row EXCEPT ![t] = NewRow(q, st)]
      BY <2>1 DEF Fresh
    <3>2. Active(q)' = Active(q) \cup {t}
      BY <1>0, <3>1, NewActive
    <3> QED
      BY <3>2
  <2> QED
    BY <1>13, <2>2, <2>3 DEF OpChange, StartThread, HasThread
<1>14. CASE StartConversationThread
  <2>1. PICK t \in Threads :
           /\ t \in Fresh
           /\ op' = [op EXCEPT !["modeling"].pc = "installing", !["modeling"].thread = t]
    BY <1>14 DEF StartConversationThread, ExternalStart
  <2>2. /\ op'["validation"] = op["validation"]
        /\ op'["modeling"].pc = "installing" /\ op'["modeling"].who = op["modeling"].who
        /\ op'["modeling"].thread = t
    BY <1>0, <2>1 DEF ThreadsTypeOK, Op
  <2> QED
    BY <1>14, <2>1, <2>2 DEF OpChange, StartConversationThread, Fresh, Planes
<1>15. \/ UNCHANGED op
       \/ \E r \in Runs : OpenTurn(r)
       \/ \E k \in Checks : OpenCheck(k)
       \/ OpenConversation \/ InstallConversation \/ Restart \/ ReuseThread \/ ResumeThread
       \/ ResumeMissing \/ ReplaceThread \/ StartConversationThread
       \/ \E q \in Planes : GiveUp(q) \/ FinishTurn(q) \/ AskFailed(q) \/ BindFailed(q) \/ Connect(q)
                            \/ AskTurn(q) \/ TurnStarted(q) \/ BindTurn(q) \/ StartThread(q)
  BY DEF ThreadsNext, OpStep, ConversationStep, ActivationStep, CreateRun, EndRun, PrepareRefinement,
     EndCheck, RecoverCheck, RecoverFailed, LoseConnection, FailRoutes, LoseRollout
<1> QED
  BY <1>1, <1>2, <1>3, <1>4, <1>5, <1>6, <1>7, <1>8, <1>9, <1>10, <1>11, <1>12, <1>13, <1>14, <1>15

\* Only rows of active threads and of new ones are written, and the one that a new
\* conversation is about to install when it is installed.
LEMMA RowShape ==
    ASSUME ThreadsIInv, ThreadsNext, op'["modeling"] = op["modeling"], op["modeling"].pc = "installing"
    PROVE  row'[op["modeling"].thread].st = "absent"
<1> DEFINE u == op["modeling"].thread
<1>0. /\ ThreadsTypeOK /\ OnlyOne /\ LeaseHoldsActive
      /\ u \in Threads /\ row[u].st = "absent" /\ u \notin Fresh
      /\ \A q \in Planes : u \notin Active(q)
      /\ "modeling" \in Planes
      /\ NoOp.pc = "idle"
  BY DEF ThreadsIInv, LeaseHoldsActive, Fresh, Planes, Active, NoOp
<1>1. CASE UNCHANGED row
  BY <1>0, <1>1
<1>2. ASSUME NEW k \in Checks, RecoverCheck(k)
      PROVE  row'[u] = row[u]
  BY <1>0, <1>2 DEF RecoverCheck, ThreadsTypeOK, Planes
<1>3. ASSUME NEW q \in Planes, StartThread(q)
      PROVE  row'[u] = row[u]
  BY <1>0, <1>3 DEF StartThread, ExternalStart, Install, ThreadsTypeOK
<1>4. ASSUME NEW q \in Planes, AskTurn(q) \/ FinishTurn(q) \/ AskFailed(q) \/ BindFailed(q)
      PROVE  row'[u] = row[u]
  <2>1. op[q].thread # u
    BY <1>0, <1>4 DEF AskTurn, FinishTurn, AskFailed, BindFailed, LeaseHoldsActive, HasThread
  <2> QED
    BY <1>0, <1>4, <2>1 DEF AskTurn, FinishTurn, AskFailed, BindFailed, Cleaned, ThreadsTypeOK
<1>5. ~(InstallConversation \/ Restart \/ ResumeThread \/ ReplaceThread)
  BY <1>0 DEF InstallConversation, Restart, ResumeThread, ReplaceThread, ThreadsTypeOK
<1>6. \/ UNCHANGED row \/ (\E k \in Checks : RecoverCheck(k)) \/ InstallConversation \/ ResumeThread
      \/ ReplaceThread \/ Restart
      \/ \E p \in Planes : StartThread(p) \/ AskTurn(p) \/ FinishTurn(p) \/ AskFailed(p) \/ BindFailed(p)
  BY DEF ThreadsNext, OpStep, ConversationStep, ActivationStep, CreateRun, EndRun, PrepareRefinement,
     OpenTurn, OpenCheck, EndCheck, RecoverFailed, OpenConversation, StartConversationThread,
     ReuseThread, ResumeMissing, Connect, TurnStarted, BindTurn, GiveUp, LoseConnection, FailRoutes,
     LoseRollout
<1> QED
  BY <1>0, <1>1, <1>2, <1>3, <1>4, <1>5, <1>6

\* A run that is under the modelling lease stays running.
LEMMA HolderStep ==
    ASSUME ThreadsIInv, ThreadsNext, NEW r \in Runs, Holds("modeling", r), op'["modeling"] = op["modeling"]
    PROVE  run'[r].st = "running"
<1>0. /\ ThreadsTypeOK /\ run[r].st = "running" /\ op["modeling"].pc # "idle"
      /\ \A o \in Runs : run[o] \in RunState
      /\ "modeling" \in Planes /\ NoOp.pc = "idle"
  BY DEF ThreadsIInv, ThreadsTypeOK, LeaseHoldsActive, Holds, Planes, NoOp
<1>1. CASE UNCHANGED run
  BY <1>0, <1>1
<1>2. ASSUME NEW o \in Runs, CreateRun(o) \/ EndRun(o) \/ PrepareRefinement(o) \/ OpenTurn(o)
      PROVE  run'[r].st = "running"
  BY <1>0, <1>2 DEF CreateRun, EndRun, PrepareRefinement, OpenTurn, ThreadsTypeOK, RunState
<1>3. ~BindTurn("modeling")
  BY <1>0 DEF BindTurn, ThreadsTypeOK, Op
<1>4. ~Restart
  BY <1>0 DEF Restart, ThreadsTypeOK
<1> QED
  BY <1>1, <1>2, <1>3, <1>4, RunWriters

\* Whoever holds a lease keeps what he has in hand.
LEMMA LeaseStep ==
    ASSUME ThreadsIInv, ThreadsNext
    PROVE  LeaseHoldsActive'
<1>0. /\ LeaseHoldsActive /\ "modeling" \in Planes /\ "validation" \in Planes /\ User \notin Runs
      /\ OpChange("modeling") /\ OpChange("validation")
  BY OpShape, ThreadsAssumption DEF ThreadsIInv, Planes
<1>1. /\ op'["modeling"].pc # "idle" => op'["modeling"].who \in Runs \cup {User}
      /\ op'["validation"].pc # "idle" => op'["validation"].who \in Checks
      /\ op'["validation"].pc \notin {"replacing", "installing"}
  BY <1>0 DEF LeaseHoldsActive, OpChange, HasThread
<1>2. ASSUME NEW r \in Runs, op'["modeling"].pc # "idle", op'["modeling"].who = r
      PROVE  run'[r].st = "running"
  BY <1>0, <1>2, HolderStep DEF LeaseHoldsActive, OpChange, Holds, HasThread
<1>3. ASSUME NEW p \in Planes, op'[p].pc \in HasThread
      PROVE  op'[p].thread \in Active(p)'
  <2>1. op'[p].thread \in Active(p) \/ op'[p].thread \in Active(p)'
    BY <1>0, <1>3, OpShape DEF OpChange, LeaseHoldsActive, HasThread
  <2>2. ASSUME NEW q \in Planes, NEW t \in Threads, MakesActive(q, t), op'[p].thread \in Active(p)
        PROVE  op'[p].thread \in Active(p)'
    BY <1>3, <2>2 DEF MakesActive, HasThread
  <2>3. op'[p].thread \in Active(p) /\ RetiresEvaluator => op'[p].thread \in Active(p)'
    BY <1>3 DEF RetiresEvaluator, HasThread, Planes
  <2> QED
    BY <2>1, <2>2, <2>3, ActiveStep DEF LeavesActive
<1>4. ASSUME op'["modeling"].pc = "installing"
      PROVE  op'["modeling"].thread \in Threads /\ row'[op'["modeling"].thread].st = "absent"
  BY <1>0, <1>4, RowShape DEF LeaseHoldsActive, OpChange, HasThread
<1> QED
  BY <1>1, <1>2, <1>3, <1>4 DEF LeaseHoldsActive, Holds

\* Nothing that an earlier process has loaded is taken for loaded in the next one.
LEMMA MemoryStep ==
    ASSUME ThreadsIInv, ThreadsNext
    PROVE  MemoryIsTrue'
<1> DEFINE g(p) == op[p].gen
<1>0. /\ ThreadsTypeOK /\ MemoryIsTrue
      /\ \A q \in Planes : op[q] \in Op /\ op[q].gen \in Nat
      /\ \A e \in loaded : e[1] \in Nat
      /\ conn.gen \in Nat
      /\ "modeling" \in Planes
      /\ NoOp \in Op /\ NoOp.pc = "idle" /\ NoOp.gen = 0
  BY ThreadsAssumption, Elements DEF ThreadsIInv, NoOp, Planes, ThreadsTypeOK, Connection, Gens
<1>1. ASSUME UNCHANGED <<conn, loaded>>,
             \A q \in Planes : \/ op'[q] = op[q]
                               \/ /\ op'[q].pc \notin {"activated", "installing"}
                                  /\ op'[q].gen \in {0, op[q].gen}
      PROVE  MemoryIsTrue'
  BY <1>0, <1>1 DEF MemoryIsTrue
<1>2. ASSUME UNCHANGED <<conn, loaded>>, NEW q \in Planes,
             NEW o \in {NoOp} \cup {[NoOp EXCEPT !.pc = "opened", !.who = w] : w \in Runs \cup Checks \cup {User}},
             op' = [op EXCEPT ![q] = o]
      PROVE  MemoryIsTrue'
  <2>1. o.gen = 0 /\ o.pc \notin {"activated", "installing"}
    BY <1>0, <1>2 DEF Op
  <2>2. op'[q] = o /\ \A p \in Planes \ {q} : op'[p] = op[p]
    BY <1>0, <1>2 DEF ThreadsTypeOK
  <2> QED
    BY <1>1, <1>2, <2>1, <2>2
<1>3. ASSUME UNCHANGED <<conn, loaded>>, NEW q \in Planes, NEW pc \in {"asked", "promoted", "turn"},
             op' = [op EXCEPT ![q].pc = pc]
      PROVE  MemoryIsTrue'
  <2>1. op'[q].gen = op[q].gen /\ op'[q].pc = pc /\ \A p \in Planes \ {q} : op'[p] = op[p]
    BY <1>0, <1>3 DEF ThreadsTypeOK, Op
  <2> QED
    BY <1>1, <1>3, <2>1

<1>4. ASSUME NEW q \in Planes, NEW t \in Threads, conn.live,
             conn' = [conn EXCEPT !.loaded = @ \cup {t}],
             loaded' \in {loaded, MarkLoaded(op[q].gen, t)},
             NEW pc \in {"activated", "installing"},
             op' = [op EXCEPT ![q].pc = pc, ![q].thread = t]
      PROVE  MemoryIsTrue'
  <2>1. /\ op'[q].gen = op[q].gen /\ op'[q].thread = t
        /\ \A p \in Planes \ {q} : op'[p] = op[p]
    BY <1>0, <1>4 DEF ThreadsTypeOK, Op
  <2>2. conn'.gen = conn.gen /\ conn'.live = conn.live /\ conn'.loaded = conn.loaded \cup {t}
    BY <1>0, <1>4 DEF ThreadsTypeOK, Connection
  <2>3. \A e \in loaded' : e \in loaded \/ (e[1] = op[q].gen /\ e[2] = t)
    BY <1>4 DEF MarkLoaded
  <2>4. \A e \in loaded' : e[1] <= conn'.gen /\ (conn'.live /\ e[1] = conn'.gen => e[2] \in conn'.loaded)
    BY <1>0, <2>2, <2>3 DEF MemoryIsTrue
  <2>5. \A p \in Planes : op'[p].gen <= conn'.gen
    BY <1>0, <2>1, <2>2 DEF MemoryIsTrue
  <2>6. \A p \in Planes :
          op'[p].pc \in {"activated", "installing"} /\ conn'.live /\ conn'.gen = op'[p].gen
             => op'[p].thread \in conn'.loaded
    BY <1>0, <2>1, <2>2 DEF MemoryIsTrue
  <2> QED
    BY <2>4, <2>5, <2>6 DEF MemoryIsTrue
<1>5. CASE ReuseThread
  <2>1. PICK t \in Threads :
           /\ <<op["modeling"].gen, t>> \in loaded
           /\ op' = [op EXCEPT !["modeling"].pc = "activated", !["modeling"].thread = t]
    BY <1>5 DEF ReuseThread, IsLoaded, Active
  <2>2. /\ op'["modeling"].gen = op["modeling"].gen /\ op'["modeling"].thread = t
        /\ \A p \in Planes \ {"modeling"} : op'[p] = op[p]
    BY <1>0, <2>1 DEF ThreadsTypeOK, Op
  <2>3. conn.live /\ conn.gen = op["modeling"].gen => t \in conn.loaded
    BY <1>0, <2>1 DEF MemoryIsTrue
  <2> QED
    BY <1>0, <1>5, <2>2, <2>3 DEF MemoryIsTrue, ReuseThread
<1>6. CASE ResumeMissing
  <2>1. PICK t \in Threads :
           op' = [op EXCEPT !["modeling"].pc = "replacing", !["modeling"].thread = t]
    BY <1>6 DEF ResumeMissing, Active
  <2>2. /\ op'["modeling"].gen = op["modeling"].gen /\ op'["modeling"].pc = "replacing"
        /\ \A p \in Planes \ {"modeling"} : op'[p] = op[p]
    BY <1>0, <2>1 DEF ThreadsTypeOK, Op
  <2>3. UNCHANGED <<conn, loaded>>
    BY <1>6 DEF ResumeMissing
  <2> QED
    BY <1>1, <2>2, <2>3
<1>7. CASE InstallConversation
  <2> DEFINE t == op["modeling"].thread
  <2>1. /\ op["modeling"].pc = "installing"
        /\ op' = [op EXCEPT !["modeling"] = NoOp] /\ UNCHANGED conn
        /\ loaded' = MarkLoaded(op["modeling"].gen, t)
    BY <1>7 DEF InstallConversation, Install, Replace
  <2>2. op'["modeling"] = NoOp /\ \A p \in Planes \ {"modeling"} : op'[p] = op[p]
    BY <1>0, <2>1 DEF ThreadsTypeOK
  <2>3. \A e \in loaded' : e \in loaded \/ (e[1] = op["modeling"].gen /\ e[2] = t)
    BY <2>1 DEF MarkLoaded
  <2>4. \A e \in loaded' : e[1] <= conn'.gen /\ (conn'.live /\ e[1] = conn'.gen => e[2] \in conn'.loaded)
    BY <1>0, <2>1, <2>3 DEF MemoryIsTrue
  <2> QED
    BY <1>0, <2>1, <2>2, <2>4 DEF MemoryIsTrue
<1>8. ASSUME NEW q \in Planes, Connect(q)
      PROVE  MemoryIsTrue'
  <2>1. /\ op' = [op EXCEPT ![q].pc = "connected", ![q].gen = conn'.gen] /\ UNCHANGED loaded
        /\ \/ UNCHANGED conn
           \/ conn' = [gen |-> conn.gen + 1, live |-> TRUE, losing |-> FALSE, loaded |-> {}]
    BY <1>8 DEF Connect
  <2>2. /\ op'[q].gen = conn'.gen /\ op'[q].pc = "connected"
        /\ \A p \in Planes \ {q} : op'[p] = op[p]
    BY <1>0, <2>1 DEF ThreadsTypeOK, Op
  <2>3. conn'.gen \in Nat /\ conn.gen <= conn'.gen /\ (conn' = conn \/ conn'.gen > conn.gen)
    BY <1>0, <2>1
  <2>4. \A e \in loaded' : e[1] <= conn'.gen /\ (conn'.live /\ e[1] = conn'.gen => e[2] \in conn'.loaded)
    BY <1>0, <2>1, <2>3 DEF MemoryIsTrue
  <2>5. \A p \in Planes : op'[p].gen <= conn'.gen
    BY <1>0, <2>2, <2>3 DEF MemoryIsTrue
  <2>6. \A p \in Planes :
          op'[p].pc \in {"activated", "installing"} /\ conn'.live /\ conn'.gen = op'[p].gen
             => op'[p].thread \in conn'.loaded
    BY <1>0, <2>2, <2>3 DEF MemoryIsTrue
  <2> QED
    BY <2>4, <2>5, <2>6 DEF MemoryIsTrue
<1>9. CASE LoseConnection \/ FailRoutes
  <2>1. conn'.gen = conn.gen /\ (conn'.live => conn' = [conn EXCEPT !.losing = FALSE])
    BY <1>0, <1>9 DEF LoseConnection, FailRoutes, ThreadsTypeOK, Connection
  <2>2. conn'.live => conn.live /\ conn'.loaded = conn.loaded
    BY <1>0, <2>1 DEF ThreadsTypeOK, Connection
  <2> QED
    BY <1>0, <1>9, <2>1, <2>2 DEF LoseConnection, FailRoutes, MemoryIsTrue
<1>10. CASE Restart
  <2>1. conn'.gen = conn.gen /\ ~conn'.live /\ loaded' = {} /\ \A q \in Planes : op'[q] = NoOp
    BY <1>0, <1>10 DEF Restart, ThreadsTypeOK, Connection
  <2> QED
    BY <1>0, <2>1 DEF MemoryIsTrue
<1>11. CASE UNCHANGED <<conn, loaded, op>>
  BY <1>1, <1>11
<1>12. CASE (\E r \in Runs : OpenTurn(r)) \/ (\E k \in Checks : OpenCheck(k)) \/ OpenConversation
  BY <1>0, <1>2, <1>12 DEF OpenTurn, OpenCheck, OpenConversation, Planes
<1>13. ASSUME NEW q \in Planes, GiveUp(q) \/ FinishTurn(q) \/ AskFailed(q) \/ BindFailed(q)
       PROVE  MemoryIsTrue'
  <2>1. op' = [op EXCEPT ![q] = NoOp] /\ UNCHANGED <<conn, loaded>>
    BY <1>13 DEF GiveUp, FinishTurn, AskFailed, BindFailed
  <2> QED
    BY <1>2, <2>1
<1>14. ASSUME NEW q \in Planes, AskTurn(q) \/ TurnStarted(q) \/ BindTurn(q)
       PROVE  MemoryIsTrue'
  BY <1>3, <1>14 DEF AskTurn, TurnStarted, BindTurn
<1>15. ASSUME NEW q \in Planes, StartThread(q)
       PROVE  MemoryIsTrue'
  BY <1>4, <1>15 DEF StartThread, ExternalStart, Install
<1>16. CASE ResumeThread \/ ReplaceThread \/ StartConversationThread
  BY <1>0, <1>4, <1>16 DEF ResumeThread, ReplaceThread, Replace, StartConversationThread, ExternalStart, Active
<1> QED
  <2>1. \/ UNCHANGED <<conn, loaded, op>>
        \/ (\E r \in Runs : OpenTurn(r)) \/ (\E k \in Checks : OpenCheck(k))
        \/ OpenConversation \/ InstallConversation \/ Restart \/ ReuseThread \/ ResumeThread
        \/ ResumeMissing \/ ReplaceThread \/ StartConversationThread \/ LoseConnection \/ FailRoutes
        \/ \E q \in Planes : GiveUp(q) \/ FinishTurn(q) \/ AskFailed(q) \/ BindFailed(q) \/ Connect(q)
                             \/ AskTurn(q) \/ TurnStarted(q) \/ BindTurn(q) \/ StartThread(q)
    BY DEF ThreadsNext, OpStep, ConversationStep, ActivationStep, CreateRun, EndRun, PrepareRefinement,
       EndCheck, RecoverCheck, RecoverFailed, LoseRollout
  <2> QED
    BY <2>1, <1>5, <1>6, <1>7, <1>8, <1>9, <1>10, <1>11, <1>12, <1>13, <1>14, <1>15, <1>16

-----------------------------------------------------------------------------
(* The theorems. *)

\* It holds before anything has happened.
LEMMA ThreadsInitInv == ASSUME ThreadsInit PROVE ThreadsIInv
<1>1. ThreadsTypeOK
  BY ThreadsAssumption DEF ThreadsInit, ThreadsTypeOK, Row, NoRow, Connection, Op, NoOp, RunState, Gens, Planes
<1>2. \A p \in Planes : Active(p) = {} /\ op[p] = NoOp
  BY DEF ThreadsInit, Active, NoRow
<1>3. OnlyOne /\ LeaseHoldsActive
  BY <1>2 DEF OnlyOne, LeaseHoldsActive, NoOp, Holds, HasThread, Planes
<1>4. MemoryIsTrue
  BY <1>2 DEF ThreadsInit, MemoryIsTrue, NoOp
<1>5. TurnOfRunning /\ BoundOnActiveThread
  BY DEF ThreadsInit, TurnOfRunning, BoundOnActiveThread, ActiveRuns
<1> QED
  BY <1>1, <1>3, <1>4, <1>5 DEF ThreadsIInv

\* Every step keeps it.
LEMMA ThreadsInvStep == ASSUME ThreadsIInv, [ThreadsNext]_vars PROVE ThreadsIInv'
<1>1. CASE ThreadsNext
  <2>1. ThreadsTypeOK'
    BY <1>1, TypeStep DEF ThreadsIInv
  <2> QED
    BY <1>1, <2>1, OnlyOneStep, MemoryStep, LeaseStep, BoundStep DEF ThreadsIInv
<1>2. CASE UNCHANGED vars
  BY <1>2 DEF vars, ThreadsIInv, ThreadsTypeOK, OnlyOne, Active, MemoryIsTrue, LeaseHoldsActive, Holds,
     TurnOfRunning, BoundOnActiveThread, ActiveRuns
<1> QED
  BY <1>1, <1>2

\* The threads of a session have the invariant in every reachable state.
LEMMA ThreadsInvariant == ThreadsSpec => []ThreadsIInv
BY ThreadsInitInv, ThreadsInvStep, PTL DEF ThreadsSpec

\* A plane never has two active threads, and a thread is activated for a turn only
\* where it is loaded, whatever was replaced, lost, restarted or given up.
THEOREM ThreadsSafe == ThreadsSpec => []ThreadsInv
<1>1. ThreadsIInv => ThreadsInv
  <2> SUFFICES ASSUME ThreadsIInv PROVE ThreadsInv
    OBVIOUS
  <2>1. OneActiveThread
    <3> SUFFICES ASSUME NEW p \in Planes PROVE Cardinality(Active(p)) <= 1
      BY DEF OneActiveThread
    <3>1. CASE Active(p) = {}
      BY <3>1, FS_EmptySet
    <3>2. CASE Active(p) # {}
      <4>1. PICK t \in Active(p) : TRUE
        BY <3>2
      <4>2. Active(p) = {t}
        BY <4>1 DEF ThreadsIInv, OnlyOne
      <4> QED
        BY <4>2, FS_Singleton
    <3> QED
      BY <3>1, <3>2
  <2>2. ActivatedIsLoaded
    BY DEF ThreadsIInv, MemoryIsTrue, ActivatedIsLoaded
  <2> QED
    BY <2>1, <2>2 DEF ThreadsIInv, ThreadsInv
<1> QED
  BY <1>1, ThreadsInvariant, PTL

\* A run with a turn keeps its thread: neither a new conversation nor the
\* replacement of a missing thread retires it.
THEOREM ThreadsBound == ThreadsSpec => []BoundOnActiveThread
<1>1. ThreadsIInv => BoundOnActiveThread
  BY DEF ThreadsIInv
<1> QED
  BY <1>1, ThreadsInvariant, PTL

=============================================================================
