---------------------------- MODULE StreamProofs ----------------------------
(***************************************************************************)
(* Proofs about the two streams of a turn: what its collector receives     *)
(* from Codex, and the events of its run.                                  *)
(*                                                                         *)
(* The router, for any threads, turns and capacities: its guarantees hold  *)
(* in every state, and what a collector sees of it is the stream that      *)
(* TurnStream promises.                                                    *)
(*                                                                         *)
(* The events: the stored ones are numbered without a gap, and what a      *)
(* cache has of them carries their numbers, in their order.  The event a   *)
(* process is saving is known to no other process and is in no snapshot,   *)
(* so the correction of its own cache is enough.                           *)
(***************************************************************************)
EXTENDS NotificationRouter, RunEvents, FiniteSetTheorems, SequenceTheorems, TLAPS

-----------------------------------------------------------------------------
(* The router. *)

\* The turn of a user belongs to its thread and has been started; nothing of it is
\* received before its route is promoted.
UsersAreBound ==
    \A t \in Threads:
        /\ user[t].turn # None =>
              /\ ThreadOf[user[t].turn] = t /\ phase[user[t].turn] # "new"
              /\ user[t].pc \in {"asked", "failed", "open"}
              /\ user[t].pc # "open" => heard[user[t].turn] = 0
        /\ user[t].pc = "open" => user[t].turn # None

\* Every entry of a table belongs to the user of its thread; when the connection is
\* down, nothing is left of its turns.
RoutesAreOwned ==
    /\ \A u \in exact: user[ThreadOf[u]].pc = "open" /\ user[ThreadOf[u]].turn = u
    /\ terminal \subseteq exact
    /\ \A t \in Threads: \A p \in pending[t]:
          /\ user[t].pc \in {"begun", "asked", "failed"}
          /\ p.reg = user[t].reg /\ pending[t] = {p}
    /\ conn = "down" => exact = {} /\ \A t \in Threads: pending[t] # {} => user[t].turn = None

\* Nothing is heard of a turn that was not started.
NewIsSilent ==
    \A u \in Turns: phase[u] = "new" =>
        /\ emitted[u] = 0 /\ heard[u] = 0 /\ chan[u] = <<>>
        /\ \A t \in Threads: \A p \in pending[t]: \A i \in 1..Len(p.buf): p.buf[i].turn # u

\* The router's marks say what has ended, and miss it only with the connection.
EndsAreMarked ==
    /\ \A u \in exact: conn # "broken" /\ phase[u] = "ended" => u \in terminal
    /\ \A u \in terminal: phase[u] \in {"ended", "gone"}
    /\ \A t \in Threads: \A p \in pending[t]: \A u \in p.ended: phase[u] \in {"ended", "gone"}

\* What a buffer holds if it can be promoted: buf is the beginning of turn u.
Begins(p, u) ==
    /\ \A i \in 1..Len(p.buf): p.buf[i].n = i
    /\ \A i \in 1..Len(p.buf): p.buf[i].last => i = Len(p.buf) /\ phase[u] \in {"ended", "gone"}
    /\ Len(p.buf) <= emitted[u]
    /\ conn # "broken" => Len(p.buf) = emitted[u] /\ (phase[u] = "ended" => u \in p.ended)

BufferInOrder ==
    \A t \in Threads: \A p \in pending[t]:
        user[t].turn # None /\ AllOf(p.buf, user[t].turn) => Begins(p, user[t].turn)

RouterIInv ==
    /\ RouterTypeOK /\ ChannelInOrder /\ StreamComplete
    /\ UsersAreBound /\ RoutesAreOwned /\ NewIsSilent /\ EndsAreMarked /\ BufferInOrder

LEMMA RouterInvHolds == ASSUME RouterIInv PROVE RouterInv
<1>1. NothingLeaks
  BY DEF RouterIInv, NothingLeaks, RoutesAreOwned
<1> QED
  BY <1>1 DEF RouterIInv, RouterInv

\* The types by which the provers know sequences.
LEMMA Shapes ==
    ASSUME RouterTypeOK
    PROVE  /\ \A u \in Turns: chan[u] \in Seq(Note) /\ Len(chan[u]) \in Nat
                              /\ DOMAIN chan[u] = 1..Len(chan[u])
                              /\ emitted[u] \in Nat /\ heard[u] \in Nat
           /\ \A t \in Threads: \A p \in pending[t]:
                 /\ p \in PendingRoute /\ p.buf \in Seq(Note) /\ Len(p.buf) \in Nat
                 /\ DOMAIN p.buf = 1..Len(p.buf)
                 /\ p.reg \in Nat /\ p.ended \in SUBSET Turns
           /\ \A u \in Turns: ThreadOf[u] \in Threads
           /\ \A t \in Threads: user[t] \in UserState /\ (user[t].turn # None => user[t].turn \in Turns)
           /\ None \notin Turns
<1>1. \A t \in Threads: \A p \in pending[t]: p \in PendingRoute
  BY DEF RouterTypeOK
<1>2. \A p \in PendingRoute: /\ p.buf \in Seq(Note) /\ p.reg \in Nat /\ p.ended \in SUBSET Turns
                             /\ Len(p.buf) \in Nat /\ DOMAIN p.buf = 1..Len(p.buf)
  BY DEF PendingRoute
<1>3. \A t \in Threads: user[t] \in UserState /\ (user[t].turn # None => user[t].turn \in Turns)
  BY DEF RouterTypeOK, UserState
<1>4. \A u \in Turns: ThreadOf[u] \in Threads
  BY RouterAssumption
<1> QED
  BY <1>1, <1>2, <1>3, <1>4, RouterAssumption DEF RouterTypeOK

LEMMA RouterInitInv == ASSUME RouterInit PROVE RouterIInv
<1>1. <<>> \in Seq(Note) /\ Len(<<>>) = 0 /\ DOMAIN <<>> = {} /\ RouteCapacity >= 0
  BY RouterAssumption
<1>2. Idle \in UserState
  BY DEF Idle, UserState
<1>3. RouterTypeOK
  BY <1>1, <1>2 DEF RouterInit, RouterTypeOK
<1> QED
  BY <1>1, <1>3 DEF RouterInit, RouterIInv, ChannelInOrder, StreamComplete, UsersAreBound, RoutesAreOwned,
     NewIsSilent, EndsAreMarked, BufferInOrder, Idle

-----------------------------------------------------------------------------
(* The users *)

\* A step of a user that leaves its turn and its registration as they are.
LEMMA UserMoves ==
    ASSUME RouterIInv, NEW t \in Threads, AskTurn(t) \/ AskFailed(t) \/ PromoteRefused(t)
    PROVE  RouterIInv'
<1> USE DEF RouterIInv
<1>1. UNCHANGED <<exact, chan, pending, terminal, begins, conn, phase, emitted, heard>>
  BY DEF AskTurn, AskFailed, PromoteRefused, routerVars
<1>2. PICK pc \in {"asked", "failed"}:
        /\ user' = [user EXCEPT ![t].pc = pc]
        /\ user[t].pc \in {"begun", "asked"}
  BY DEF AskTurn, AskFailed, PromoteRefused
<1>3. /\ user' \in [Threads -> UserState]
      /\ user'[t].pc = pc /\ user'[t].reg = user[t].reg /\ user'[t].turn = user[t].turn
      /\ \A s \in Threads \ {t}: user'[s] = user[s]
  BY <1>2 DEF RouterTypeOK, UserState
<1>4. RouterTypeOK'
  BY <1>1, <1>3 DEF RouterTypeOK
<1>5. UsersAreBound'
  BY <1>1, <1>2, <1>3 DEF UsersAreBound
<1>6. RoutesAreOwned'
  <2>1. \A u \in exact: ThreadOf[u] \in Threads \ {t}
    BY <1>2, Shapes DEF RoutesAreOwned, RouterTypeOK
  <2> QED
    BY <1>1, <1>2, <1>3, <2>1 DEF RoutesAreOwned
<1>7. BufferInOrder'
  BY <1>1, <1>3 DEF BufferInOrder, AllOf, Begins
<1> QED
  BY <1>1, <1>4, <1>5, <1>6, <1>7 DEF ChannelInOrder, StreamComplete, NewIsSilent, EndsAreMarked

LEMMA BeginKeeps == ASSUME RouterIInv, NEW t \in Threads, BeginPending(t) PROVE RouterIInv'
<1> USE DEF RouterIInv
<1> DEFINE route == [reg |-> begins + 1, buf |-> <<>>, ended |-> {}]
<1>1. /\ user[t].pc = "idle" /\ pending[t] = {}
      /\ pending' = [pending EXCEPT ![t] = {route}]
      /\ user' = [user EXCEPT ![t] = [pc |-> "begun", reg |-> begins + 1, turn |-> None]]
      /\ begins' = begins + 1
      /\ UNCHANGED <<exact, chan, terminal, conn, phase, emitted, heard>>
  BY DEF BeginPending
<1>2. begins \in Nat /\ begins' \in Nat
  BY <1>1 DEF RouterTypeOK
<1>3. /\ route \in PendingRoute /\ route.reg = begins + 1 /\ route.buf = <<>> /\ route.ended = {}
      /\ Len(route.buf) = 0
  BY <1>2 DEF PendingRoute
<1>4. [pc |-> "begun", reg |-> begins + 1, turn |-> None] \in UserState
  BY <1>2 DEF UserState
<1> HIDE DEF route
<1>5. /\ pending' \in [Threads -> SUBSET PendingRoute] /\ pending'[t] = {route}
      /\ \A s \in Threads \ {t}: pending'[s] = pending[s]
  BY <1>1, <1>3 DEF RouterTypeOK
<1>6. /\ user' \in [Threads -> UserState]
      /\ user'[t].pc = "begun" /\ user'[t].reg = begins + 1 /\ user'[t].turn = None
      /\ \A s \in Threads \ {t}: user'[s] = user[s]
  BY <1>1, <1>4 DEF RouterTypeOK
<1>7. RouterTypeOK'
  <2>1. 0 <= PendingCapacity
    BY RouterAssumption
  <2>2. \A p \in pending'[t]: Len(p.buf) <= PendingCapacity
    BY <1>3, <1>5, <2>1
  <2>3. \A s \in Threads: \A p \in pending'[s]: Len(p.buf) <= PendingCapacity
    BY <1>5, <2>2 DEF RouterTypeOK
  <2> QED
    BY <1>1, <1>2, <1>5, <1>6, <2>3 DEF RouterTypeOK
<1>8. UsersAreBound'
  BY <1>1, <1>6 DEF UsersAreBound
<1>9. RoutesAreOwned'
  <2>1. \A u \in exact: ThreadOf[u] \in Threads \ {t}
    BY <1>1, Shapes DEF RoutesAreOwned, RouterTypeOK
  <2> QED
    BY <1>1, <1>3, <1>5, <1>6, <2>1 DEF RoutesAreOwned
<1>10. NewIsSilent'
  BY <1>1, <1>3, <1>5 DEF NewIsSilent
<1>11. EndsAreMarked'
  BY <1>1, <1>3, <1>5 DEF EndsAreMarked
<1>12. BufferInOrder'
  BY <1>1, <1>5, <1>6 DEF BufferInOrder, AllOf, Begins
<1> QED
  BY <1>1, <1>7, <1>8, <1>9, <1>10, <1>11, <1>12 DEF ChannelInOrder, StreamComplete

LEMMA StartKeeps ==
    ASSUME RouterIInv, NEW t \in Threads, NEW u \in Turns, StartTurn(t, u) PROVE RouterIInv'
<1> USE DEF RouterIInv
<1>1. /\ user[t].pc = "asked" /\ user[t].turn = None
      /\ conn = "up" /\ phase[u] = "new" /\ ThreadOf[u] = t
      /\ UNCHANGED <<exact, chan, pending, terminal, begins, conn, emitted, heard>>
  BY DEF StartTurn, routerVars
<1>2. /\ phase' \in [Turns -> {"new", "running", "ended", "gone"}] /\ phase'[u] = "running"
      /\ \A v \in Turns \ {u}: phase'[v] = phase[v]
  BY DEF StartTurn, RouterTypeOK
<1>3. /\ user' \in [Threads -> UserState]
      /\ user'[t].pc = "asked" /\ user'[t].reg = user[t].reg /\ user'[t].turn = u
      /\ \A s \in Threads \ {t}: user'[s] = user[s]
  BY <1>1 DEF StartTurn, RouterTypeOK, UserState
<1>4. emitted[u] = 0 /\ heard[u] = 0 /\ chan[u] = <<>> /\ u # None
  BY <1>1, Shapes DEF NewIsSilent
<1>5. RouterTypeOK'
  BY <1>1, <1>2, <1>3 DEF RouterTypeOK
<1>6. UsersAreBound'
  BY <1>1, <1>2, <1>3, <1>4, Shapes DEF UsersAreBound
<1>7. u \notin exact /\ \A v \in exact: ThreadOf[v] \in Threads \ {t}
  BY <1>1, Shapes DEF RoutesAreOwned, RouterTypeOK
<1>8. RoutesAreOwned'
  BY <1>1, <1>3, <1>7 DEF RoutesAreOwned
<1>9. ChannelInOrder'
  BY <1>1, <1>2, <1>4 DEF ChannelInOrder
<1>10. NewIsSilent'
  BY <1>1, <1>2 DEF NewIsSilent
<1>11. EndsAreMarked'
  <2>1. \A v \in exact \cup terminal: phase'[v] = phase[v]
    BY <1>2, <1>7 DEF RouterTypeOK, RoutesAreOwned
  <2>2. \A s \in Threads: \A p \in pending[s]: \A v \in p.ended: phase'[v] = phase[v]
    BY <1>1, <1>2, Shapes DEF EndsAreMarked
  <2> QED
    BY <1>1, <2>1, <2>2 DEF EndsAreMarked, RoutesAreOwned
<1>12. BufferInOrder'
  <2> SUFFICES ASSUME NEW s \in Threads, NEW p \in pending[s],
                      user'[s].turn # None, AllOf(p.buf, user'[s].turn)
               PROVE  /\ \A i \in 1..Len(p.buf): p.buf[i].n = i
                      /\ \A i \in 1..Len(p.buf): p.buf[i].last =>
                            i = Len(p.buf) /\ phase'[user'[s].turn] \in {"ended", "gone"}
                      /\ Len(p.buf) <= emitted[user'[s].turn]
                      /\ Len(p.buf) = emitted[user'[s].turn]
                      /\ phase'[user'[s].turn] = "ended" => user'[s].turn \in p.ended
    BY <1>1 DEF BufferInOrder, AllOf, Begins
  <2>1. CASE s = t
    <3>1. \A i \in 1..Len(p.buf): p.buf[i].turn # u /\ p.buf[i].turn = u
      BY <1>1, <1>3, <2>1, Shapes DEF NewIsSilent, AllOf
    <3>2. Len(p.buf) = 0
      BY <3>1, Shapes
    <3> QED
      BY <1>2, <1>3, <1>4, <2>1, <3>2
  <2>2. CASE s # t
    <3>1. user'[s].turn = user[s].turn /\ user[s].turn # u /\ user[s].turn \in Turns
      BY <1>1, <1>3, <2>2, Shapes DEF UsersAreBound
    <3>2. Begins(p, user[s].turn) /\ phase'[user[s].turn] = phase[user[s].turn]
      BY <1>2, <3>1 DEF BufferInOrder
    <3> QED
      BY <1>1, <3>1, <3>2 DEF Begins
  <2> QED
    BY <2>1, <2>2
<1> QED
  BY <1>1, <1>5, <1>6, <1>8, <1>9, <1>10, <1>11, <1>12 DEF StreamComplete

\* What is known of the route that Promote takes.
LEMMA Promoted ==
    ASSUME RouterIInv, NEW t \in Threads, Promote(t)
    PROVE  /\ user[t].turn \in Turns /\ user[t].turn # None /\ ThreadOf[user[t].turn] = t
           /\ heard[user[t].turn] = 0 /\ user[t].turn \notin exact
           /\ \E p \in pending[t]:
                /\ AllOf(p.buf, user[t].turn) /\ Begins(p, user[t].turn) /\ Len(p.buf) <= RouteCapacity
                /\ chan' = [chan EXCEPT ![user[t].turn] = p.buf]
                /\ exact' = exact \cup {user[t].turn}
                /\ terminal' = IF user[t].turn \in p.ended THEN terminal \cup {user[t].turn}
                                                           ELSE terminal \ {user[t].turn}
<1> USE DEF RouterIInv
<1>1. user[t].pc = "asked" /\ user[t].turn # None /\ user[t].turn \in Turns
  BY Shapes DEF Promote
<1>2. ThreadOf[user[t].turn] = t /\ heard[user[t].turn] = 0 /\ user[t].turn \notin exact
  BY <1>1 DEF UsersAreBound, RoutesAreOwned
<1>3. PICK p \in MyPending(t):
        /\ chan' = [chan EXCEPT ![user[t].turn] = p.buf]
        /\ exact' = exact \cup {user[t].turn}
        /\ terminal' = IF user[t].turn \in p.ended THEN terminal \cup {user[t].turn}
                                                   ELSE terminal \ {user[t].turn}
  BY DEF Promote
<1>4. p \in pending[t] /\ pending[t] = {p}
  BY DEF MyPending, RoutesAreOwned
<1>5. AllOf(p.buf, user[t].turn) /\ Len(p.buf) <= RouteCapacity
  BY <1>4 DEF Promote, CanPromote, MyPending
<1>6. Begins(p, user[t].turn)
  BY <1>1, <1>4, <1>5 DEF BufferInOrder
<1> QED
  BY <1>1, <1>2, <1>3, <1>4, <1>5, <1>6

LEMMA PromoteKeeps == ASSUME RouterIInv, NEW t \in Threads, Promote(t) PROVE RouterIInv'
<1> USE DEF RouterIInv
<1> DEFINE u == user[t].turn
<1>1. u \in Turns /\ u # None /\ ThreadOf[u] = t /\ heard[u] = 0 /\ u \notin exact /\ phase[u] # "new"
  BY Promoted DEF UsersAreBound
<1>2. PICK p \in pending[t]:
        /\ AllOf(p.buf, u) /\ Begins(p, u) /\ Len(p.buf) <= RouteCapacity
        /\ chan' = [chan EXCEPT ![u] = p.buf]
        /\ exact' = exact \cup {u}
        /\ terminal' = IF u \in p.ended THEN terminal \cup {u} ELSE terminal \ {u}
  BY Promoted
<1> HIDE DEF u
<1>3. /\ user[t].pc = "asked" /\ u = user[t].turn
      /\ pending' = [pending EXCEPT ![t] = {}]
      /\ user' = [user EXCEPT ![t].pc = "open"]
      /\ UNCHANGED <<begins, conn, phase, emitted, heard>>
  BY DEF Promote, u
<1>4. p.buf \in Seq(Note) /\ Len(p.buf) \in Nat /\ DOMAIN p.buf = 1..Len(p.buf)
  BY Shapes
<1>5. /\ chan' \in [Turns -> Seq(Note)] /\ chan'[u] = p.buf
      /\ \A v \in Turns \ {u}: chan'[v] = chan[v]
  BY <1>1, <1>2, <1>4 DEF RouterTypeOK
<1>6. /\ pending' \in [Threads -> SUBSET PendingRoute] /\ pending'[t] = {}
      /\ \A s \in Threads \ {t}: pending'[s] = pending[s]
  BY <1>3 DEF RouterTypeOK
<1>7. /\ user' \in [Threads -> UserState]
      /\ user'[t].pc = "open" /\ user'[t].reg = user[t].reg /\ user'[t].turn = u
      /\ \A s \in Threads \ {t}: user'[s] = user[s]
  BY <1>3 DEF RouterTypeOK, UserState
<1>8. conn # "down"
  BY <1>1, <1>3 DEF RoutesAreOwned
<1>9. RouterTypeOK'
  <2>1. \A v \in Turns: Len(chan'[v]) <= RouteCapacity
    BY <1>2, <1>5 DEF RouterTypeOK
  <2>2. exact' \subseteq Turns /\ terminal' \subseteq Turns
    BY <1>1, <1>2 DEF RouterTypeOK
  <2>3. \A s \in Threads: \A q \in pending'[s]: Len(q.buf) <= PendingCapacity
    BY <1>6 DEF RouterTypeOK
  <2> QED
    BY <1>3, <1>5, <1>6, <1>7, <2>1, <2>2, <2>3 DEF RouterTypeOK
<1>10. UsersAreBound'
  BY <1>1, <1>3, <1>7 DEF UsersAreBound
<1>11. RoutesAreOwned'
  <2>1. \A v \in exact: ThreadOf[v] \in Threads \ {t}
    BY <1>3, Shapes DEF RoutesAreOwned, RouterTypeOK
  <2>2. terminal' \subseteq exact'
    BY <1>2 DEF RoutesAreOwned
  <2> QED
    BY <1>1, <1>2, <1>3, <1>6, <1>7, <1>8, <2>1, <2>2 DEF RoutesAreOwned
<1>12. ChannelInOrder'
  <2> SUFFICES ASSUME NEW v \in Turns, NEW i \in DOMAIN chan'[v]
               PROVE  /\ chan'[v][i].turn = v /\ chan'[v][i].n = heard[v] + i
                      /\ chan'[v][i].last => i = Len(chan'[v]) /\ phase[v] \in {"ended", "gone"}
    BY <1>3 DEF ChannelInOrder
  <2>1. CASE v = u
    BY <1>1, <1>2, <1>4, <1>5, <2>1 DEF AllOf, Begins
  <2>2. CASE v # u
    BY <1>5, <2>2 DEF ChannelInOrder
  <2> QED
    BY <2>1, <2>2
<1>13. StreamComplete'
  <2> SUFFICES ASSUME NEW v \in exact', conn # "broken"
               PROVE  heard[v] + Len(chan'[v]) = emitted[v]
    BY <1>3 DEF StreamComplete
  <2>1. CASE v = u
    BY <1>1, <1>2, <1>4, <1>5, <2>1 DEF Begins
  <2>2. CASE v # u
    BY <1>2, <1>5, <2>2 DEF StreamComplete, RouterTypeOK
  <2> QED
    BY <2>1, <2>2
<1>14. NewIsSilent'
  BY <1>1, <1>3, <1>5, <1>6 DEF NewIsSilent
<1>15. EndsAreMarked'
  <2>1. \A v \in exact': conn # "broken" /\ phase[v] = "ended" => v \in terminal'
    BY <1>2 DEF EndsAreMarked, Begins
  <2>2. \A v \in terminal': phase[v] \in {"ended", "gone"}
    BY <1>2 DEF EndsAreMarked
  <2> QED
    BY <1>3, <1>6, <2>1, <2>2 DEF EndsAreMarked
<1>16. BufferInOrder'
  BY <1>3, <1>6, <1>7 DEF BufferInOrder, AllOf, Begins
<1> QED
  BY <1>9, <1>10, <1>11, <1>12, <1>13, <1>14, <1>15, <1>16

LEMMA CancelKeeps == ASSUME RouterIInv, NEW t \in Threads, CancelPending(t) PROVE RouterIInv'
<1> USE DEF RouterIInv
<1>1. /\ user[t].pc = "failed"
      /\ pending' = [pending EXCEPT ![t] = @ \ MyPending(t)]
      /\ user' = [user EXCEPT ![t] = Idle]
      /\ UNCHANGED <<exact, chan, terminal, begins, conn, phase, emitted, heard>>
  BY DEF CancelPending
<1>2. MyPending(t) = pending[t]
  BY DEF MyPending, RoutesAreOwned
<1>3. /\ pending' \in [Threads -> SUBSET PendingRoute] /\ pending'[t] = {}
      /\ \A s \in Threads \ {t}: pending'[s] = pending[s]
  BY <1>1, <1>2 DEF RouterTypeOK
<1>4. Idle \in UserState
  BY DEF Idle, UserState
<1>5. /\ user' \in [Threads -> UserState] /\ user'[t].pc = "idle" /\ user'[t].turn = None
      /\ \A s \in Threads \ {t}: user'[s] = user[s]
  BY <1>1, <1>4 DEF RouterTypeOK, Idle
<1>6. RouterTypeOK'
  <2>1. \A s \in Threads: \A p \in pending'[s]: Len(p.buf) <= PendingCapacity
    BY <1>3 DEF RouterTypeOK
  <2> QED
    BY <1>1, <1>3, <1>5, <2>1 DEF RouterTypeOK
<1>7. UsersAreBound'
  BY <1>1, <1>5 DEF UsersAreBound
<1>8. RoutesAreOwned'
  <2>1. \A u \in exact: ThreadOf[u] \in Threads \ {t}
    BY <1>1, Shapes DEF RoutesAreOwned, RouterTypeOK
  <2> QED
    BY <1>1, <1>3, <1>5, <2>1 DEF RoutesAreOwned
<1>9. NewIsSilent' /\ EndsAreMarked'
  BY <1>1, <1>3 DEF NewIsSilent, EndsAreMarked
<1>10. BufferInOrder'
  BY <1>1, <1>3, <1>5 DEF BufferInOrder, AllOf, Begins
<1> QED
  BY <1>1, <1>6, <1>7, <1>8, <1>9, <1>10 DEF ChannelInOrder, StreamComplete

\* The first element of a channel is received.
LEMMA Received ==
    ASSUME RouterIInv, NEW t \in Threads, Receive(t)
    PROVE  /\ user[t].pc = "open" /\ user[t].turn \in Turns
           /\ LET u == user[t].turn IN
                /\ chan' = [chan EXCEPT ![u] = Tail(@)]
                /\ heard' = [heard EXCEPT ![u] = @ + 1]
                /\ Tail(chan[u]) \in Seq(Note) /\ Len(Tail(chan[u])) = Len(chan[u]) - 1
                /\ Len(chan[u]) # 0
                /\ \A i \in 1..Len(Tail(chan[u])): Tail(chan[u])[i] = chan[u][i + 1]
           /\ UNCHANGED <<exact, pending, terminal, begins, conn, user, phase, emitted>>
<1> USE DEF RouterIInv
<1> DEFINE u == user[t].turn
<1>1. u \in Turns /\ user[t].pc = "open"
  BY Shapes DEF Receive, UsersAreBound
<1>2. chan[u] \in Seq(Note) /\ chan[u] # <<>>
  BY <1>1, Shapes DEF Receive
<1>3. /\ Tail(chan[u]) \in Seq(Note) /\ Len(Tail(chan[u])) = Len(chan[u]) - 1 /\ Len(chan[u]) # 0
      /\ \A i \in 1..Len(Tail(chan[u])): Tail(chan[u])[i] = chan[u][i + 1]
      /\ Head(chan[u]) = chan[u][1] /\ 1 \in DOMAIN chan[u]
  BY <1>2
<1>4. Head(chan[u]).n = heard[u] + 1
  BY <1>1, <1>3 DEF ChannelInOrder
<1> QED
  BY <1>1, <1>3, <1>4 DEF Receive

LEMMA ReceiveKeeps == ASSUME RouterIInv, NEW t \in Threads, Receive(t) PROVE RouterIInv'
<1> USE DEF RouterIInv
<1> DEFINE u == user[t].turn
<1>1. /\ user[t].pc = "open" /\ u \in Turns
      /\ chan' = [chan EXCEPT ![u] = Tail(@)]
      /\ heard' = [heard EXCEPT ![u] = @ + 1]
      /\ Tail(chan[u]) \in Seq(Note) /\ Len(Tail(chan[u])) = Len(chan[u]) - 1
      /\ Len(chan[u]) # 0
      /\ \A i \in 1..Len(Tail(chan[u])): Tail(chan[u])[i] = chan[u][i + 1]
      /\ UNCHANGED <<exact, pending, terminal, begins, conn, user, phase, emitted>>
  BY Received
<1>2. phase[u] # "new" /\ ThreadOf[u] = t
  BY <1>1, Shapes DEF UsersAreBound
<1> HIDE DEF u
<1>3. /\ Len(chan[u]) \in Nat /\ heard[u] \in Nat /\ DOMAIN chan[u] = 1..Len(chan[u])
      /\ emitted[u] \in Nat
  BY <1>1, Shapes
<1>4. /\ chan' \in [Turns -> Seq(Note)] /\ chan'[u] = Tail(chan[u])
      /\ heard' \in [Turns -> Nat] /\ heard'[u] = heard[u] + 1
      /\ \A v \in Turns \ {u}: chan'[v] = chan[v] /\ heard'[v] = heard[v]
  BY <1>1, <1>3 DEF RouterTypeOK
<1>5. RouterTypeOK'
  <2>1. Len(chan'[u]) <= RouteCapacity
    BY <1>1, <1>3, <1>4, RouterAssumption DEF RouterTypeOK
  <2>2. \A v \in Turns: Len(chan'[v]) <= RouteCapacity
    BY <1>4, <2>1 DEF RouterTypeOK
  <2> QED
    BY <1>1, <1>4, <2>2 DEF RouterTypeOK
<1>6. UsersAreBound'
  <2>1. \A s \in Threads: user[s].pc # "open" /\ user[s].turn # None => user[s].turn \in Turns \ {u}
    BY <1>1, <1>2, Shapes DEF UsersAreBound
  <2> QED
    BY <1>1, <1>4, <2>1 DEF UsersAreBound
<1>7. ChannelInOrder'
  <2> SUFFICES ASSUME NEW v \in Turns, NEW i \in DOMAIN chan'[v]
               PROVE  /\ chan'[v][i].turn = v /\ chan'[v][i].n = heard'[v] + i
                      /\ chan'[v][i].last => i = Len(chan'[v]) /\ phase[v] \in {"ended", "gone"}
    BY <1>1 DEF ChannelInOrder
  <2>1. CASE v = u
    <3>1. i \in 1..Len(Tail(chan[u])) /\ i + 1 \in DOMAIN chan[u] /\ i \in Nat
      BY <1>1, <1>3, <1>4, <2>1
    <3>2. /\ chan[u][i + 1].turn = u /\ chan[u][i + 1].n = heard[u] + (i + 1)
          /\ chan[u][i + 1].last => i + 1 = Len(chan[u]) /\ phase[u] \in {"ended", "gone"}
      BY <1>1, <3>1 DEF ChannelInOrder
    <3>3. heard[u] + (i + 1) = (heard[u] + 1) + i
      <4>1. \A a, b \in Nat: a + (b + 1) = (a + 1) + b
        OBVIOUS
      <4> QED
        BY <1>3, <3>1, <4>1
    <3>4. i + 1 = Len(chan[u]) => i = Len(Tail(chan[u]))
      BY <1>1, <1>3, <3>1
    <3> QED
      BY <1>1, <1>4, <2>1, <3>1, <3>2, <3>3, <3>4
  <2>2. CASE v # u
    BY <1>4, <2>2 DEF ChannelInOrder
  <2> QED
    BY <2>1, <2>2
<1>8. StreamComplete'
  <2>1. heard'[u] + Len(chan'[u]) = heard[u] + Len(chan[u])
    BY <1>1, <1>3, <1>4
  <2> QED
    BY <1>1, <1>4, <2>1 DEF StreamComplete, RouterTypeOK
<1>9. NewIsSilent'
  BY <1>1, <1>2, <1>4 DEF NewIsSilent
<1> QED
  BY <1>1, <1>5, <1>6, <1>7, <1>8, <1>9 DEF RoutesAreOwned, EndsAreMarked, BufferInOrder, AllOf, Begins

LEMMA UnregisterKeeps == ASSUME RouterIInv, NEW t \in Threads, Unregister(t) PROVE RouterIInv'
<1> USE DEF RouterIInv
<1> DEFINE u == user[t].turn
<1>1. /\ user[t].pc = "open" /\ u \in Turns /\ ThreadOf[u] = t /\ u = user[t].turn
      /\ exact' = exact \ {u} /\ terminal' = terminal \ {u}
      /\ chan' = [chan EXCEPT ![u] = <<>>]
      /\ user' = [user EXCEPT ![t] = Idle]
      /\ UNCHANGED <<pending, begins, conn, phase, emitted, heard>>
  BY Shapes DEF Unregister, UsersAreBound
<1> HIDE DEF u
<1>2. <<>> \in Seq(Note) /\ Len(<<>>) = 0 /\ DOMAIN <<>> = {} /\ RouteCapacity >= 0
  BY RouterAssumption
<1>3. /\ chan' \in [Turns -> Seq(Note)] /\ chan'[u] = <<>>
      /\ \A v \in Turns \ {u}: chan'[v] = chan[v]
  BY <1>1, <1>2 DEF RouterTypeOK
<1>4. Idle \in UserState
  BY DEF Idle, UserState
<1>5. /\ user' \in [Threads -> UserState] /\ user'[t].pc = "idle" /\ user'[t].turn = None
      /\ \A s \in Threads \ {t}: user'[s] = user[s]
  BY <1>1, <1>4 DEF RouterTypeOK, Idle
<1>6. pending[t] = {}
  BY <1>1 DEF RoutesAreOwned
<1>7. RouterTypeOK'
  <2>1. \A v \in Turns: Len(chan'[v]) <= RouteCapacity
    BY <1>2, <1>3 DEF RouterTypeOK
  <2>2. exact' \subseteq Turns /\ terminal' \subseteq Turns
    BY <1>1 DEF RouterTypeOK
  <2> QED
    BY <1>1, <1>3, <1>5, <2>1, <2>2 DEF RouterTypeOK
<1>8. UsersAreBound'
  BY <1>1, <1>5 DEF UsersAreBound
<1>9. RoutesAreOwned'
  <2>1. \A v \in exact': ThreadOf[v] \in Threads \ {t}
    BY <1>1, Shapes DEF RoutesAreOwned, RouterTypeOK
  <2> QED
    BY <1>1, <1>5, <1>6, <2>1 DEF RoutesAreOwned
<1>10. ChannelInOrder'
  BY <1>1, <1>2, <1>3 DEF ChannelInOrder
<1>11. StreamComplete'
  BY <1>1, <1>3 DEF StreamComplete, RouterTypeOK
<1>12. NewIsSilent'
  BY <1>1, <1>3 DEF NewIsSilent
<1>13. EndsAreMarked'
  BY <1>1 DEF EndsAreMarked
<1>14. BufferInOrder'
  BY <1>1, <1>5, <1>6 DEF BufferInOrder, AllOf, Begins
<1> QED
  BY <1>7, <1>8, <1>9, <1>10, <1>11, <1>12, <1>13, <1>14

-----------------------------------------------------------------------------
(* The reader *)

LEMMA BreakKeeps == ASSUME RouterIInv, Break PROVE RouterIInv'
BY DEF RouterIInv, Break, routerVars, RouterTypeOK, ChannelInOrder, StreamComplete, UsersAreBound,
   RoutesAreOwned, NewIsSilent, EndsAreMarked, BufferInOrder, AllOf, Begins

LEMMA FailAllKeeps == ASSUME RouterIInv, FailAllRoutes PROVE RouterIInv'
<1> USE DEF RouterIInv
<1>1. /\ exact' = {} /\ terminal' = {} /\ conn' = "down"
      /\ \A t \in Threads: pending'[t] = {}
      /\ pending' \in [Threads -> SUBSET PendingRoute]
      /\ UNCHANGED <<chan, begins, user, phase, emitted, heard>>
  BY DEF FailAllRoutes
<1>2. RouterTypeOK'
  BY <1>1 DEF RouterTypeOK
<1> QED
  BY <1>1, <1>2 DEF ChannelInOrder, StreamComplete, UsersAreBound, RoutesAreOwned, NewIsSilent,
     EndsAreMarked, BufferInOrder

LEMMA ReconnectKeeps == ASSUME RouterIInv, Reconnect PROVE RouterIInv'
<1> USE DEF RouterIInv
<1>1. /\ conn = "down" /\ conn' = "up" /\ exact = {}
      /\ \A t \in Threads: pending[t] # {} => user[t].turn = None
      /\ UNCHANGED <<exact, chan, pending, terminal, begins, user, emitted, heard>>
  BY DEF Reconnect, routerVars, RoutesAreOwned
<1>2. /\ phase' \in [Turns -> {"new", "running", "ended", "gone"}]
      /\ \A u \in Turns: phase'[u] = IF phase[u] = "new" THEN "new" ELSE "gone"
  BY DEF Reconnect
<1>3. RouterTypeOK'
  BY <1>1, <1>2 DEF RouterTypeOK
<1>4. UsersAreBound'
  BY <1>1, <1>2, Shapes DEF UsersAreBound
<1>5. ChannelInOrder'
  BY <1>1, <1>2 DEF ChannelInOrder
<1>6. EndsAreMarked'
  <2>1. terminal = {}
    BY <1>1 DEF RoutesAreOwned
  <2>2. \A t \in Threads: \A p \in pending[t]: \A u \in p.ended: u \in Turns /\ phase'[u] = "gone"
    BY <1>2, Shapes DEF EndsAreMarked
  <2> QED
    BY <1>1, <2>1, <2>2 DEF EndsAreMarked
<1>7. NewIsSilent' /\ BufferInOrder'
  BY <1>1, <1>2 DEF NewIsSilent, BufferInOrder
<1> QED
  BY <1>1, <1>3, <1>4, <1>5, <1>6, <1>7 DEF StreamComplete, RoutesAreOwned

\* What is known when the next notification of u arrives.
LEMMA Notified ==
    ASSUME RouterIInv, NEW u \in Turns, NEW last \in BOOLEAN, Notify(u, last)
    PROVE  /\ conn = "up" /\ phase[u] = "running" /\ UNCHANGED <<user, heard>>
           /\ emitted' \in [Turns -> Nat] /\ emitted'[u] = emitted[u] + 1
           /\ phase' \in [Turns -> {"new", "running", "ended", "gone"}]
           /\ phase'[u] = IF last THEN "ended" ELSE "running"
           /\ \A v \in Turns \ {u}: emitted'[v] = emitted[v] /\ phase'[v] = phase[v]
           /\ \A v \in Turns: phase[v] \in {"ended", "gone"} => phase'[v] \in {"ended", "gone"}
           /\ \A v \in Turns: phase[v] = "new" <=> phase'[v] = "new"
           /\ u \notin terminal
           /\ \A t \in Threads: \A p \in pending[t]: u \notin p.ended
           /\ \A i \in 1..Len(chan[u]): chan[u][i].last = FALSE
           /\ UsersAreBound'
<1> USE DEF RouterIInv
<1>1. /\ conn = "up" /\ phase[u] = "running" /\ UNCHANGED <<user, heard>>
      /\ emitted' = [emitted EXCEPT ![u] = @ + 1]
      /\ phase' = IF last THEN [phase EXCEPT ![u] = "ended"] ELSE phase
  BY DEF Notify
<1>2. /\ emitted' \in [Turns -> Nat] /\ emitted'[u] = emitted[u] + 1
      /\ phase' \in [Turns -> {"new", "running", "ended", "gone"}]
      /\ phase'[u] = IF last THEN "ended" ELSE "running"
      /\ \A v \in Turns \ {u}: emitted'[v] = emitted[v] /\ phase'[v] = phase[v]
  BY <1>1 DEF RouterTypeOK
<1>3. /\ u \notin terminal
      /\ \A t \in Threads: \A p \in pending[t]: u \notin p.ended
  BY <1>1 DEF EndsAreMarked
<1>4. \A i \in 1..Len(chan[u]): chan[u][i].last = FALSE
  <2>1. \A i \in 1..Len(chan[u]): chan[u][i].last \in BOOLEAN
    <3>1. \A i \in 1..Len(chan[u]): chan[u][i] \in Note
      BY Shapes
    <3>2. \A note \in Note: note.last \in BOOLEAN
      BY DEF Note
    <3> QED
      BY <3>1, <3>2
  <2> QED
    BY <1>1, <2>1, Shapes DEF ChannelInOrder
<1>5. \A v \in Turns: phase[v] \in {"ended", "gone"} => phase'[v] \in {"ended", "gone"}
  BY <1>1, <1>2
<1>6. \A v \in Turns: phase[v] = "new" <=> phase'[v] = "new"
  BY <1>1, <1>2
<1>7. UsersAreBound'
  BY <1>1, <1>6, Shapes DEF UsersAreBound
<1> QED
  BY <1>1, <1>2, <1>3, <1>4, <1>5, <1>6, <1>7

\* It finds no route, or no room.
LEMMA UnroutedKeeps ==
    ASSUME RouterIInv, NEW u \in Turns, NEW last \in BOOLEAN, Notify(u, last),
           UNCHANGED routerVars,
           \/ conn' = "broken"
           \/ conn' = conn /\ u \notin exact /\ pending[ThreadOf[u]] = {}
    PROVE  RouterIInv'
<1> USE DEF RouterIInv
<1>1. /\ conn = "up" /\ phase[u] = "running" /\ UNCHANGED <<user, heard>>
      /\ emitted' \in [Turns -> Nat] /\ emitted'[u] = emitted[u] + 1
      /\ phase' \in [Turns -> {"new", "running", "ended", "gone"}]
      /\ \A v \in Turns \ {u}: emitted'[v] = emitted[v] /\ phase'[v] = phase[v]
      /\ \A v \in Turns: phase[v] \in {"ended", "gone"} => phase'[v] \in {"ended", "gone"}
      /\ \A v \in Turns: phase[v] = "new" <=> phase'[v] = "new"
      /\ UsersAreBound'
  BY Notified
<1>2. UNCHANGED <<exact, chan, pending, terminal, begins>>
  BY DEF routerVars
<1>3. emitted[u] \in Nat /\ conn' \in {"up", "broken"}
  BY <1>1, Shapes
<1>4. RouterTypeOK'
  BY <1>1, <1>2, <1>3 DEF RouterTypeOK
<1>5. ChannelInOrder'
  BY <1>1, <1>2 DEF ChannelInOrder
<1>6. StreamComplete'
  BY <1>1, <1>2 DEF StreamComplete, RouterTypeOK
<1>7. RoutesAreOwned'
  BY <1>1, <1>2, <1>3 DEF RoutesAreOwned
<1>8. NewIsSilent'
  BY <1>1, <1>2 DEF NewIsSilent
<1>9. EndsAreMarked'
  <2>1. \A v \in terminal: phase'[v] \in {"ended", "gone"}
    BY <1>1 DEF EndsAreMarked, RouterTypeOK
  <2>2. \A t \in Threads: \A p \in pending[t]: \A v \in p.ended: phase'[v] \in {"ended", "gone"}
    BY <1>1, Shapes DEF EndsAreMarked
  <2>3. \A v \in exact: conn' # "broken" /\ phase'[v] = "ended" => v \in terminal
    BY <1>1, <1>3 DEF EndsAreMarked, RouterTypeOK
  <2> QED
    BY <1>2, <2>1, <2>2, <2>3 DEF EndsAreMarked
<1>10. BufferInOrder'
  <2> SUFFICES ASSUME NEW s \in Threads, NEW p \in pending[s],
                      user[s].turn # None, AllOf(p.buf, user[s].turn)
               PROVE  LET v == user[s].turn IN
                      /\ \A i \in 1..Len(p.buf): p.buf[i].n = i
                      /\ \A i \in 1..Len(p.buf): p.buf[i].last =>
                            i = Len(p.buf) /\ phase'[v] \in {"ended", "gone"}
                      /\ Len(p.buf) <= emitted'[v]
                      /\ conn' # "broken" =>
                            Len(p.buf) = emitted'[v] /\ (phase'[v] = "ended" => v \in p.ended)
    BY <1>1, <1>2 DEF BufferInOrder, AllOf, Begins
  <2> DEFINE v == user[s].turn
  <2>1. Begins(p, v) /\ v \in Turns /\ ThreadOf[v] = s /\ Len(p.buf) \in Nat
    BY Shapes DEF BufferInOrder, UsersAreBound
  <2> HIDE DEF v
  <2>2. CASE v = u
    <3>1. conn' = "broken"
      BY <2>1, <2>2
    <3>2. Len(p.buf) <= emitted'[v]
      BY <1>1, <1>3, <2>1, <2>2 DEF Begins
    <3> QED
      BY <1>1, <2>1, <3>1, <3>2 DEF Begins, v
  <2>3. CASE v # u
    BY <1>1, <2>1, <2>3 DEF Begins, v
  <2> QED
    BY <2>2, <2>3
<1> QED
  BY <1>1, <1>4, <1>5, <1>6, <1>7, <1>8, <1>9, <1>10

\* It is fed to the channel of its turn.
LEMMA FeedKeeps ==
    ASSUME RouterIInv, NEW u \in Turns, NEW last \in BOOLEAN, Notify(u, last),
           Feed(u, [turn |-> u, n |-> emitted[u] + 1, last |-> last])
    PROVE  RouterIInv'
<1> USE DEF RouterIInv
<1> DEFINE note == [turn |-> u, n |-> emitted[u] + 1, last |-> last]
<1>1. /\ conn = "up" /\ phase[u] = "running" /\ UNCHANGED <<user, heard>>
      /\ emitted' \in [Turns -> Nat] /\ emitted'[u] = emitted[u] + 1
      /\ phase' \in [Turns -> {"new", "running", "ended", "gone"}]
      /\ phase'[u] = IF last THEN "ended" ELSE "running"
      /\ \A v \in Turns \ {u}: emitted'[v] = emitted[v] /\ phase'[v] = phase[v]
      /\ \A v \in Turns: phase[v] \in {"ended", "gone"} => phase'[v] \in {"ended", "gone"}
      /\ \A v \in Turns: phase[v] = "new" <=> phase'[v] = "new"
      /\ UsersAreBound'
      /\ \A i \in 1..Len(chan[u]): chan[u][i].last = FALSE
  BY Notified
<1>2. /\ u \in exact /\ Len(chan[u]) < RouteCapacity
      /\ chan' = [chan EXCEPT ![u] = Append(@, note)]
      /\ terminal' = IF last THEN terminal \cup {u} ELSE terminal
      /\ UNCHANGED <<exact, pending, begins, conn>>
  BY DEF Feed
<1>3. /\ emitted[u] \in Nat /\ heard[u] \in Nat /\ chan[u] \in Seq(Note) /\ Len(chan[u]) \in Nat
      /\ DOMAIN chan[u] = 1..Len(chan[u])
  BY Shapes
<1>4. note \in Note /\ note.turn = u /\ note.n = emitted[u] + 1 /\ note.last = last
  BY <1>3 DEF Note
<1> HIDE DEF note
<1>5. /\ Append(chan[u], note) \in Seq(Note) /\ Len(Append(chan[u], note)) = Len(chan[u]) + 1
      /\ DOMAIN Append(chan[u], note) = 1..(Len(chan[u]) + 1)
      /\ \A i \in 1..Len(chan[u]): Append(chan[u], note)[i] = chan[u][i]
      /\ Append(chan[u], note)[Len(chan[u]) + 1] = note
  BY <1>3, <1>4
<1>6. /\ chan' \in [Turns -> Seq(Note)] /\ chan'[u] = Append(chan[u], note)
      /\ \A v \in Turns \ {u}: chan'[v] = chan[v]
  BY <1>2, <1>5 DEF RouterTypeOK
<1>7. heard[u] + Len(chan[u]) = emitted[u]
  BY <1>1, <1>2 DEF StreamComplete
<1>8. RouterTypeOK'
  <2>1. Len(chan'[u]) <= RouteCapacity
    BY <1>2, <1>3, <1>5, <1>6, RouterAssumption
  <2>2. \A v \in Turns: Len(chan'[v]) <= RouteCapacity
    BY <1>6, <2>1 DEF RouterTypeOK
  <2>3. terminal' \subseteq Turns
    BY <1>2 DEF RouterTypeOK
  <2> QED
    BY <1>1, <1>2, <1>6, <2>2, <2>3 DEF RouterTypeOK
<1>9. ChannelInOrder'
  <2> SUFFICES ASSUME NEW v \in Turns, NEW i \in DOMAIN chan'[v]
               PROVE  /\ chan'[v][i].turn = v /\ chan'[v][i].n = heard[v] + i
                      /\ chan'[v][i].last => i = Len(chan'[v]) /\ phase'[v] \in {"ended", "gone"}
    BY <1>1 DEF ChannelInOrder
  <2>1. CASE v = u /\ i \in 1..Len(chan[u])
    <3>1. chan'[v][i] = chan[u][i] /\ chan[u][i].last = FALSE
      BY <1>1, <1>5, <1>6, <2>1
    <3> QED
      BY <1>3, <2>1, <3>1 DEF ChannelInOrder
  <2>2. CASE v = u /\ i \notin 1..Len(chan[u])
    <3>1. i = Len(chan[u]) + 1
      BY <1>3, <1>5, <1>6, <2>2
    <3>2. chan'[v][i] = note /\ i = Len(chan'[v])
      BY <1>5, <1>6, <2>2, <3>1
    <3>3. heard[u] + i = emitted[u] + 1
      <4>1. \A a, b \in Nat: a + (b + 1) = (a + b) + 1
        OBVIOUS
      <4> QED
        BY <1>3, <1>7, <3>1, <4>1
    <3> QED
      BY <1>1, <1>4, <2>2, <3>2, <3>3
  <2>3. CASE v # u
    BY <1>1, <1>6, <2>3 DEF ChannelInOrder
  <2> QED
    BY <2>1, <2>2, <2>3
<1>10. StreamComplete'
  <2>1. heard[u] + Len(chan'[u]) = emitted'[u]
    BY <1>1, <1>3, <1>5, <1>6, <1>7
  <2> QED
    BY <1>1, <1>2, <1>6, <2>1 DEF StreamComplete, RouterTypeOK
<1>11. RoutesAreOwned'
  BY <1>1, <1>2 DEF RoutesAreOwned
<1>12. NewIsSilent'
  BY <1>1, <1>2, <1>6 DEF NewIsSilent
<1>13. EndsAreMarked'
  <2>1. \A v \in terminal': phase'[v] \in {"ended", "gone"}
    BY <1>1, <1>2 DEF EndsAreMarked, RouterTypeOK
  <2>2. \A t \in Threads: \A p \in pending[t]: \A v \in p.ended: phase'[v] \in {"ended", "gone"}
    BY <1>1, Shapes DEF EndsAreMarked
  <2>3. \A v \in exact: phase'[v] = "ended" => v \in terminal'
    BY <1>1, <1>2 DEF EndsAreMarked, RouterTypeOK
  <2> QED
    BY <1>2, <2>1, <2>2, <2>3 DEF EndsAreMarked
<1>14. BufferInOrder'
  <2> SUFFICES ASSUME NEW s \in Threads, NEW p \in pending[s],
                      user[s].turn # None, AllOf(p.buf, user[s].turn)
               PROVE  LET v == user[s].turn IN
                      /\ \A i \in 1..Len(p.buf): p.buf[i].n = i
                      /\ \A i \in 1..Len(p.buf): p.buf[i].last =>
                            i = Len(p.buf) /\ phase'[v] \in {"ended", "gone"}
                      /\ Len(p.buf) <= emitted'[v]
                      /\ Len(p.buf) = emitted'[v] /\ (phase'[v] = "ended" => v \in p.ended)
    BY <1>1, <1>2 DEF BufferInOrder, AllOf, Begins
  <2> DEFINE v == user[s].turn
  <2>1. Begins(p, v) /\ v \in Turns /\ v # u
    BY <1>2, Shapes, SMTT(30) DEF BufferInOrder, UsersAreBound, RoutesAreOwned
  <2> HIDE DEF v
  <2> QED
    BY <1>1, <2>1 DEF Begins, v
<1> QED
  BY <1>1, <1>8, <1>9, <1>10, <1>11, <1>12, <1>13, <1>14

\* A notification of u is appended to route p of its thread, which becomes q.
BufferedIn(p, q, u, note) ==
    /\ ~(note.last /\ u \in p.ended)
    /\ pending' \in [Threads -> SUBSET PendingRoute] /\ pending'[ThreadOf[u]] = {q}
    /\ \A s \in Threads \ {ThreadOf[u]}: pending'[s] = pending[s]
    /\ q.reg = p.reg /\ q.ended = IF note.last THEN p.ended \cup {u} ELSE p.ended
    /\ Len(q.buf) = Len(p.buf) + 1 /\ Len(q.buf) <= PendingCapacity
    /\ \A i \in 1..Len(p.buf): q.buf[i] = p.buf[i]
    /\ q.buf[Len(p.buf) + 1] = note
    /\ \A v: AllOf(q.buf, v) => AllOf(p.buf, v) /\ v = u

LEMMA Buffered ==
    ASSUME RouterIInv, NEW u \in Turns, NEW note \in Note, note.turn = u, Buffer(u, note)
    PROVE  \E p \in pending[ThreadOf[u]], q \in PendingRoute: BufferedIn(p, q, u, note)
<1> USE DEF RouterIInv
<1> DEFINE t == ThreadOf[u]
<1>1. t \in Threads
  BY Shapes
<1>2. PICK p \in pending[t]:
        /\ ~(note.last /\ u \in p.ended) /\ Len(p.buf) < PendingCapacity
        /\ pending' = [pending EXCEPT ![t] = {[p EXCEPT
             !.buf = Append(@, note),
             !.ended = IF note.last THEN @ \cup {u} ELSE @]}]
  BY DEF Buffer
<1> DEFINE q == [p EXCEPT !.buf = Append(@, note), !.ended = IF note.last THEN @ \cup {u} ELSE @]
<1>3. /\ p \in PendingRoute /\ p.buf \in Seq(Note) /\ Len(p.buf) \in Nat
      /\ DOMAIN p.buf = 1..Len(p.buf) /\ p.ended \in SUBSET Turns
  BY <1>1, Shapes
<1>4. /\ Append(p.buf, note) \in Seq(Note) /\ Len(Append(p.buf, note)) = Len(p.buf) + 1
      /\ DOMAIN Append(p.buf, note) = 1..(Len(p.buf) + 1)
      /\ \A i \in 1..Len(p.buf): Append(p.buf, note)[i] = p.buf[i]
      /\ Append(p.buf, note)[Len(p.buf) + 1] = note
  BY <1>3
<1>5. /\ q \in PendingRoute /\ q.reg = p.reg /\ q.buf = Append(p.buf, note)
      /\ q.ended = IF note.last THEN p.ended \cup {u} ELSE p.ended
  BY <1>3, <1>4 DEF PendingRoute
<1>6. pending' = [pending EXCEPT ![t] = {q}]
  BY <1>2
<1> HIDE DEF q, t
<1>7. /\ pending' \in [Threads -> SUBSET PendingRoute] /\ pending'[t] = {q}
      /\ \A s \in Threads \ {t}: pending'[s] = pending[s]
  BY <1>1, <1>5, <1>6 DEF RouterTypeOK
<1>8. Len(q.buf) <= PendingCapacity
  BY <1>2, <1>3, <1>4, <1>5, RouterAssumption
<1>9. ASSUME NEW v, AllOf(q.buf, v) PROVE AllOf(p.buf, v) /\ v = u
  <2>1. \A i \in 1..(Len(p.buf) + 1): q.buf[i].turn = v
    BY <1>4, <1>5, <1>9 DEF AllOf
  <2>2. Len(p.buf) + 1 \in 1..(Len(p.buf) + 1) /\ \A i \in 1..Len(p.buf): i \in 1..(Len(p.buf) + 1)
    BY <1>3
  <2> QED
    BY <1>3, <1>4, <1>5, <2>1, <2>2 DEF AllOf
<1>10. BufferedIn(p, q, u, note)
  BY <1>2, <1>4, <1>5, <1>7, <1>8, <1>9 DEF BufferedIn, t
<1> QED
  BY <1>5, <1>10 DEF t

LEMMA BufferKeeps ==
    ASSUME RouterIInv, NEW u \in Turns, NEW last \in BOOLEAN, Notify(u, last),
           Buffer(u, [turn |-> u, n |-> emitted[u] + 1, last |-> last])
    PROVE  RouterIInv'
<1> USE DEF RouterIInv
<1> DEFINE note == [turn |-> u, n |-> emitted[u] + 1, last |-> last]
           t == ThreadOf[u]
<1>1. /\ conn = "up" /\ phase[u] = "running" /\ UNCHANGED <<user, heard>>
      /\ emitted' \in [Turns -> Nat] /\ emitted'[u] = emitted[u] + 1
      /\ phase' \in [Turns -> {"new", "running", "ended", "gone"}]
      /\ phase'[u] = IF last THEN "ended" ELSE "running"
      /\ \A v \in Turns \ {u}: emitted'[v] = emitted[v] /\ phase'[v] = phase[v]
      /\ \A v \in Turns: phase[v] \in {"ended", "gone"} => phase'[v] \in {"ended", "gone"}
      /\ \A v \in Turns: phase[v] = "new" <=> phase'[v] = "new"
      /\ UsersAreBound'
  BY Notified
<1>2. u \notin exact /\ UNCHANGED <<exact, chan, terminal, begins, conn>>
  BY DEF Buffer
<1>3. t \in Threads /\ emitted[u] \in Nat
  BY Shapes
<1>4. note \in Note /\ note.turn = u /\ note.n = emitted[u] + 1 /\ note.last = last
  BY <1>3 DEF Note
<1>5. Buffer(u, note)
  OBVIOUS
<1> HIDE DEF note
<1>5a. PICK p \in pending[t], q \in PendingRoute: BufferedIn(p, q, u, note)
  BY <1>4, <1>5, Buffered
<1>6. /\ pending' \in [Threads -> SUBSET PendingRoute] /\ pending'[t] = {q}
      /\ \A s \in Threads \ {t}: pending'[s] = pending[s]
      /\ q.reg = p.reg /\ q.ended = IF last THEN p.ended \cup {u} ELSE p.ended
      /\ Len(q.buf) = Len(p.buf) + 1 /\ Len(q.buf) <= PendingCapacity
      /\ \A i \in 1..Len(p.buf): q.buf[i] = p.buf[i]
      /\ q.buf[Len(p.buf) + 1] = note
      /\ \A v: AllOf(q.buf, v) => AllOf(p.buf, v) /\ v = u
  BY <1>4, <1>5a DEF BufferedIn, t
<1> HIDE DEF t
<1>7. Len(p.buf) \in Nat /\ p.ended \in SUBSET Turns
  BY <1>3, Shapes
<1>8. RouterTypeOK'
  <2>1. \A s \in Threads: \A r \in pending'[s]: Len(r.buf) <= PendingCapacity
    BY <1>6 DEF RouterTypeOK
  <2> QED
    BY <1>1, <1>2, <1>6, <2>1 DEF RouterTypeOK
<1>9. ChannelInOrder'
  BY <1>1, <1>2 DEF ChannelInOrder
<1>10. StreamComplete'
  BY <1>1, <1>2 DEF StreamComplete, RouterTypeOK
<1>11. RoutesAreOwned'
  <2>1. user[t].pc \in {"begun", "asked", "failed"} /\ p.reg = user[t].reg
    BY <1>3, <1>6 DEF RoutesAreOwned
  <2>2. \A s \in Threads: \A r \in pending'[s]:
          /\ user[s].pc \in {"begun", "asked", "failed"}
          /\ r.reg = user[s].reg /\ pending'[s] = {r}
    BY <1>6, <2>1 DEF RoutesAreOwned
  <2> QED
    BY <1>1, <1>2, <2>2 DEF RoutesAreOwned
<1>12. NewIsSilent'
  <2> SUFFICES ASSUME NEW v \in Turns, phase[v] = "new", NEW s \in Threads, NEW r \in pending'[s],
                      NEW i \in 1..Len(r.buf)
               PROVE  r.buf[i].turn # v
    BY <1>1, <1>2 DEF NewIsSilent
  <2>1. v # u
    BY <1>1
  <2>2. CASE s = t
    <3>1. i \in 1..Len(p.buf) \/ i = Len(p.buf) + 1
      BY <1>6, <1>7, <2>2
    <3> QED
      BY <1>3, <1>4, <1>6, <2>1, <2>2, <3>1, SMTT(30) DEF NewIsSilent
  <2>3. CASE s # t
    BY <1>6, <2>3 DEF NewIsSilent
  <2> QED
    BY <2>2, <2>3
<1>13. EndsAreMarked'
  <2>1. \A v \in terminal: phase'[v] \in {"ended", "gone"}
    BY <1>1 DEF EndsAreMarked, RouterTypeOK
  <2>2. \A s \in Threads: \A r \in pending[s]: \A v \in r.ended: phase'[v] \in {"ended", "gone"}
    BY <1>1, Shapes DEF EndsAreMarked
  <2>3. \A v \in q.ended: phase'[v] \in {"ended", "gone"}
    BY <1>1, <1>3, <1>6, <2>2
  <2>4. \A s \in Threads: \A r \in pending'[s]: \A v \in r.ended: phase'[v] \in {"ended", "gone"}
    BY <1>6, <2>2, <2>3
  <2>5. \A v \in exact: phase'[v] = "ended" => v \in terminal
    BY <1>1, <1>2 DEF EndsAreMarked, RouterTypeOK
  <2> QED
    BY <1>2, <2>1, <2>4, <2>5 DEF EndsAreMarked
<1>14. BufferInOrder'
  <2> SUFFICES ASSUME NEW s \in Threads, NEW r \in pending'[s],
                      user[s].turn # None, AllOf(r.buf, user[s].turn)
               PROVE  LET v == user[s].turn IN
                      /\ \A i \in 1..Len(r.buf): r.buf[i].n = i
                      /\ \A i \in 1..Len(r.buf): r.buf[i].last =>
                            i = Len(r.buf) /\ phase'[v] \in {"ended", "gone"}
                      /\ Len(r.buf) <= emitted'[v]
                      /\ Len(r.buf) = emitted'[v] /\ (phase'[v] = "ended" => v \in r.ended)
    BY <1>1, <1>2 DEF BufferInOrder, AllOf, Begins
  <2> DEFINE v == user[s].turn
  <2>1. v \in Turns /\ v # None /\ ThreadOf[v] = s /\ AllOf(r.buf, v)
    BY Shapes DEF UsersAreBound
  <2> HIDE DEF v
  <2>2. CASE s = t
    <3>1. r = q /\ v = u /\ AllOf(p.buf, v)
      BY <1>6, <2>1, <2>2
    <3>2. Begins(p, u)
      BY <1>3, <1>6, <2>1, <2>2, <3>1 DEF BufferInOrder, v
    <3>3. /\ \A i \in 1..Len(p.buf): p.buf[i].n = i
          /\ \A i \in 1..Len(p.buf): p.buf[i].last => FALSE
          /\ Len(p.buf) = emitted[u]
      BY <1>1, <3>2 DEF Begins
    <3>4. \A i \in 1..Len(q.buf): i \in 1..Len(p.buf) \/ (i = Len(p.buf) + 1 /\ i = Len(q.buf))
      BY <1>6, <1>7
    <3>5. \A i \in 1..Len(q.buf): /\ q.buf[i].n = i
                                  /\ q.buf[i].last => i = Len(q.buf) /\ last
      BY <1>4, <1>6, <3>3, <3>4
    <3>6. Len(q.buf) = emitted'[u] /\ Len(q.buf) <= emitted'[u]
      BY <1>1, <1>3, <1>6, <3>3
    <3>7. phase'[u] = "ended" => u \in q.ended
      BY <1>1, <1>6
    <3> QED
      BY <1>1, <3>1, <3>5, <3>6, <3>7 DEF v
  <2>3. CASE s # t
    <3>1. r \in pending[s] /\ v # u
      BY <1>6, <2>1, <2>3 DEF t
    <3>2. Begins(r, v)
      BY <2>1, <3>1 DEF BufferInOrder, v
    <3> QED
      BY <1>1, <2>1, <3>1, <3>2 DEF Begins, v
  <2> QED
    BY <2>2, <2>3
<1> QED
  BY <1>1, <1>8, <1>9, <1>10, <1>11, <1>12, <1>13, <1>14

\* Which of these it is.
LEMMA NotifyCases ==
    ASSUME RouterIInv, NEW u \in Turns, NEW last \in BOOLEAN, Notify(u, last)
    PROVE  \/ Feed(u, [turn |-> u, n |-> emitted[u] + 1, last |-> last])
           \/ Buffer(u, [turn |-> u, n |-> emitted[u] + 1, last |-> last])
           \/ UNCHANGED routerVars /\ conn' = "broken"
           \/ UNCHANGED routerVars /\ conn' = conn /\ u \notin exact /\ pending[ThreadOf[u]] = {}
<1> DEFINE note == [turn |-> u, n |-> emitted[u] + 1, last |-> last]
<1>1. Route(u, note)
  BY DEF Notify
<1>2. u \notin terminal /\ \A p \in pending[ThreadOf[u]]: u \notin p.ended
  BY Notified, Shapes DEF RouterIInv
<1> HIDE DEF note
<1>3. CASE Discard(u, note)
  <2>1. u \notin exact /\ pending[ThreadOf[u]] = {}
    BY <1>2, <1>3 DEF Discard
  <2> QED
    BY <1>3, <2>1 DEF Discard
<1>4. CASE Overflow(u, note)
  BY <1>4 DEF Overflow
<1>5. CASE Feed(u, note) \/ Buffer(u, note)
  BY <1>5 DEF note
<1> QED
  BY <1>1, <1>3, <1>4, <1>5 DEF Route

LEMMA NotifyKeeps ==
    ASSUME RouterIInv, NEW u \in Turns, NEW last \in BOOLEAN, Notify(u, last) PROVE RouterIInv'
BY NotifyCases, FeedKeeps, BufferKeeps, UnroutedKeeps

\* A repeated end of a turn is suppressed, ends the connection, or is buffered for
\* another turn, which refuses the buffer.
LEMMA NotifyAgainCases ==
    ASSUME RouterIInv, NEW u \in Turns, NotifyAgain(u)
    PROVE  /\ conn = "up" /\ UNCHANGED <<user, phase, emitted, heard>>
           /\ \/ UNCHANGED routerVars /\ conn' \in {conn, "broken"}
              \/ Buffer(u, [turn |-> u, n |-> emitted[u], last |-> TRUE])
<1> DEFINE note == [turn |-> u, n |-> emitted[u], last |-> TRUE]
<1>1. /\ Route(u, note) /\ conn = "up" /\ phase[u] = "ended"
      /\ UNCHANGED <<user, phase, emitted, heard>>
  BY DEF NotifyAgain
<1>2. u \in exact => Suppressed(u, note)
  BY <1>1 DEF RouterIInv, EndsAreMarked, Suppressed
<1>3. note.last = TRUE
  OBVIOUS
<1> HIDE DEF note
<1>4. CASE Discard(u, note)
  BY <1>1, <1>4 DEF Discard
<1>5. CASE Overflow(u, note)
  BY <1>1, <1>5 DEF Overflow
<1>6. CASE ~Suppressed(u, note) /\ Feed(u, note)
  BY <1>2, <1>6 DEF Feed
<1>7. CASE Buffer(u, note)
  BY <1>1, <1>7 DEF note
<1> QED
  BY <1>1, <1>4, <1>5, <1>6, <1>7 DEF Route

LEMMA NotifyAgainKeeps == ASSUME RouterIInv, NEW u \in Turns, NotifyAgain(u) PROVE RouterIInv'
<1> USE DEF RouterIInv
<1> DEFINE note == [turn |-> u, n |-> emitted[u], last |-> TRUE]
           t == ThreadOf[u]
<1>1. conn = "up" /\ phase[u] = "ended" /\ UNCHANGED <<user, phase, emitted, heard>>
  BY DEF NotifyAgain
<1>2. CASE UNCHANGED routerVars /\ conn' \in {conn, "broken"}
  BY <1>1, <1>2 DEF routerVars, RouterTypeOK, ChannelInOrder, StreamComplete, UsersAreBound,
     RoutesAreOwned, NewIsSilent, EndsAreMarked, BufferInOrder, AllOf, Begins
<1>3. CASE Buffer(u, note)
  <2>1. u \notin exact /\ UNCHANGED <<exact, chan, terminal, begins, conn>>
    BY <1>3 DEF Buffer
  <2>2. t \in Threads /\ note \in Note /\ note.turn = u /\ note.last = TRUE
    BY Shapes DEF Note
  <2> HIDE DEF note
  <2>2a. PICK p \in pending[t], q \in PendingRoute: BufferedIn(p, q, u, note)
    BY <1>3, <2>2, Buffered
  <2>3. /\ u \notin p.ended
        /\ pending' \in [Threads -> SUBSET PendingRoute] /\ pending'[t] = {q}
        /\ \A s \in Threads \ {t}: pending'[s] = pending[s]
        /\ q.reg = p.reg /\ q.ended = p.ended \cup {u}
        /\ Len(q.buf) = Len(p.buf) + 1 /\ Len(q.buf) <= PendingCapacity
        /\ \A i \in 1..Len(p.buf): q.buf[i] = p.buf[i]
        /\ q.buf[Len(p.buf) + 1] = note
        /\ \A v: AllOf(q.buf, v) => AllOf(p.buf, v) /\ v = u
    BY <2>2, <2>2a DEF BufferedIn, t
  <2> HIDE DEF t
  <2>4. Len(p.buf) \in Nat
    BY <2>2, Shapes
  <2>5. RouterTypeOK'
    <3>1. \A s \in Threads: \A r \in pending'[s]: Len(r.buf) <= PendingCapacity
      BY <2>3 DEF RouterTypeOK
    <3> QED
      BY <1>1, <2>1, <2>3, <3>1 DEF RouterTypeOK
  <2>6. RoutesAreOwned'
    <3>1. user[t].pc \in {"begun", "asked", "failed"} /\ p.reg = user[t].reg
      BY <2>2, <2>3 DEF RoutesAreOwned
    <3>2. \A s \in Threads: \A r \in pending'[s]:
            /\ user[s].pc \in {"begun", "asked", "failed"}
            /\ r.reg = user[s].reg /\ pending'[s] = {r}
      BY <2>3, <3>1 DEF RoutesAreOwned
    <3> QED
      BY <1>1, <2>1, <3>2 DEF RoutesAreOwned
  <2>7. NewIsSilent'
    <3> SUFFICES ASSUME NEW v \in Turns, phase[v] = "new", NEW s \in Threads, NEW r \in pending'[s],
                        NEW i \in 1..Len(r.buf)
                 PROVE  r.buf[i].turn # v
      BY <1>1, <2>1 DEF NewIsSilent
    <3>1. CASE s = t
      <4>1. i \in 1..Len(p.buf) \/ i = Len(p.buf) + 1
        BY <2>3, <2>4, <3>1
      <4> QED
        BY <1>1, <2>2, <2>3, <3>1, <4>1 DEF NewIsSilent
    <3>2. CASE s # t
      BY <2>3, <3>2 DEF NewIsSilent
    <3> QED
      BY <3>1, <3>2
  <2>8. EndsAreMarked'
    <3>1. \A v \in q.ended: phase[v] \in {"ended", "gone"}
      BY <1>1, <2>2, <2>3 DEF EndsAreMarked
    <3> QED
      BY <1>1, <2>1, <2>3, <3>1 DEF EndsAreMarked
  <2>9. BufferInOrder'
    <3> SUFFICES ASSUME NEW s \in Threads, NEW r \in pending'[s],
                        user[s].turn # None, AllOf(r.buf, user[s].turn)
                 PROVE  Begins(r, user[s].turn)
      BY <1>1, <2>1 DEF BufferInOrder, AllOf, Begins
    <3>1. CASE s = t
      <4>1. user[s].turn = u /\ AllOf(p.buf, u)
        BY <2>3, <3>1
      <4>2. Begins(p, u)
        BY <2>2, <2>3, <3>1, <4>1 DEF BufferInOrder
      <4> QED
        BY <1>1, <2>3, <4>2 DEF Begins
    <3>2. CASE s # t
      BY <2>3, <3>2 DEF BufferInOrder
    <3> QED
      BY <3>1, <3>2
  <2> QED
    BY <1>1, <2>1, <2>5, <2>6, <2>7, <2>8, <2>9 DEF ChannelInOrder, StreamComplete, UsersAreBound
<1> QED
  BY <1>2, <1>3, NotifyAgainCases

-----------------------------------------------------------------------------
LEMMA RouterStep == ASSUME RouterIInv, [RouterNext]_vars PROVE RouterIInv'
<1>1. ASSUME NEW t \in Threads, UserStep(t) PROVE RouterIInv'
  BY <1>1, BeginKeeps, UserMoves, StartKeeps, PromoteKeeps, CancelKeeps, ReceiveKeeps, UnregisterKeeps
     DEF UserStep
<1>2. CASE ReaderStep
  BY <1>2, NotifyKeeps, NotifyAgainKeeps, BreakKeeps, FailAllKeeps, ReconnectKeeps DEF ReaderStep
<1>3. CASE UNCHANGED vars
  BY <1>3 DEF vars, RouterIInv, RouterTypeOK, ChannelInOrder, StreamComplete, UsersAreBound,
     RoutesAreOwned, NewIsSilent, EndsAreMarked, BufferInOrder, AllOf, Begins
<1> QED
  BY <1>1, <1>2, <1>3 DEF RouterNext

\* The guarantees of the router hold in every state, for any threads, turns and
\* capacities: a channel continues what its collector has received, an open route
\* has missed nothing, and an idle thread has no entry in any table.
THEOREM RouterSafe == RouterSpec => []RouterInv
<1>1. RouterSpec => []RouterIInv
  BY RouterInitInv, RouterStep, PTL DEF RouterSpec
<1>2. RouterIInv => RouterInv
  BY RouterInvHolds
<1> QED
  BY <1>1, <1>2, PTL

-----------------------------------------------------------------------------
(* The refinement of TurnStream *)

Fed == [u \in Turns |-> heard[u] + Len(chan[u])]
Up == conn # "broken"

LEMMA StreamUnchanged ==
    ASSUME UNCHANGED <<exact, chan, emitted, heard>>, Up' <=> Up
    PROVE  UNCHANGED Stream!streamVars
<1>1. (conn # "broken")' = (conn # "broken")
  BY DEF Up
<1> QED
  BY <1>1 DEF Stream!streamVars

LEMMA StreamInitially == ASSUME RouterInit PROVE Stream!StreamInit
<1>1. \A u \in Turns: heard[u] + Len(chan[u]) = 0
  BY DEF RouterInit
<1> QED
  BY <1>1 DEF RouterInit, Stream!StreamInit

\* A promotion opens the stream.
LEMMA PromoteOpens ==
    ASSUME RouterIInv, NEW t \in Threads, NEW u, u = user[t].turn, Promote(t) PROVE Stream!Open(u)
<1> USE DEF RouterIInv
<1>1. u \in Turns /\ heard[u] = 0 /\ u \notin exact
  BY Promoted
<1>2. PICK p \in pending[t]:
        /\ Begins(p, u) /\ chan' = [chan EXCEPT ![u] = p.buf] /\ exact' = exact \cup {u}
  BY Promoted
<1>3. UNCHANGED <<emitted, heard, conn>>
  BY DEF Promote
<1>4. /\ Len(p.buf) \in 0..emitted[u] /\ (Up => Len(p.buf) = emitted[u])
  BY <1>1, <1>2, Shapes DEF Begins, Up
<1>5. Fed' = [Fed EXCEPT ![u] = Len(p.buf)]
  <2>1. \A v \in Turns: chan'[v] = IF v = u THEN p.buf ELSE chan[v]
    BY <1>2 DEF RouterTypeOK
  <2>2. heard[u] + Len(p.buf) = Len(p.buf)
    BY <1>1, <1>4
  <2> QED
    BY <1>1, <1>3, <2>1, <2>2 DEF Fed
<1> QED
  BY <1>1, <1>2, <1>3, <1>4, <1>5 DEF Stream!Open, Fed, Up

LEMMA ReceiveHears ==
    ASSUME RouterIInv, NEW t \in Threads, NEW u, u = user[t].turn, Receive(t) PROVE Stream!Hear(u)
<1> USE DEF RouterIInv
<1>1. /\ u \in Turns
      /\ chan' = [chan EXCEPT ![u] = Tail(@)] /\ heard' = [heard EXCEPT ![u] = @ + 1]
      /\ Len(Tail(chan[u])) = Len(chan[u]) - 1 /\ Len(chan[u]) # 0
      /\ UNCHANGED <<exact, emitted, conn>>
  BY Received
<1>2. Len(chan[u]) \in Nat /\ heard[u] \in Nat
  BY <1>1, Shapes
<1>3. heard[u] < heard[u] + Len(chan[u])
  BY <1>1, <1>2
<1>4. Fed' = Fed
  <2>1. \A v \in Turns \ {u}: chan'[v] = chan[v] /\ heard'[v] = heard[v]
    BY <1>1 DEF RouterTypeOK
  <2>2. chan'[u] = Tail(chan[u]) /\ heard'[u] = heard[u] + 1
    BY <1>1 DEF RouterTypeOK
  <2>3. heard'[u] + Len(chan'[u]) = heard[u] + Len(chan[u])
    <3>1. \A a, b \in Nat: b # 0 => (a + 1) + (b - 1) = a + b
      OBVIOUS
    <3>2. Len(chan'[u]) = Len(chan[u]) - 1 /\ Len(chan[u]) # 0
      BY <1>1, <2>2
    <3> QED
      BY <1>2, <2>2, <3>1, <3>2
  <2> QED
    BY <2>1, <2>3 DEF Fed
<1> QED
  BY <1>1, <1>3, <1>4 DEF Stream!Hear, Fed, Up

LEMMA UnregisterCloses ==
    ASSUME RouterIInv, NEW t \in Threads, NEW u, u = user[t].turn, Unregister(t) PROVE Stream!Close(u)
<1> USE DEF RouterIInv
<1>1. /\ u \in Turns /\ exact' = exact \ {u} /\ chan' = [chan EXCEPT ![u] = <<>>]
      /\ UNCHANGED <<emitted, heard, conn>>
  BY Shapes DEF Unregister, UsersAreBound
<1>2. Fed' = [Fed EXCEPT ![u] = heard[u]]
  <2>1. \A v \in Turns: chan'[v] = IF v = u THEN <<>> ELSE chan[v]
    BY <1>1 DEF RouterTypeOK
  <2>2. heard[u] + Len(<<>>) = heard[u]
    BY <1>1, Shapes
  <2>3. \A v \in Turns: heard'[v] + Len(chan'[v]) = IF v = u THEN heard[u] ELSE heard[v] + Len(chan[v])
    BY <1>1, <2>1, <2>2
  <2> QED
    BY <1>1, <2>3 DEF Fed
<1> QED
  BY <1>1, <1>2 DEF Stream!Close, Fed, Up

\* A notification extends its stream if it is open; without room it cuts them all.
LEMMA NotifyEmits ==
    ASSUME RouterIInv, NEW u \in Turns, NEW last \in BOOLEAN, Notify(u, last)
    PROVE  Stream!Emit(u) \/ Stream!Overrun(u)
<1> USE DEF RouterIInv
<1> DEFINE note == [turn |-> u, n |-> emitted[u] + 1, last |-> last]
<1>1. conn = "up" /\ emitted' = [emitted EXCEPT ![u] = @ + 1] /\ UNCHANGED heard
  BY DEF Notify
<1>2. /\ Len(chan[u]) \in Nat /\ heard[u] \in Nat /\ chan[u] \in Seq(Note)
      /\ emitted[u] + 1 \in Nat
  BY Shapes
<1>3. note \in Note
  BY <1>2 DEF Note
<1> HIDE DEF note
<1>4. CASE Feed(u, note)
  <2>1. u \in exact /\ chan' = [chan EXCEPT ![u] = Append(@, note)] /\ UNCHANGED <<exact, conn>>
    BY <1>4 DEF Feed
  <2>2. \A v \in Turns: chan'[v] = IF v = u THEN Append(chan[u], note) ELSE chan[v]
    BY <2>1 DEF RouterTypeOK
  <2>3. heard[u] + Len(Append(chan[u], note)) = (heard[u] + Len(chan[u])) + 1
    BY <1>2, <1>3
  <2>4. Fed' = [Fed EXCEPT ![u] = @ + 1]
    BY <1>1, <2>2, <2>3 DEF Fed
  <2> QED
    BY <1>1, <2>1, <2>4 DEF Stream!Emit, Fed, Up
<1>5. CASE UNCHANGED <<exact, chan, conn>> /\ u \notin exact
  BY <1>1, <1>5 DEF Stream!Emit
<1>6. CASE UNCHANGED routerVars /\ conn' = "broken"
  BY <1>1, <1>6 DEF Stream!Overrun, routerVars
<1>7. CASE Buffer(u, note)
  BY <1>5, <1>7 DEF Buffer
<1>8. CASE UNCHANGED routerVars /\ conn' = conn /\ u \notin exact
  BY <1>5, <1>8 DEF routerVars
<1> QED
  BY <1>4, <1>6, <1>7, <1>8, NotifyCases DEF note

LEMMA NotifyAgainStutters ==
    ASSUME RouterIInv, NEW u \in Turns, NotifyAgain(u)
    PROVE  Stream!Fail \/ UNCHANGED Stream!streamVars
<1>1. conn = "up" /\ UNCHANGED <<emitted, heard>>
  BY NotifyAgainCases
<1>2. CASE UNCHANGED routerVars /\ conn' = "broken"
  BY <1>1, <1>2 DEF Stream!Fail, routerVars
<1>3. CASE UNCHANGED routerVars /\ conn' = conn
  BY <1>1, <1>3, StreamUnchanged DEF routerVars, Up
<1>4. CASE Buffer(u, [turn |-> u, n |-> emitted[u], last |-> TRUE])
  BY <1>1, <1>4, StreamUnchanged DEF Buffer, Up
<1> QED
  BY <1>2, <1>3, <1>4, NotifyAgainCases

LEMMA StreamStep ==
    ASSUME RouterIInv, [RouterNext]_vars PROVE [Stream!StreamNext]_(Stream!streamVars)
<1>1. ASSUME NEW t \in Threads, UserStep(t) PROVE [Stream!StreamNext]_(Stream!streamVars)
  <2>1. CASE \/ BeginPending(t) \/ AskTurn(t) \/ (\E u \in Turns: StartTurn(t, u)) \/ AskFailed(t)
             \/ PromoteRefused(t) \/ CancelPending(t)
    <3>1. UNCHANGED <<exact, chan, emitted, heard, conn>>
      BY <2>1 DEF BeginPending, AskTurn, StartTurn, AskFailed, PromoteRefused, CancelPending, routerVars
    <3> QED
      BY <3>1, StreamUnchanged DEF Up
  <2>2. CASE Promote(t) \/ Receive(t) \/ Unregister(t)
    <3>1. PICK u \in Turns: u = user[t].turn
      BY <2>2, Shapes DEF RouterIInv, UsersAreBound, Promote, Receive, Unregister
    <3>2. Stream!Open(u) \/ Stream!Hear(u) \/ Stream!Close(u)
      BY <2>2, <3>1, PromoteOpens, ReceiveHears, UnregisterCloses
    <3> QED
      BY <3>2 DEF Stream!StreamNext
  <2> QED
    BY <1>1, <2>1, <2>2 DEF UserStep
<1>2. ASSUME NEW u \in Turns, NEW last \in BOOLEAN, Notify(u, last)
      PROVE  [Stream!StreamNext]_(Stream!streamVars)
  BY <1>2, NotifyEmits DEF Stream!StreamNext
<1>3. ASSUME NEW u \in Turns, NotifyAgain(u) PROVE [Stream!StreamNext]_(Stream!streamVars)
  BY <1>3, NotifyAgainStutters DEF Stream!StreamNext
<1>4. CASE Break
  <2>1. Stream!Fail
    BY <1>4 DEF Break, routerVars, Stream!Fail
  <2> QED
    BY <2>1 DEF Stream!StreamNext
<1>5. CASE FailAllRoutes
  <2>1. Stream!CutAll
    BY <1>5 DEF FailAllRoutes, Stream!CutAll
  <2> QED
    BY <2>1 DEF Stream!StreamNext
<1>6. CASE Reconnect
  BY <1>6, StreamUnchanged DEF Reconnect, routerVars, Up
<1>7. CASE UNCHANGED vars
  BY <1>7, StreamUnchanged DEF vars, Up
<1> QED
  BY <1>1, <1>2, <1>3, <1>4, <1>5, <1>6, <1>7 DEF RouterNext, ReaderStep

\* The router keeps the promise of TurnStream: the stream of a turn opens with all
\* that was sent, misses and repeats nothing while it is open, and is cut as a whole.
THEOREM StreamImplemented == RouterSpec => ImplementsStream
<1>1. RouterInit => Stream!StreamInit
  BY StreamInitially
<1>2. RouterIInv /\ [RouterNext]_vars => [Stream!StreamNext]_(Stream!streamVars)
  BY StreamStep
<1>3. RouterSpec => []RouterIInv
  BY RouterInitInv, RouterStep, PTL DEF RouterSpec
<1> QED
  BY <1>1, <1>2, <1>3, PTL DEF RouterSpec, ImplementsStream, Stream!StreamSpec

-----------------------------------------------------------------------------
(* The events of a run. *)

\* An event is stored once.
RowsDistinct == \A i, j \in DOMAIN rows : rows[i].id = rows[j].id => i = j

\* Identifiers are new, and no number runs ahead of them.
BelowNext ==
    /\ \A e \in ToSet(rows) : e.id < next
    /\ \A p \in Procs : \A e \in ToSet(cache[p]) : e.id < next /\ e.seq < next

\* A cache is in order also while its last event is being saved.
AlwaysInOrder ==
    \A p \in Procs : \A i, j \in DOMAIN cache[p] : i < j => cache[p][i].seq <= cache[p][j].seq

\* What a refresh has read is how the stream begins.
SnapshotIsPrefix ==
    \A p \in Procs : snapshot[p] # NoSnapshot =>
        \A i \in DOMAIN snapshot[p] : i \in DOMAIN rows /\ snapshot[p][i] = rows[i]

\* The event that is being saved is nowhere else.
HeldIsNew ==
    \A p \in Procs : held[p] # <<>> =>
        /\ \A s \in ToSet(rows) : s.id # held[p][1].id
        /\ \A q \in Procs \ {p} : \A e \in ToSet(cache[q]) : e.id # held[p][1].id
        /\ \A i \in 1..(Len(cache[p]) - 1) : cache[p][i].id # held[p][1].id

EventsIInv ==
    /\ EventsTypeOK
    /\ StreamContiguous
    /\ CacheCarriesStored
    /\ RowsDistinct
    /\ BelowNext
    /\ AlwaysInOrder
    /\ SnapshotIsPrefix
    /\ HeldIsNew

-----------------------------------------------------------------------------
(* The operators of the model. *)

\* Ranks number the elements of a sequence without a gap.
LEMMA RanksAreNumbers ==
    ASSUME NEW s, NEW n \in Nat, DOMAIN s = 1..n, \A i \in 1..n : s[i].seq \in Nat
    PROVE  /\ \A i \in 1..n : Rank(s, i) \in 1..n
           /\ \A k \in 1..n : \E i \in 1..n : Rank(s, i) = k
           /\ \A i, j \in 1..n : Rank(s, i) = Rank(s, j) => i = j
           /\ \A i, j \in 1..n : Before(s, i, j) => Rank(s, i) < Rank(s, j)
<1> DEFINE D == 1..n
           B(i) == {j \in D : Before(s, j, i)}
<1>1. IsFiniteSet(D) /\ Cardinality(D) = n
  BY FS_Interval
<1>2. \A i \in D : Rank(s, i) = Cardinality(B(i)) + 1
  BY DEF Rank
<1>3. \A i, j \in D : j \in B(i) <=> Before(s, j, i)
  OBVIOUS
<1>4. \A i \in D : B(i) \subseteq D
  OBVIOUS
<1> HIDE DEF B
<1>5. ASSUME NEW i \in D
      PROVE  IsFiniteSet(B(i)) /\ i \notin B(i) /\ Cardinality(B(i)) \in 0..(n - 1)
  <2>1. i \notin B(i)
    BY <1>3 DEF Before
  <2>2. B(i) \in SUBSET (D \ {i})
    BY <1>4, <2>1
  <2>3. IsFiniteSet(D \ {i}) /\ Cardinality(D \ {i}) = n - 1
    BY <1>1, FS_RemoveElement
  <2>4. IsFiniteSet(B(i)) /\ Cardinality(B(i)) <= n - 1
    BY <2>2, <2>3, FS_Subset
  <2>5. Cardinality(B(i)) \in Nat
    BY <2>4, FS_CardinalityType
  <2> QED
    BY <2>1, <2>4, <2>5
<1>6. ASSUME NEW i \in D PROVE Rank(s, i) \in D
  <2>1. PICK k \in 0..(n - 1) : k = Cardinality(B(i))
    BY <1>5
  <2>2. Rank(s, i) = k + 1
    BY <1>2, <2>1
  <2> QED
    BY <2>2
<1>7. ASSUME NEW i \in D, NEW j \in D, Before(s, i, j)
      PROVE  Rank(s, i) < Rank(s, j)
  <2>1. \A m \in B(i) : m \in D /\ Before(s, m, i)
    BY <1>3, <1>4
  <2>2. \A m \in B(i) : Before(s, m, j)
    BY <1>7, <2>1 DEF Before
  <2>3. B(i) \cup {i} \in SUBSET B(j)
    BY <1>3, <1>7, <2>1, <2>2
  <2>4. Cardinality(B(i) \cup {i}) = Cardinality(B(i)) + 1
    BY <1>5, FS_AddElement
  <2>5. Cardinality(B(i) \cup {i}) <= Cardinality(B(j))
    BY <1>5, <2>3, FS_Subset
  <2> QED
    BY <1>2, <1>5, <2>4, <2>5
<1>8. ASSUME NEW i \in D, NEW j \in D, i # j
      PROVE  Rank(s, i) # Rank(s, j)
  <2>1. Before(s, i, j) \/ Before(s, j, i)
    BY <1>8 DEF Before
  <2>2. Rank(s, i) < Rank(s, j) \/ Rank(s, j) < Rank(s, i)
    BY <1>7, <2>1
  <2> QED
    BY <1>6, <2>2
<1>9. ASSUME NEW k \in D, \A i \in D : Rank(s, i) # k
      PROVE  FALSE
  <2> DEFINE f == [i \in D |-> Rank(s, i)]
             T == D \ {k}
  <2>1. IsFiniteSet(T) /\ Cardinality(T) = n - 1
    BY <1>1, FS_RemoveElement
  <2>2. f \in [D -> T]
    BY <1>6, <1>9
  <2>3. Cardinality(T) < Cardinality(D)
    BY <1>1, <2>1
  <2>4. \A x \in D : f[x] = Rank(s, x)
    OBVIOUS
  <2> HIDE DEF f, T
  <2>5. \E x, y \in D : x # y /\ f[x] = f[y]
    BY <1>1, <2>1, <2>2, <2>3, FS_PigeonHole
  <2> QED
    BY <1>8, <2>4, <2>5
<1> QED
  BY <1>6, <1>7, <1>8, <1>9

\* Sorting keeps the elements of a sequence and puts them into the order of their numbers.
LEMMA SortedIs ==
    ASSUME NEW s \in Seq(Event)
    PROVE  /\ Sorted(s) \in Seq(Event) /\ DOMAIN Sorted(s) = DOMAIN s
           /\ ToSet(Sorted(s)) = ToSet(s)
           /\ \A i, j \in DOMAIN s : i < j => Sorted(s)[i].seq <= Sorted(s)[j].seq
<1> DEFINE n == Len(s)
           at(k) == CHOOSE i \in DOMAIN s : Rank(s, i) = k
<1>1. n \in Nat /\ DOMAIN s = 1..n /\ \A i \in 1..n : s[i] \in Event /\ s[i].seq \in Nat
  <2>1. n \in Nat /\ DOMAIN s = 1..n /\ \A i \in 1..n : s[i] \in Event
    BY LenProperties, ElementOfSeq
  <2> QED
    BY <2>1, EventsAssumption DEF Event
<1>2. /\ \A i \in 1..n : Rank(s, i) \in 1..n
      /\ \A k \in 1..n : \E i \in 1..n : Rank(s, i) = k
      /\ \A i, j \in 1..n : Rank(s, i) = Rank(s, j) => i = j
      /\ \A i, j \in 1..n : Before(s, i, j) => Rank(s, i) < Rank(s, j)
  BY <1>1, RanksAreNumbers
<1>3. \A k \in 1..n : at(k) \in 1..n /\ Rank(s, at(k)) = k
  BY <1>1, <1>2
<1>4. DOMAIN Sorted(s) = DOMAIN s /\ \A k \in 1..n : Sorted(s)[k] = s[at(k)]
  BY <1>1 DEF Sorted
<1> HIDE DEF at, n
<1>5. Sorted(s) \in Seq(Event)
  <2>1. Sorted(s) \in [1..n -> Event]
    <3>1. Sorted(s) = [k \in 1..n |-> Sorted(s)[k]]
      BY <1>1, <1>4 DEF Sorted
    <3> QED
      BY <1>1, <1>3, <1>4, <3>1
  <2> QED
    BY <1>1, <2>1, SeqDef
<1>6. ToSet(Sorted(s)) = ToSet(s)
  <2>1. \A k \in 1..n : at(Rank(s, k)) = k
    BY <1>2, <1>3
  <2>2. \A k \in 1..n : Sorted(s)[Rank(s, k)] = s[k] /\ Rank(s, k) \in 1..n
    BY <1>2, <1>4, <2>1
  <2> QED
    BY <1>1, <1>3, <1>4, <2>2 DEF ToSet
<1>7. ASSUME NEW i \in 1..n, NEW j \in 1..n, i < j
      PROVE  Sorted(s)[i].seq <= Sorted(s)[j].seq
  <2>1. ~Before(s, at(j), at(i))
    <3>1. at(i) \in 1..n /\ at(j) \in 1..n /\ Rank(s, at(i)) = i /\ Rank(s, at(j)) = j
      BY <1>3
    <3>2. Before(s, at(j), at(i)) => j < i
      BY <1>2, <3>1
    <3> QED
      BY <1>7, <3>2
  <2>2. s[at(i)].seq \in Nat /\ s[at(j)].seq \in Nat
    BY <1>1, <1>3
  <2> QED
    BY <1>4, <2>1, <2>2 DEF Before
<1> QED
  BY <1>1, <1>4, <1>5, <1>6, <1>7

\* The highest number of a sequence in order is that of its last element.
LEMMA HighestIs ==
    ASSUME NEW s \in Seq(Event), \A i, j \in DOMAIN s : i < j => s[i].seq <= s[j].seq
    PROVE  /\ Highest(s) \in Nat /\ \A e \in ToSet(s) : e.seq <= Highest(s)
           /\ s = <<>> => Highest(s) = 0
           /\ s # <<>> => Highest(s) = s[Len(s)].seq /\ s[Len(s)] \in ToSet(s)
<1> DEFINE S == {0} \cup {e.seq : e \in ToSet(s)}
           top == IF s = <<>> THEN 0 ELSE s[Len(s)].seq
<1>1. Len(s) \in Nat /\ DOMAIN s = 1..Len(s) /\ \A i \in 1..Len(s) : s[i] \in Event /\ s[i].seq \in Nat
  <2>1. Len(s) \in Nat /\ DOMAIN s = 1..Len(s) /\ \A i \in 1..Len(s) : s[i] \in Event
    BY LenProperties, ElementOfSeq
  <2> QED
    BY <2>1, EventsAssumption DEF Event
<1>2. s = <<>> => ToSet(s) = {}
  BY DEF ToSet
<1>3. s # <<>> => Len(s) \in 1..Len(s)
  BY <1>1, EmptySeq
<1>4. s # <<>> => s[Len(s)] \in ToSet(s)
  BY <1>1, <1>3 DEF ToSet
<1>5. \A e \in ToSet(s) : e.seq \in Nat /\ e.seq <= top
  <2> SUFFICES ASSUME NEW i \in 1..Len(s)
               PROVE  s[i].seq <= s[Len(s)].seq /\ s # <<>>
    BY <1>1 DEF ToSet
  <2>1. s # <<>>
    BY <1>1, EmptySeq
  <2>2. CASE i = Len(s)
    BY <1>1, <2>1, <2>2
  <2>3. CASE i < Len(s)
    <3>1. Len(s) \in DOMAIN s /\ i \in DOMAIN s
      BY <1>1, <1>3, <2>1
    <3> QED
      BY <2>1, <2>3, <3>1
  <2>4. i = Len(s) \/ i < Len(s)
    <3>1. Len(s) \in Nat
      BY <1>1
    <3> QED
      BY <3>1
  <2> QED
    BY <2>2, <2>3, <2>4
<1>6. top \in S /\ \A m \in S : top >= m /\ m \in Nat
  BY <1>2, <1>4, <1>5
<1>7. Max(S) = top
  <2> HIDE DEF S, top
  <2>1. Max(S) = CHOOSE x \in S : \A y \in S : x >= y
    BY DEF Max
  <2>2. \A x \in S : (\A y \in S : x >= y) => x = top
    BY <1>6
  <2> QED
    BY <1>6, <2>1, <2>2
<1>8. Highest(s) = top
  BY <1>7 DEF Highest
<1> QED
  BY <1>4, <1>5, <1>6, <1>8

\* What an appended event makes of a sequence.
LEMMA AppendedIs ==
    ASSUME NEW s \in Seq(Event), NEW e \in Event
    PROVE  /\ Append(s, e) \in Seq(Event) /\ Len(Append(s, e)) = Len(s) + 1 /\ Len(s) \in Nat
           /\ DOMAIN s = 1..Len(s) /\ DOMAIN Append(s, e) = 1..(Len(s) + 1)
           /\ \A i \in 1..Len(s) : Append(s, e)[i] = s[i]
           /\ Append(s, e)[Len(s) + 1] = e
           /\ ToSet(Append(s, e)) = ToSet(s) \cup {e}
           /\ Append(s, e) # <<>>
<1>1. /\ Append(s, e) \in Seq(Event) /\ Len(Append(s, e)) = Len(s) + 1 /\ Len(s) \in Nat
      /\ DOMAIN s = 1..Len(s) /\ DOMAIN Append(s, e) = 1..(Len(s) + 1)
      /\ \A i \in 1..Len(s) : Append(s, e)[i] = s[i]
      /\ Append(s, e)[Len(s) + 1] = e
  OBVIOUS
<1>2. Len(s) + 1 \in 1..(Len(s) + 1) /\ \A i \in 1..(Len(s) + 1) : i \in 1..Len(s) \/ i = Len(s) + 1
  BY <1>1
<1>3. \A i \in 1..Len(s) : i \in 1..(Len(s) + 1)
  BY <1>1
<1> QED
  BY <1>1, <1>2, <1>3 DEF ToSet

-----------------------------------------------------------------------------
(* The invariant. *)

\* What the invariant says of one process.
LEMMA Known ==
    ASSUME EventsIInv
    PROVE  /\ rows \in Seq(Event) /\ DOMAIN rows = 1..Len(rows) /\ Len(rows) \in Nat
           /\ Highest(rows) = Len(rows)
           /\ next \in Nat /\ next <= MaxEvents + 1 /\ next >= 1 /\ MaxEvents \in Nat
           /\ \A i \in 1..Len(rows) : rows[i] \in Event /\ rows[i] \in ToSet(rows)
           /\ \A e \in Event : e.id \in Nat /\ e.seq \in Nat /\ e.id >= 1 /\ e.seq >= 1
<1>0. /\ rows \in Seq(Event) /\ next \in 1..(MaxEvents + 1) /\ MaxEvents \in Nat
      /\ \A i \in DOMAIN rows : rows[i].seq = i
  BY EventsAssumption DEF EventsIInv, EventsTypeOK, StreamContiguous
<1>1. DOMAIN rows = 1..Len(rows) /\ Len(rows) \in Nat
  BY <1>0, LenProperties
<1>2. \A i \in 1..Len(rows) : rows[i] \in Event /\ rows[i] \in ToSet(rows)
  BY <1>0, <1>1, ElementOfSeq DEF ToSet
<1>3. Highest(rows) = Len(rows)
  <2>1. \A i, j \in DOMAIN rows : i < j => rows[i].seq <= rows[j].seq
    BY <1>0, <1>1
  <2>2. CASE rows = <<>>
    BY <1>0, <2>1, <2>2, HighestIs
  <2>3. CASE rows # <<>>
    <3>1. Len(rows) \in DOMAIN rows
      BY <1>0, <1>1, <2>3, EmptySeq
    <3> QED
      BY <1>0, <2>1, <2>3, <3>1, HighestIs
  <2> QED
    BY <2>2, <2>3
<1>4. \A e \in Event : e.id \in Nat /\ e.seq \in Nat /\ e.id >= 1 /\ e.seq >= 1
  BY <1>0 DEF Event, Ids
<1> QED
  BY <1>0, <1>1, <1>2, <1>3, <1>4

\* The event that a process holds is the last of its cache.
LEMMA HeldIs ==
    ASSUME EventsIInv, NEW p \in Procs, held[p] # <<>>
    PROVE  LET h == held[p][1] IN
           /\ held[p] = <<h>> /\ h \in Event /\ h \in ToSet(cache[p])
           /\ h.id < next /\ h.seq < next
           /\ cache[p] \in Seq(Event) /\ DOMAIN cache[p] = 1..Len(cache[p]) /\ Len(cache[p]) \in Nat
           /\ \A i \in 1..Len(cache[p]) : cache[p][i].id = h.id => cache[p][i] = h
<1> DEFINE h == held[p][1]
           c == cache[p]
<1>1. c \in Seq(Event) /\ c # <<>> /\ held[p] = <<c[Len(c)]>>
  BY DEF EventsIInv, EventsTypeOK
<1>2. DOMAIN c = 1..Len(c) /\ Len(c) \in Nat /\ Len(c) \in 1..Len(c)
  BY <1>1, LenProperties, EmptySeq
<1>3. h = c[Len(c)] /\ held[p] = <<h>>
  BY <1>1
<1>4. h \in Event /\ h \in ToSet(c)
  BY <1>1, <1>2, <1>3, ElementOfSeq DEF ToSet
<1>5. h.id < next /\ h.seq < next
  BY <1>4 DEF EventsIInv, BelowNext
<1>6. \A i \in 1..(Len(c) - 1) : c[i].id # h.id
  BY DEF EventsIInv, HeldIsNew
<1>7. \A i \in 1..Len(c) : i \in 1..(Len(c) - 1) \/ i = Len(c)
  BY <1>2
<1> QED
  BY <1>1, <1>2, <1>3, <1>4, <1>5, <1>6, <1>7

\* There are as many identifiers given out as events stored, and one more for an event
\* that is being saved.
LEMMA Room ==
    ASSUME EventsIInv, NEW k \in Nat, NEW g, \A i \in 1..k : g[i] \in 1..(next - 1),
           \A i, j \in 1..k : g[i] = g[j] => i = j
    PROVE  k < next
<1> DEFINE S == 1..k
           T == 1..(next - 1)
           f == [i \in S |-> g[i]]
<1>1. next \in Nat /\ next >= 1
  BY Known
<1>2. f \in [S -> T] /\ \A i, j \in S : f[i] = f[j] => i = j
  OBVIOUS
<1>3. /\ IsFiniteSet(S) /\ Cardinality(S) = k
      /\ IsFiniteSet(T) /\ Cardinality(T) = next - 1
  BY <1>1, FS_Interval
<1> HIDE DEF f, S, T
<1>4. ~(Cardinality(T) < Cardinality(S))
  BY <1>2, <1>3, FS_PigeonHole
<1> QED
  BY <1>1, <1>3, <1>4

LEMMA FewerStored ==
    ASSUME EventsIInv
    PROVE  Len(rows) < next
<1> DEFINE g == [i \in 1..Len(rows) |-> rows[i].id]
<1>1. /\ Len(rows) \in Nat /\ next \in Nat /\ DOMAIN rows = 1..Len(rows)
      /\ \A i \in 1..Len(rows) : rows[i] \in ToSet(rows) /\ rows[i].id \in Nat /\ rows[i].id >= 1
  BY Known
<1>2. \A i \in 1..Len(rows) : rows[i].id < next
  BY <1>1 DEF EventsIInv, BelowNext
<1>3. \A i, j \in 1..Len(rows) : rows[i].id = rows[j].id => i = j
  BY <1>1 DEF EventsIInv, RowsDistinct
<1>4. /\ \A i \in 1..Len(rows) : g[i] \in 1..(next - 1)
      /\ \A i, j \in 1..Len(rows) : g[i] = g[j] => i = j
  BY <1>1, <1>2, <1>3
<1> HIDE DEF g
<1> QED
  BY <1>1, <1>4, Room

LEMMA RoomForOne ==
    ASSUME EventsIInv, NEW p \in Procs, held[p] # <<>>
    PROVE  Len(rows) + 1 < next
<1> DEFINE L == Len(rows)
           h == held[p][1]
           g == [i \in 1..(L + 1) |-> IF i = L + 1 THEN h.id ELSE rows[i].id]
<1>1. /\ L \in Nat /\ next \in Nat /\ DOMAIN rows = 1..L
      /\ \A i \in 1..L : rows[i] \in ToSet(rows) /\ rows[i].id \in Nat /\ rows[i].id >= 1
  BY Known
<1>2. h.id \in Nat /\ h.id >= 1 /\ h.id < next
  BY Known, HeldIs
<1>3. \A i \in 1..L : rows[i].id < next /\ rows[i].id # h.id
  BY <1>1 DEF EventsIInv, BelowNext, HeldIsNew
<1>4. \A i \in 1..(L + 1) : i \in 1..L \/ i = L + 1
  BY <1>1
<1>5. \A i, j \in 1..L : rows[i].id = rows[j].id => i = j
  BY <1>1 DEF EventsIInv, RowsDistinct
<1>6. /\ \A i \in 1..(L + 1) : g[i] \in 1..(next - 1)
      /\ \A i, j \in 1..(L + 1) : g[i] = g[j] => i = j
  BY <1>1, <1>2, <1>3, <1>4, <1>5
<1>7. L + 1 \in Nat
  BY <1>1
<1> HIDE DEF g
<1> QED
  BY <1>6, <1>7, Room

-----------------------------------------------------------------------------
(* The steps. *)

\* The tables of the processes are functions of the processes.
LEMMA Tables ==
    ASSUME EventsIInv
    PROVE  /\ cache \in [Procs -> Seq(Event)] /\ held \in [Procs -> Seq(Event)]
           /\ snapshot \in [Procs -> Seq(Event) \cup {NoSnapshot}]
           /\ \A p \in Procs : held[p] # <<>> => cache[p] # <<>> /\ held[p] = <<cache[p][Len(cache[p])]>>
           /\ failures \in 0..MaxFailures /\ MaxFailures \in Nat
           /\ \A p \in Procs : \A i \in DOMAIN cache[p] : cache[p][i] \in ToSet(cache[p])
           /\ \A p \in Procs : \A e \in ToSet(cache[p]) : e \in Event /\ e.id < next /\ e.seq < next
<1>1. EventsTypeOK /\ BelowNext /\ MaxFailures \in Nat
  BY EventsAssumption DEF EventsIInv
<1>2. ASSUME NEW p \in Procs, NEW i \in DOMAIN cache[p]
      PROVE  cache[p][i] \in ToSet(cache[p]) /\ cache[p][i] \in Event
  <2>1. cache[p] \in Seq(Event)
    BY <1>1 DEF EventsTypeOK
  <2> QED
    BY <1>2, <2>1, ElementOfSeq, LenProperties DEF ToSet
<1>3. \A p \in Procs : \A e \in ToSet(cache[p]) : e \in Event
  BY <1>2 DEF ToSet
<1> QED
  BY <1>1, <1>2, <1>3 DEF EventsTypeOK, BelowNext

\* An event is appended under a number and an identifier of its own.
LEMMA AppendStep ==
    ASSUME EventsIInv, NEW p \in Procs, Append1(p)
    PROVE  EventsIInv'
<1> DEFINE c == cache[p]
<1>0. PICK e : /\ e = [id |-> next, seq |-> Highest(c) + 1]
               /\ cache' = [cache EXCEPT ![p] = Append(c, e)]
               /\ held' = [held EXCEPT ![p] = <<e>>]
  BY DEF Append1
<1>1. /\ next' = next + 1 /\ held[p] = <<>> /\ next <= MaxEvents
      /\ UNCHANGED <<rows, snapshot, failures>>
  BY DEF Append1
<1>2. /\ c \in Seq(Event)
      /\ \A i, j \in DOMAIN c : i < j => c[i].seq <= c[j].seq
      /\ next \in Nat /\ next >= 1 /\ MaxEvents \in Nat
  BY Tables, Known DEF EventsIInv, AlwaysInOrder
<1>3. Highest(c) \in Nat /\ Highest(c) < next /\ \A x \in ToSet(c) : x.seq <= Highest(c)
  <2>1. /\ Highest(c) \in Nat /\ \A x \in ToSet(c) : x.seq <= Highest(c)
        /\ c = <<>> => Highest(c) = 0
        /\ c # <<>> => Highest(c) = c[Len(c)].seq /\ c[Len(c)] \in ToSet(c)
    BY <1>2, HighestIs
  <2> QED
    BY <1>2, <2>1, Tables
<1>4. e \in Event /\ e.id = next /\ e.seq = Highest(c) + 1
  BY <1>0, <1>1, <1>2, <1>3 DEF Event, Ids
<1>5. /\ Append(c, e) \in Seq(Event) /\ Len(Append(c, e)) = Len(c) + 1 /\ Len(c) \in Nat
      /\ DOMAIN c = 1..Len(c) /\ DOMAIN Append(c, e) = 1..(Len(c) + 1)
      /\ \A i \in 1..Len(c) : Append(c, e)[i] = c[i]
      /\ Append(c, e)[Len(c) + 1] = e
      /\ ToSet(Append(c, e)) = ToSet(c) \cup {e}
      /\ Append(c, e) # <<>>
  BY <1>2, <1>4, AppendedIs
<1>6. /\ cache'[p] = Append(c, e) /\ held'[p] = <<e>>
      /\ \A q \in Procs \ {p} : cache'[q] = cache[q] /\ held'[q] = held[q]
      /\ cache' \in [Procs -> Seq(Event)] /\ held' \in [Procs -> Seq(Event)]
  BY <1>0, <1>4, <1>5, Tables
<1> HIDE DEF c
<1>7. EventsTypeOK'
  <2>1. next' \in 1..(MaxEvents + 1)
    BY <1>1, <1>2
  <2>2. rows' \in Seq(Event)
    BY <1>1, Known
  <2>3. \A q \in Procs : held'[q] # <<>> => cache'[q] # <<>> /\ held'[q] = <<cache'[q][Len(cache'[q])]>>
    BY <1>5, <1>6, Tables
  <2> QED
    BY <1>1, <1>6, <2>1, <2>2, <2>3, Tables DEF EventsTypeOK
<1>8. \A s \in ToSet(rows) : s.id < next /\ s.id \in Nat
  BY Known DEF EventsIInv, BelowNext, ToSet
<1>14. ASSUME NEW q \in Procs, NEW x \in ToSet(cache'[q])
       PROVE  x \in ToSet(cache[q]) \/ (q = p /\ x = e)
  <2>1. CASE q = p
    <3>1. ToSet(cache'[p]) = ToSet(cache[p]) \cup {e}
      BY <1>5, <1>6 DEF c
    <3> QED
      BY <1>14, <2>1, <3>1
  <2>2. CASE q # p
    BY <1>6, <1>14, <2>2
  <2> QED
    BY <2>1, <2>2
<1>9. CacheCarriesStored'
  <2> SUFFICES ASSUME NEW q \in Procs, NEW x \in ToSet(cache'[q]), NEW s \in ToSet(rows), x.id = s.id
               PROVE  x = s
    BY <1>1 DEF CacheCarriesStored
  <2>1. x \in ToSet(cache[q])
    BY <1>2, <1>4, <1>8, <1>14
  <2> QED
    BY <2>1 DEF EventsIInv, CacheCarriesStored
<1>10. BelowNext'
  <2>1. \A q \in Procs : \A x \in ToSet(cache'[q]) : x \in ToSet(cache[q]) \/ x = e
    BY <1>14
  <2>2. \A q \in Procs : \A x \in ToSet(cache[q]) : x.id < next + 1 /\ x.seq < next + 1
    BY <1>2, Tables, Known
  <2>3. e.id < next + 1 /\ e.seq < next + 1
    BY <1>2, <1>3, <1>4
  <2>4. \A s \in ToSet(rows) : s.id < next + 1
    BY <1>2, <1>8
  <2> QED
    BY <1>1, <2>1, <2>2, <2>3, <2>4 DEF BelowNext
<1>11. AlwaysInOrder'
  <2>1. ASSUME NEW i \in DOMAIN Append(c, e), NEW j \in DOMAIN Append(c, e), i < j
        PROVE  Append(c, e)[i].seq <= Append(c, e)[j].seq
    <3>1. i \in 1..Len(c) /\ Append(c, e)[i] = c[i] /\ c[i] \in ToSet(c)
      BY <1>5, <2>1 DEF ToSet
    <3>2. CASE j \in 1..Len(c)
      BY <1>2, <1>5, <2>1, <3>1, <3>2
    <3>3. CASE j = Len(c) + 1
      <4>1. c[i].seq <= Highest(c) /\ c[i].seq \in Nat
        BY <1>3, <3>1, Tables, Known DEF c
      <4> QED
        BY <1>3, <1>4, <1>5, <3>1, <3>3, <4>1
    <3>4. j \in 1..Len(c) \/ j = Len(c) + 1
      BY <1>5
    <3> QED
      BY <3>2, <3>3, <3>4
  <2> QED
    BY <1>6, <2>1 DEF EventsIInv, AlwaysInOrder
<1>12. HeldIsNew'
  <2>1. ASSUME NEW q \in Procs, q # p, held'[q] # <<>>
        PROVE  /\ \A s \in ToSet(rows) : s.id # held'[q][1].id
               /\ \A r \in Procs \ {q} : \A x \in ToSet(cache'[r]) : x.id # held'[q][1].id
               /\ \A i \in 1..(Len(cache'[q]) - 1) : cache'[q][i].id # held'[q][1].id
    <3>1. held'[q] = held[q] /\ cache'[q] = cache[q]
      BY <1>6, <2>1
    <3>2. held[q][1].id < next /\ held[q][1].id \in Nat
      BY <2>1, <3>1, HeldIs, Known
    <3>3. /\ \A s \in ToSet(rows) : s.id # held[q][1].id
          /\ \A r \in Procs \ {q} : \A x \in ToSet(cache[r]) : x.id # held[q][1].id
          /\ \A i \in 1..(Len(cache[q]) - 1) : cache[q][i].id # held[q][1].id
      BY <2>1, <3>1 DEF EventsIInv, HeldIsNew
    <3>4. \A x \in ToSet(cache'[p]) : x.id # held[q][1].id
      BY <1>2, <1>4, <1>5, <1>6, <2>1, <3>2, <3>3 DEF c
    <3> QED
      BY <1>6, <3>1, <3>3, <3>4
  <2>2. /\ held'[p][1] = e
        /\ \A s \in ToSet(rows) : s.id # e.id
        /\ \A r \in Procs \ {p} : \A x \in ToSet(cache'[r]) : x.id # e.id
        /\ \A i \in 1..(Len(cache'[p]) - 1) : cache'[p][i].id # e.id
    <3>1. \A r \in Procs : \A x \in ToSet(cache[r]) : x.id # next
      BY <1>2, Tables, Known
    <3>2. \A i \in 1..(Len(cache'[p]) - 1) : cache'[p][i] = c[i] /\ c[i] \in ToSet(c)
      BY <1>5, <1>6 DEF ToSet
    <3>3. \A s \in ToSet(rows) : s.id # e.id
      BY <1>2, <1>4, <1>8
    <3>4. \A i \in 1..(Len(cache'[p]) - 1) : cache'[p][i].id # e.id
      BY <1>4, <3>1, <3>2 DEF c
    <3>5. \A r \in Procs \ {p} : \A x \in ToSet(cache'[r]) : x.id # e.id
      BY <1>4, <1>6, <3>1
    <3>6. held'[p][1] = e
      BY <1>6
    <3> QED
      BY <3>3, <3>4, <3>5, <3>6
  <2> QED
    BY <1>1, <2>1, <2>2 DEF HeldIsNew
<1>13. RowsDistinct' /\ StreamContiguous' /\ SnapshotIsPrefix'
  BY <1>1 DEF EventsIInv, RowsDistinct, StreamContiguous, SnapshotIsPrefix
<1> QED
  BY <1>7, <1>9, <1>10, <1>11, <1>12, <1>13 DEF EventsIInv

\* The corrected cache has the stored event for the one that was saved, and is in order.
LEMMA CorrectIs ==
    ASSUME EventsIInv, NEW p \in Procs, held[p] # <<>>, NEW n \in Nat,
           [held[p][1] EXCEPT !.seq = n] \in Event
    PROVE  LET h == held[p][1]
               s == [h EXCEPT !.seq = n]
               c == Correct(p, h, n)
           IN /\ c \in Seq(Event)
              /\ \A x \in ToSet(c) : x = s \/ (x \in ToSet(cache[p]) /\ x.id # h.id)
              /\ \A i, j \in DOMAIN c : i < j => c[i].seq <= c[j].seq
<1> DEFINE h == held[p][1]
           s == [h EXCEPT !.seq = n]
           c == cache[p]
           m == [i \in DOMAIN c |-> IF c[i].id = h.id THEN s ELSE c[i]]
<1>1. /\ c \in Seq(Event) /\ DOMAIN c = 1..Len(c) /\ Len(c) \in Nat /\ h \in Event
      /\ \A i \in 1..Len(c) : c[i].id = h.id => c[i] = h
      /\ \A i \in 1..Len(c) : c[i] \in ToSet(c) /\ c[i] \in Event
  BY HeldIs, ElementOfSeq DEF ToSet
<1>2. CASE n = h.seq
  <2>1. s = h
    BY <1>1, <1>2 DEF Event
  <2>2. Correct(p, h, n) = c
    BY <1>2 DEF Correct
  <2>3. \A x \in ToSet(c) : x = h \/ x.id # h.id
    BY <1>1 DEF ToSet
  <2>4. \A i, j \in DOMAIN c : i < j => c[i].seq <= c[j].seq
    BY DEF EventsIInv, AlwaysInOrder
  <2> QED
    BY <1>1, <2>1, <2>2, <2>3, <2>4
<1>3. CASE n # h.seq
  <2>1. Correct(p, h, n) = Sorted(m)
    BY <1>3 DEF Correct
  <2>2. m \in Seq(Event)
    <3>1. m \in [1..Len(c) -> Event]
      BY <1>1
    <3> QED
      BY <1>1, <3>1, SeqDef
  <2>3. DOMAIN m = 1..Len(c) /\ \A i \in 1..Len(c) : m[i] = IF c[i].id = h.id THEN s ELSE c[i]
    BY <1>1
  <2> HIDE DEF m
  <2>4. \A x \in ToSet(m) : x = s \/ (x \in ToSet(c) /\ x.id # h.id)
    BY <1>1, <2>3 DEF ToSet
  <2>5. /\ Sorted(m) \in Seq(Event) /\ DOMAIN Sorted(m) = DOMAIN m /\ ToSet(Sorted(m)) = ToSet(m)
        /\ \A i, j \in DOMAIN m : i < j => Sorted(m)[i].seq <= Sorted(m)[j].seq
    BY <2>2, SortedIs
  <2> QED
    BY <2>1, <2>4, <2>5
<1> QED
  BY <1>2, <1>3

\* An event is stored under the next number.
LEMMA SaveStep ==
    ASSUME EventsIInv, NEW p \in Procs, Save(p)
    PROVE  EventsIInv'
<1> DEFINE h == held[p][1]
           n == Len(rows) + 1
<1>0. /\ held[p] # <<>>
      /\ n \in Nat /\ n < next /\ n >= 1 /\ next <= MaxEvents + 1 /\ Highest(rows) = Len(rows)
      /\ next \in Nat /\ MaxEvents \in Nat
  BY RoomForOne, Known DEF Save
<1>1. /\ held[p] = <<h>> /\ h \in Event /\ h.id < next
      /\ rows \in Seq(Event)
  BY <1>0, HeldIs, Known
<1>2. PICK s : s = [h EXCEPT !.seq = n]
  OBVIOUS
<1>3. s \in Event /\ s.id = h.id /\ s.seq = n
  BY <1>0, <1>1, <1>2 DEF Event
<1>4. PICK c : c = Correct(p, h, n)
  OBVIOUS
<1>5. /\ rows' = Append(rows, s) /\ cache' = [cache EXCEPT ![p] = c]
      /\ held' = [held EXCEPT ![p] = <<>>]
      /\ UNCHANGED <<snapshot, next, failures>>
  BY <1>0, <1>2, <1>4 DEF Save
<1>6. /\ c \in Seq(Event)
      /\ \A x \in ToSet(c) : x = s \/ (x \in ToSet(cache[p]) /\ x.id # h.id)
      /\ \A i, j \in DOMAIN c : i < j => c[i].seq <= c[j].seq
  BY <1>0, <1>2, <1>3, <1>4, CorrectIs
<1>7. /\ rows' \in Seq(Event) /\ DOMAIN rows = 1..Len(rows) /\ DOMAIN rows' = 1..n
      /\ \A i \in 1..Len(rows) : rows'[i] = rows[i]
      /\ rows'[n] = s
      /\ ToSet(rows') = ToSet(rows) \cup {s}
      /\ \A i \in 1..n : i \in 1..Len(rows) \/ i = n
      /\ \A i \in 1..Len(rows) : i \in 1..n /\ rows[i] \in ToSet(rows)
  <2>1. Len(rows) \in Nat /\ \A i \in 1..Len(rows) : rows[i] \in ToSet(rows)
    BY Known
  <2> QED
    BY <1>1, <1>3, <1>5, <2>1, AppendedIs
<1>8. /\ cache'[p] = c /\ held'[p] = <<>>
      /\ \A q \in Procs \ {p} : cache'[q] = cache[q] /\ held'[q] = held[q]
      /\ cache' \in [Procs -> Seq(Event)] /\ held' \in [Procs -> Seq(Event)]
  BY <1>5, <1>6, Tables, EmptySeq
<1>9. /\ \A x \in ToSet(rows) : x.id # h.id
      /\ \A q \in Procs \ {p} : \A x \in ToSet(cache[q]) : x.id # h.id
  BY <1>0 DEF EventsIInv, HeldIsNew
<1> HIDE DEF h, n
<1>10. EventsTypeOK'
  BY <1>5, <1>7, <1>8, Tables DEF EventsTypeOK, EventsIInv
<1>11. StreamContiguous'
  BY <1>3, <1>7 DEF EventsIInv, StreamContiguous
<1>12. RowsDistinct'
  BY <1>3, <1>7, <1>9 DEF EventsIInv, RowsDistinct
<1>13. ASSUME NEW q \in Procs, NEW x \in ToSet(cache'[q])
       PROVE  (x \in ToSet(cache[q]) /\ x.id # h.id) \/ (q = p /\ x = s)
  BY <1>6, <1>8, <1>9, <1>13
<1>14. CacheCarriesStored'
  <2> SUFFICES ASSUME NEW q \in Procs, NEW x \in ToSet(cache'[q]), NEW r \in ToSet(rows'), x.id = r.id
               PROVE  x = r
    BY DEF CacheCarriesStored
  <2>1. CASE r = s
    BY <1>3, <1>13, <2>1
  <2>2. CASE r \in ToSet(rows)
    <3>1. x \in ToSet(cache[q])
      BY <1>3, <1>9, <1>13, <2>2
    <3> QED
      BY <2>2, <3>1 DEF EventsIInv, CacheCarriesStored
  <2> QED
    BY <1>7, <2>1, <2>2
<1>15. BelowNext'
  <2>1. \A x \in ToSet(rows') : x.id < next
    BY <1>1, <1>3, <1>7 DEF EventsIInv, BelowNext
  <2>2. \A q \in Procs : \A x \in ToSet(cache'[q]) : x.id < next /\ x.seq < next
    BY <1>0, <1>1, <1>3, <1>13, Tables
  <2> QED
    BY <1>5, <2>1, <2>2 DEF BelowNext
<1>16. AlwaysInOrder'
  BY <1>6, <1>8 DEF EventsIInv, AlwaysInOrder
<1>17. SnapshotIsPrefix'
  BY <1>5, <1>7 DEF EventsIInv, SnapshotIsPrefix
<1>18. HeldIsNew'
  <2> SUFFICES ASSUME NEW q \in Procs, held'[q] # <<>>
               PROVE  /\ \A r \in ToSet(rows') : r.id # held'[q][1].id
                      /\ \A r \in Procs \ {q} : \A x \in ToSet(cache'[r]) : x.id # held'[q][1].id
                      /\ \A i \in 1..(Len(cache'[q]) - 1) : cache'[q][i].id # held'[q][1].id
    BY DEF HeldIsNew
  <2>1. q # p /\ held'[q] = held[q] /\ cache'[q] = cache[q]
    BY <1>8
  <2>2. /\ \A r \in ToSet(rows) : r.id # held[q][1].id
        /\ \A r \in Procs \ {q} : \A x \in ToSet(cache[r]) : x.id # held[q][1].id
        /\ \A i \in 1..(Len(cache[q]) - 1) : cache[q][i].id # held[q][1].id
    BY <2>1 DEF EventsIInv, HeldIsNew
  <2>3. s.id # held[q][1].id
    <3>1. h \in ToSet(cache[p])
      BY <1>0, HeldIs DEF h
    <3> QED
      BY <1>3, <2>1, <2>2, <3>1
  <2>4. \A r \in Procs \ {q} : \A x \in ToSet(cache'[r]) : x.id # held[q][1].id
    BY <1>13, <2>2, <2>3
  <2> QED
    BY <1>7, <2>1, <2>2, <2>3, <2>4
<1> QED
  BY <1>10, <1>11, <1>12, <1>14, <1>15, <1>16, <1>17, <1>18 DEF EventsIInv

\* An event that is not stored stays where it is.
LEMMA SaveFailsStep ==
    ASSUME EventsIInv, NEW p \in Procs, SaveFails(p)
    PROVE  EventsIInv'
<1>1. /\ held' = [held EXCEPT ![p] = <<>>] /\ failures < MaxFailures /\ failures' = failures + 1
      /\ UNCHANGED <<rows, cache, snapshot, next>>
  BY DEF SaveFails
<1>2. /\ held' \in [Procs -> Seq(Event)]
      /\ \A q \in Procs : held'[q] = <<>> \/ held'[q] = held[q]
  BY <1>1, Tables, EmptySeq
<1>3. failures' \in 0..MaxFailures
  BY <1>1, Tables
<1>4. EventsTypeOK'
  BY <1>1, <1>2, <1>3 DEF EventsIInv, EventsTypeOK
<1>5. HeldIsNew'
  BY <1>1, <1>2 DEF EventsIInv, HeldIsNew
<1> QED
  BY <1>1, <1>4, <1>5 DEF EventsIInv, StreamContiguous, CacheCarriesStored, RowsDistinct, BelowNext,
     AlwaysInOrder, SnapshotIsPrefix

\* A refresh reads what is stored.
LEMMA ReadStep ==
    ASSUME EventsIInv, NEW p \in Procs, ReadEvents(p)
    PROVE  EventsIInv'
<1>1. /\ snapshot' = [snapshot EXCEPT ![p] = rows]
      /\ UNCHANGED <<rows, cache, held, next, failures>>
  BY DEF ReadEvents
<1>2. /\ snapshot' \in [Procs -> Seq(Event) \cup {NoSnapshot}]
      /\ snapshot'[p] = rows /\ \A q \in Procs \ {p} : snapshot'[q] = snapshot[q]
  BY <1>1, Tables, Known
<1>3. EventsTypeOK'
  BY <1>1, <1>2 DEF EventsIInv, EventsTypeOK
<1>4. SnapshotIsPrefix'
  BY <1>1, <1>2 DEF EventsIInv, SnapshotIsPrefix
<1> QED
  BY <1>1, <1>3, <1>4 DEF EventsIInv, StreamContiguous, CacheCarriesStored, RowsDistinct, BelowNext,
     AlwaysInOrder, HeldIsNew

\* What a refresh installs is stored, and nobody is saving it.
LEMMA InstallStep ==
    ASSUME EventsIInv, NEW p \in Procs, InstallEvents(p)
    PROVE  EventsIInv'
<1>1. /\ snapshot[p] # NoSnapshot /\ held[p] = <<>>
      /\ cache' = [cache EXCEPT ![p] = snapshot[p]]
      /\ snapshot' = [snapshot EXCEPT ![p] = NoSnapshot]
      /\ UNCHANGED <<rows, held, next, failures>>
  BY DEF InstallEvents
<1>2. PICK c : c = snapshot[p]
  OBVIOUS
<1>3. c \in Seq(Event)
  BY <1>1, <1>2, Tables
<1>4. /\ cache'[p] = c /\ \A q \in Procs \ {p} : cache'[q] = cache[q]
      /\ cache' \in [Procs -> Seq(Event)]
      /\ snapshot' \in [Procs -> Seq(Event) \cup {NoSnapshot}]
      /\ \A q \in Procs : snapshot'[q] = NoSnapshot \/ snapshot'[q] = snapshot[q]
  BY <1>1, <1>2, <1>3, Tables
<1>5. \A i \in DOMAIN c : i \in DOMAIN rows /\ c[i] = rows[i] /\ c[i] \in ToSet(rows)
  BY <1>1, <1>2 DEF EventsIInv, SnapshotIsPrefix, ToSet
<1>6. \A x \in ToSet(c) : x \in ToSet(rows)
  BY <1>5 DEF ToSet
<1>7. DOMAIN rows = 1..Len(rows) /\ Len(rows) \in Nat /\ \A i \in DOMAIN rows : rows[i].seq = i
  BY Known DEF EventsIInv, StreamContiguous
<1>8. EventsTypeOK'
  BY <1>1, <1>4 DEF EventsIInv, EventsTypeOK
<1>9. \A x, y \in ToSet(rows) : x.id = y.id => x = y
  BY DEF EventsIInv, RowsDistinct, ToSet
<1>10. CacheCarriesStored'
  BY <1>1, <1>4, <1>6, <1>9 DEF EventsIInv, CacheCarriesStored
<1>11. BelowNext'
  <2>1. \A i \in DOMAIN rows : rows[i].seq < next
    \* no number of a stored event runs ahead of the identifiers
    <3>1. \A i \in 1..Len(rows) : rows[i].seq = i
      BY <1>7
    <3>2. Len(rows) < next
      BY FewerStored
    <3> QED
      BY <1>7, <3>1, <3>2, Known
  <2>2. \A x \in ToSet(c) : x.id < next /\ x.seq < next
    BY <1>5, <1>6, <2>1 DEF EventsIInv, BelowNext, ToSet
  <2> QED
    BY <1>1, <1>4, <2>2 DEF EventsIInv, BelowNext
<1>12. AlwaysInOrder'
  <2>1. \A i, j \in DOMAIN c : i < j => c[i].seq <= c[j].seq
    BY <1>5, <1>7
  <2> QED
    BY <1>4, <2>1 DEF EventsIInv, AlwaysInOrder
<1>13. SnapshotIsPrefix'
  BY <1>1, <1>4 DEF EventsIInv, SnapshotIsPrefix
<1>14. HeldIsNew'
  <2> SUFFICES ASSUME NEW q \in Procs, held[q] # <<>>
               PROVE  /\ \A s \in ToSet(rows) : s.id # held[q][1].id
                      /\ \A r \in Procs \ {q} : \A x \in ToSet(cache'[r]) : x.id # held[q][1].id
                      /\ \A i \in 1..(Len(cache'[q]) - 1) : cache'[q][i].id # held[q][1].id
    BY <1>1 DEF HeldIsNew
  <2>1. q # p /\ cache'[q] = cache[q]
    BY <1>1, <1>4
  <2>2. /\ \A s \in ToSet(rows) : s.id # held[q][1].id
        /\ \A r \in Procs \ {q} : \A x \in ToSet(cache[r]) : x.id # held[q][1].id
        /\ \A i \in 1..(Len(cache[q]) - 1) : cache[q][i].id # held[q][1].id
    BY DEF EventsIInv, HeldIsNew
  <2>3. ASSUME NEW r \in Procs \ {q}, NEW x \in ToSet(cache'[r])
        PROVE  x.id # held[q][1].id
    <3>1. CASE r = p
      BY <1>4, <1>6, <2>2, <3>1
    <3>2. CASE r # p
      BY <1>4, <2>2, <3>2
    <3> QED
      BY <3>1, <3>2
  <2> QED
    BY <2>1, <2>2, <2>3
<1> QED
  BY <1>1, <1>8, <1>10, <1>11, <1>12, <1>13, <1>14 DEF EventsIInv, StreamContiguous, RowsDistinct

LEMMA EventsInitOK == EventsInit => EventsIInv
<1> SUFFICES ASSUME EventsInit
             PROVE  EventsIInv
  OBVIOUS
<1>1. /\ <<>> \in Seq(Event) /\ DOMAIN <<>> = {} /\ ToSet(<<>>) = {}
      /\ 1 \in 1..(MaxEvents + 1) /\ 0 \in 0..MaxFailures
  BY EventsAssumption, EmptySeq DEF ToSet
<1>2. EventsTypeOK
  BY <1>1 DEF EventsInit, EventsTypeOK
<1>3. StreamContiguous /\ RowsDistinct /\ SnapshotIsPrefix
  BY <1>1 DEF EventsInit, StreamContiguous, RowsDistinct, SnapshotIsPrefix
<1>4. CacheCarriesStored /\ BelowNext /\ AlwaysInOrder /\ HeldIsNew
  BY <1>1 DEF EventsInit, CacheCarriesStored, BelowNext, AlwaysInOrder, HeldIsNew
<1> QED
  BY <1>2, <1>3, <1>4 DEF EventsIInv

LEMMA EventsStep == EventsIInv /\ [EventsNext]_eventVars => EventsIInv'
<1>1. ASSUME EventsIInv, EventsNext
      PROVE  EventsIInv'
  BY <1>1, AppendStep, SaveStep, SaveFailsStep, ReadStep, InstallStep DEF EventsNext
<1>2. ASSUME EventsIInv, UNCHANGED eventVars
      PROVE  EventsIInv'
  BY <1>2 DEF eventVars, EventsIInv, EventsTypeOK, StreamContiguous, CacheCarriesStored, RowsDistinct, BelowNext,
     AlwaysInOrder, SnapshotIsPrefix, HeldIsNew
<1> QED
  BY <1>1, <1>2

LEMMA EventsInvariant == EventsSpec => []EventsIInv
<1> QED
  BY EventsInitOK, EventsStep, PTL DEF EventsSpec

\* For any processes, events and failures the stored events of a run are numbered 1, 2,
\* 3, ... without a gap and without a number used twice.
THEOREM EventsContiguous == EventsSpec => []StreamContiguous
<1>1. EventsIInv => StreamContiguous
  BY DEF EventsIInv
<1> QED
  BY <1>1, EventsInvariant, PTL

\* For any processes, events and failures a cached event that is stored carries the
\* number it is stored under, and the caches are in the order of the numbers.
THEOREM EventsSafe == EventsSpec => []EventsInv
<1>1. EventsIInv => EventsInv
  BY DEF EventsIInv, EventsInv, AlwaysInOrder, CacheInOrder
<1> QED
  BY <1>1, EventsInvariant, PTL

=============================================================================
