-------------------------- MODULE CodexProcessProofs --------------------------
(***************************************************************************)
(* Proofs about the requests to the app-server, for any number of callers, *)
(* calls and generations: who waits is in the table of the connection its  *)
(* request went to, the current connection is the newest one, and only an  *)
(* answer to a timed out request is an unknown one.                        *)
(***************************************************************************)
EXTENDS CodexProcess, TLAPS

\* A caller that has begun a call holds a generation.
CallersAreBound ==
    \A c \in Clients: client[c].pc # "idle" => client[c].gen \in Gens /\ client[c].calls # 0

\* What a caller is going to ask has not been asked: no id is issued twice.
CallsAreFresh ==
    \A c \in Clients, n \in 1..MaxCalls:
        \/ n > client[c].calls
        \/ n = client[c].calls /\ client[c].pc \in {"started", "armed", "waiting", "ready"}
        => req[<<c, n>>].pc = "unused"

\* A request that was issued has a generation.
RequestsAreBound == \A r \in Requests: req[r].pc # "unused" => req[r].gen \in Gens

\* What the app-server has read was written to it and is not answered; it has
\* failed only if the reader of the connection has drained the table.
ServedWasWritten ==
    \A g \in Gens: \A r \in server[g]:
        /\ req[r].gen = g
        /\ req[r].pc \in {"written", "failed", "timedout"}
        /\ req[r].pc = "failed" => conn[g].reader \notin {"absent", "reading"}

ProcIInv ==
    /\ ProcTypeOK /\ WaitsInTable /\ CurrentIsNewest
    /\ CallersAreBound /\ CallsAreFresh /\ RequestsAreBound /\ ServedWasWritten

LEMMA ProcInvHolds == ASSUME ProcIInv PROVE ProcInv
<1>1. OnlyLateAnswersBreak
  BY DEF ProcIInv, OnlyLateAnswersBreak, ServedWasWritten, WaitsInTable, Waiting, ProcTypeOK
<1> QED
  BY <1>1 DEF ProcIInv, ProcInv

LEMMA CallIds ==
    ASSUME NEW c \in Clients, NEW n \in 1..MaxCalls
    PROVE  <<c, n>> \in Requests /\ \A g \in Gens: InitId(g) \in Requests /\ InitId(g) # <<c, n>>
BY ProcessAssumption DEF Requests, InitId, Gens

LEMMA InitIds == \A g \in Gens: InitId(g) \in Requests
BY ProcessAssumption DEF Requests, InitId, Gens

LEMMA ProcInitInv == ASSUME ProcInit PROVE ProcIInv
<1>1. ProcTypeOK
  BY ProcessAssumption DEF ProcInit, ProcTypeOK, Connection, ClientState, Request, Absent
<1>2. \A c \in Clients, n \in 1..MaxCalls: req[<<c, n>>].pc = "unused"
  BY CallIds DEF ProcInit
<1>3. WaitsInTable
  BY DEF ProcInit, WaitsInTable, Waiting
<1>4. CurrentIsNewest
  BY ProcessAssumption DEF ProcInit, CurrentIsNewest, Absent, Gens
<1>5. CallersAreBound /\ RequestsAreBound /\ ServedWasWritten
  BY DEF ProcInit, CallersAreBound, RequestsAreBound, ServedWasWritten
<1>6. CallsAreFresh
  BY <1>2 DEF CallsAreFresh
<1> QED
  BY <1>1, <1>3, <1>4, <1>5, <1>6 DEF ProcIInv

-----------------------------------------------------------------------------
(* What ensure_started does to the connections *)

\* It returns the current connection, which is the newest one and alone open.
LEMMA StartedIsCurrent ==
    ASSUME ProcTypeOK, CurrentIsNewest, NEW g \in Gens, IsStarted(g)
    PROVE  /\ Started(g) \in [Gens -> Connection]
           /\ \A h \in Gens: Started(g)[h].reader \in {"reading", "left", "drained"} <=> h = g
           /\ \A h \in Gens: conn[h].reader \notin {"absent", "reading"}
                                => Started(g)[h] = conn[h]
<1>1. Spawned \in Connection
  BY DEF Spawned, Connection
<1>2. CASE current = None
  <2>1. Started(g) = [conn EXCEPT ![g] = Spawned] /\ conn[g].reader = "absent"
    BY <1>2 DEF Started, IsStarted, Fresh
  <2>2. \A h \in Gens: current # h
    BY <1>2, ProcessAssumption DEF Gens
  <2> QED
    BY <1>1, <2>1, <2>2 DEF ProcTypeOK, CurrentIsNewest, Spawned
<1>3. CASE current # None
  BY <1>3 DEF Started, IsStarted, ProcTypeOK, CurrentIsNewest
<1> QED
  BY <1>2, <1>3

-----------------------------------------------------------------------------
(* The callers *)

LEMMA CallKeeps == ASSUME ProcIInv, NEW c \in Clients, Call(c) PROVE ProcIInv'
<1> USE DEF ProcIInv
<1>1. PICK g \in Gens:
        /\ IsStarted(g) /\ current' = g
        /\ conn' = [Started(g) EXCEPT ![g].init = IF @ = "none" THEN "begun" ELSE @]
        /\ client' = [client EXCEPT ![c].pc = "started", ![c].gen = g, ![c].calls = @ + 1]
  BY DEF Call
<1>2. UNCHANGED <<req, pending, server>> /\ client[c].pc = "idle" /\ client[c].calls < MaxCalls
  BY DEF Call
<1>3. /\ conn' \in [Gens -> Connection]
      /\ \A h \in Gens: conn'[h].reader = Started(g)[h].reader
  <2>1. Started(g)[g] \in Connection
    BY <1>1, StartedIsCurrent
  <2>2. [Started(g)[g] EXCEPT !.init = IF @ = "none" THEN "begun" ELSE @] \in Connection
    BY <2>1 DEF Connection
  <2> QED
    BY <1>1, <2>1, <2>2, StartedIsCurrent DEF Connection
<1>4. client' \in [Clients -> ClientState]
  <2>1. client[c] \in ClientState /\ client[c].calls + 1 \in 0..MaxCalls
    BY <1>2, ProcessAssumption DEF ProcTypeOK, ClientState
  <2>2. [client[c] EXCEPT !.pc = "started", !.gen = g, !.calls = @ + 1] \in ClientState
    BY <2>1 DEF ClientState
  <2> QED
    BY <1>1, <2>2 DEF ProcTypeOK
<1>5. ProcTypeOK'
  BY <1>1, <1>2, <1>3, <1>4 DEF ProcTypeOK
<1>6. CurrentIsNewest'
  BY <1>1, <1>3, StartedIsCurrent DEF CurrentIsNewest
<1>7. CallersAreBound' /\ CallsAreFresh'
  <2>1. client[c].calls \in Nat /\ client'[c].calls = client[c].calls + 1 /\ client'[c].gen = g
        /\ \A d \in Clients \ {c}: client'[d] = client[d]
    BY <1>1 DEF ProcTypeOK, ClientState
  <2> QED
    BY <1>2, <2>1 DEF CallersAreBound, CallsAreFresh
<1>8. ServedWasWritten'
  BY <1>1, <1>2, <1>3, StartedIsCurrent DEF ServedWasWritten
<1> QED
  BY <1>2, <1>5, <1>6, <1>7, <1>8 DEF WaitsInTable, Waiting, RequestsAreBound

\* The steps of a caller that move its program counter and nothing else.
LEMMA WaitKeeps ==
    ASSUME ProcIInv, NEW c \in Clients, Arm(c) \/ Check(c) \/ Wake(c) \/ NoConnection(c) \/ Return(c)
    PROVE  ProcIInv'
<1> USE DEF ProcIInv
<1>1. UNCHANGED <<current, conn, req, pending, server>>
  BY DEF Arm, Check, Wake, NoConnection, Return
<1>2. client[c] \in ClientState
  BY DEF ProcTypeOK
<1>3. PICK pc \in {"idle", "started", "armed", "waiting", "ready"}, a \in BOOLEAN:
        /\ client' = [client EXCEPT ![c] = [client[c] EXCEPT !.pc = pc, !.armed = a]]
        /\ pc = "idle" \/ client[c].pc \in {"started", "armed", "waiting", "ready"}
  <2>1. CASE Arm(c)
    <3>1. conn[client[c].gen].notified \in BOOLEAN
      BY <2>1 DEF Arm, ProcTypeOK, CallersAreBound, Connection
    <3>2. client' = [client EXCEPT ![c] = [client[c] EXCEPT !.pc = "armed",
                                             !.armed = ~conn[client[c].gen].notified]]
      BY <2>1 DEF Arm
    <3> QED
      BY <2>1, <3>1, <3>2 DEF Arm
  <2>2. ASSUME NEW pc \in {"idle", "started", "armed", "waiting", "ready"},
               client' = [client EXCEPT ![c].pc = pc]
        PROVE  client' = [client EXCEPT ![c] = [client[c] EXCEPT !.pc = pc, !.armed = client[c].armed]]
    BY <1>2, <2>2 DEF ProcTypeOK, ClientState
  <2>3. client[c].armed \in BOOLEAN
    BY <1>2 DEF ClientState
  <2>4. CASE Check(c)
    <3> DEFINE init == conn[client[c].gen].init
    <3> DEFINE pc == CASE init = "ok" -> "ready" [] init = "failed" -> "idle" [] OTHER -> "waiting"
    <3>1. pc \in {"idle", "started", "armed", "waiting", "ready"}
      OBVIOUS
    <3>2. client' = [client EXCEPT ![c].pc = pc] /\ client[c].pc = "armed"
      BY <2>4 DEF Check
    <3> HIDE DEF pc
    <3> QED
      BY <2>2, <2>3, <3>1, <3>2
  <2>5. CASE Wake(c) \/ NoConnection(c) \/ Return(c)
    BY <2>2, <2>3, <2>5 DEF Wake, NoConnection, Return
  <2> QED
    BY <2>1, <2>4, <2>5
<1>4. client' \in [Clients -> ClientState]
  <2>1. [client[c] EXCEPT !.pc = pc, !.armed = a] \in ClientState
    BY <1>2 DEF ClientState
  <2> QED
    BY <1>3, <2>1 DEF ProcTypeOK
<1>5. /\ client'[c].pc = pc /\ client'[c].gen = client[c].gen /\ client'[c].calls = client[c].calls
      /\ \A d \in Clients \ {c}: client'[d] = client[d]
  BY <1>2, <1>3 DEF ProcTypeOK, ClientState
<1>6. CallersAreBound' /\ CallsAreFresh'
  BY <1>1, <1>3, <1>5 DEF CallersAreBound, CallsAreFresh
<1> QED
  BY <1>1, <1>4, <1>6 DEF ProcTypeOK, WaitsInTable, Waiting, CurrentIsNewest, RequestsAreBound,
     ServedWasWritten

\* A request that was not issued before is issued.
LEMMA Registered ==
    ASSUME ProcIInv, NEW r \in Requests, NEW g \in Gens, req[r].pc = "unused", Register(r, g)
    PROVE  /\ req' \in [Requests -> Request] /\ pending' \in [Gens -> SUBSET Requests]
           /\ server' = server
           /\ \A q \in Requests \ {r}: req'[q] = req[q]
           /\ WaitsInTable' /\ RequestsAreBound'
           /\ \A h \in Gens: r \notin server[h]
<1> USE DEF ProcIInv
<1>1. [pc |-> "registered", gen |-> g] \in Request
  BY DEF Request
<1>2. /\ req' \in [Requests -> Request] /\ server' = server
      /\ req'[r] = [pc |-> "registered", gen |-> g]
      /\ \A q \in Requests \ {r}: req'[q] = req[q]
  BY <1>1 DEF Register, ProcTypeOK
<1>3. /\ pending' \in [Gens -> SUBSET Requests]
      /\ \A h \in Gens: pending'[h] = IF h = g THEN pending[g] \cup {r} ELSE pending[h]
  BY DEF Register, ProcTypeOK
<1>4. WaitsInTable'
  BY <1>2, <1>3 DEF WaitsInTable, Waiting
<1>5. RequestsAreBound' /\ \A h \in Gens: r \notin server[h]
  BY <1>2 DEF RequestsAreBound, ServedWasWritten
<1> QED
  BY <1>2, <1>3, <1>4, <1>5

LEMMA AskKeeps == ASSUME ProcIInv, NEW c \in Clients, Ask(c) PROVE ProcIInv'
<1> USE DEF ProcIInv
<1>1. PICK g \in Gens:
        /\ IsStarted(g)
        /\ current' = g /\ conn' = Started(g)
        /\ client' = [client EXCEPT ![c].pc = "asking", ![c].gen = g]
        /\ Register(CallId(c), g)
  BY DEF Ask
<1>2. client[c] \in ClientState /\ client[c].pc = "ready" /\ client[c].calls \in 1..MaxCalls
  <2>1. client[c] \in ClientState /\ client[c].pc = "ready" /\ client[c].calls # 0
    BY DEF Ask, ProcTypeOK, CallersAreBound
  <2> QED
    BY <2>1, ProcessAssumption DEF ClientState
<1>3. CallId(c) \in Requests /\ req[CallId(c)].pc = "unused"
  BY <1>2, CallIds DEF CallsAreFresh, CallId
<1>4. /\ req' \in [Requests -> Request] /\ pending' \in [Gens -> SUBSET Requests]
      /\ server' = server
      /\ \A q \in Requests \ {CallId(c)}: req'[q] = req[q]
      /\ WaitsInTable' /\ RequestsAreBound'
      /\ \A h \in Gens: CallId(c) \notin server[h]
  BY <1>1, <1>3, Registered
<1>5. client' \in [Clients -> ClientState]
  <2>1. [client[c] EXCEPT !.pc = "asking", !.gen = g] \in ClientState
    BY <1>2 DEF ClientState
  <2> QED
    BY <1>1, <2>1 DEF ProcTypeOK
<1>6. /\ client'[c].pc = "asking" /\ client'[c].gen = g /\ client'[c].calls = client[c].calls
      /\ \A d \in Clients \ {c}: client'[d] = client[d]
  BY <1>1, <1>2 DEF ProcTypeOK, ClientState
<1>7. ProcTypeOK' /\ CurrentIsNewest'
  BY <1>1, <1>4, <1>5, StartedIsCurrent DEF ProcTypeOK, CurrentIsNewest
<1>8. CallersAreBound'
  BY <1>2, <1>6 DEF CallersAreBound
<1>9. CallsAreFresh'
  <2> SUFFICES ASSUME NEW d \in Clients, NEW n \in 1..MaxCalls,
                      \/ n > client'[d].calls
                      \/ n = client'[d].calls /\ client'[d].pc \in {"started", "armed", "waiting", "ready"}
               PROVE  req'[<<d, n>>].pc = "unused"
    BY DEF CallsAreFresh
  <2>1. <<d, n>> \in Requests
    BY CallIds
  <2>2. <<d, n>> # CallId(c)
    <3>1. CASE d = c
      BY <1>2, <1>6, <3>1 DEF CallId
    <3>2. CASE d # c
      BY <3>2 DEF CallId
    <3> QED
      BY <3>1, <3>2
  <2>3. req[<<d, n>>].pc = "unused"
    BY <1>6 DEF CallsAreFresh
  <2> QED
    BY <1>4, <2>1, <2>2, <2>3
<1>10. ServedWasWritten'
  <2> SUFFICES ASSUME NEW h \in Gens, NEW r \in server[h]
               PROVE  /\ req'[r].gen = h /\ req'[r].pc \in {"written", "failed", "timedout"}
                      /\ req'[r].pc = "failed" => conn'[h].reader \notin {"absent", "reading"}
    BY <1>4 DEF ServedWasWritten
  <2>1. r \in Requests /\ req'[r] = req[r]
    BY <1>4 DEF ProcTypeOK
  <2> QED
    BY <1>1, <2>1, StartedIsCurrent DEF ServedWasWritten
<1> QED
  BY <1>4, <1>7, <1>8, <1>9, <1>10

-----------------------------------------------------------------------------
(* Requests *)

\* A request that waits is concluded: it leaves the table.  One that the
\* app-server still has can only have timed out.
LEMMA ConcludeKeeps ==
    ASSUME ProcIInv, NEW r \in Requests, Waiting(r),
           NEW result \in {"answered", "failed", "timedout"},
           req' = [req EXCEPT ![r].pc = result],
           pending' = [pending EXCEPT ![req[r].gen] = @ \ {r}],
           server' \in [Gens -> SUBSET Requests],
           \A h \in Gens: server'[h] \subseteq server[h] /\ (r \in server'[h] => result = "timedout"),
           UNCHANGED <<current, conn, client>>
    PROVE  ProcIInv'
<1> USE DEF ProcIInv
<1>1. req[r] \in Request /\ req[r].gen \in Gens
  BY DEF ProcTypeOK, RequestsAreBound, Waiting
<1>2. /\ req' \in [Requests -> Request] /\ req'[r].pc = result /\ req'[r].gen = req[r].gen
      /\ \A q \in Requests \ {r}: req'[q] = req[q]
  BY <1>1 DEF ProcTypeOK, Request
<1>3. /\ pending' \in [Gens -> SUBSET Requests]
      /\ \A h \in Gens: pending'[h] = IF h = req[r].gen THEN pending[h] \ {r} ELSE pending[h]
  BY DEF ProcTypeOK
<1>4. WaitsInTable'
  BY <1>2, <1>3 DEF WaitsInTable, Waiting
<1>5. RequestsAreBound'
  BY <1>1, <1>2 DEF RequestsAreBound
<1>6. CallsAreFresh'
  <2>1. req[r].pc # "unused"
    BY DEF Waiting
  <2> QED
    BY <1>2, <2>1, CallIds DEF CallsAreFresh
<1>7. ServedWasWritten'
  <2> SUFFICES ASSUME NEW h \in Gens, NEW q \in server'[h]
               PROVE  /\ req'[q].gen = h /\ req'[q].pc \in {"written", "failed", "timedout"}
                      /\ req'[q].pc = "failed" => conn[h].reader \notin {"absent", "reading"}
    BY DEF ServedWasWritten
  <2>1. q \in Requests /\ q \in server[h] /\ (q = r => result = "timedout")
    OBVIOUS
  <2> QED
    BY <1>2, <2>1 DEF ServedWasWritten
<1> QED
  BY <1>2, <1>3, <1>4, <1>5, <1>6, <1>7 DEF ProcTypeOK, CurrentIsNewest, CallersAreBound

LEMMA WriteKeeps == ASSUME ProcIInv, NEW r \in Requests, Write(r) PROVE ProcIInv'
<1> USE DEF ProcIInv
<1>1. /\ req[r].pc = "registered" /\ req[r] \in Request /\ req[r].gen \in Gens
      /\ \A h \in Gens: r \notin server[h]
  BY DEF Write, ProcTypeOK, RequestsAreBound, ServedWasWritten
<1>2. CASE conn[req[r].gen].alive
  <2>1. /\ req' = [req EXCEPT ![r].pc = "written"]
        /\ server' = [server EXCEPT ![req[r].gen] = @ \cup {r}]
        /\ UNCHANGED <<pending, current, conn, client>>
    BY <1>2 DEF Write
  <2>2. /\ req' \in [Requests -> Request] /\ req'[r].pc = "written" /\ req'[r].gen = req[r].gen
        /\ \A q \in Requests \ {r}: req'[q] = req[q]
    BY <1>1, <2>1 DEF ProcTypeOK, Request
  <2>3. /\ server' \in [Gens -> SUBSET Requests]
        /\ \A h \in Gens: server'[h] = IF h = req[r].gen THEN server[h] \cup {r} ELSE server[h]
    BY <2>1 DEF ProcTypeOK
  <2>4. WaitsInTable' /\ RequestsAreBound'
    BY <1>1, <2>1, <2>2 DEF WaitsInTable, Waiting, RequestsAreBound
  <2>5. CallsAreFresh'
    BY <1>1, <2>1, <2>2, CallIds DEF CallsAreFresh
  <2>6. ServedWasWritten'
    <3> SUFFICES ASSUME NEW h \in Gens, NEW q \in server'[h]
                 PROVE  /\ req'[q].gen = h /\ req'[q].pc \in {"written", "failed", "timedout"}
                        /\ req'[q].pc = "failed" => conn[h].reader \notin {"absent", "reading"}
      BY <2>1 DEF ServedWasWritten
    <3>1. q \in Requests /\ (q \in server[h] \/ (q = r /\ h = req[r].gen))
      BY <2>3
    <3>2. CASE q = r
      BY <1>1, <2>2, <3>1, <3>2
    <3>3. CASE q # r
      BY <2>2, <3>1, <3>3 DEF ServedWasWritten
    <3> QED
      BY <3>2, <3>3
  <2> QED
    BY <2>1, <2>2, <2>3, <2>4, <2>5, <2>6 DEF ProcTypeOK, CurrentIsNewest, CallersAreBound
<1>3. CASE ~conn[req[r].gen].alive
  <2>1. /\ req' = [req EXCEPT ![r].pc = "failed"]
        /\ pending' = [pending EXCEPT ![req[r].gen] = @ \ {r}]
        /\ UNCHANGED <<server, current, conn, client>>
    BY <1>3 DEF Write
  <2>2. Waiting(r)
    BY <1>1 DEF Waiting
  <2> QED
    BY <1>1, <2>1, <2>2, ConcludeKeeps DEF ProcTypeOK
<1> QED
  BY <1>2, <1>3

LEMMA TimeoutKeeps == ASSUME ProcIInv, NEW r \in Requests, Timeout(r) PROVE ProcIInv'
<1>1. Waiting(r)
  BY DEF Timeout, Waiting
<1> QED
  BY <1>1, ConcludeKeeps DEF Timeout, ProcIInv, ProcTypeOK

LEMMA AnswerKeeps ==
    ASSUME ProcIInv, NEW g \in Gens, NEW r \in Requests, Answer(g, r) PROVE ProcIInv'
<1> USE DEF ProcIInv
<1>1. Waiting(r) /\ req[r].gen = g
  BY DEF Answer, WaitsInTable
<1>2. /\ server' \in [Gens -> SUBSET Requests]
      /\ \A h \in Gens: server'[h] = IF h = g THEN server[h] \ {r} ELSE server[h]
  BY DEF Answer, ProcTypeOK
<1>3. \A h \in Gens: r \notin server'[h]
  BY <1>1, <1>2 DEF ServedWasWritten
<1> QED
  BY <1>1, <1>2, <1>3, ConcludeKeeps DEF Answer

-----------------------------------------------------------------------------
(* Connections *)

\* A connection takes its next state: its reader goes on, and what the server has
\* may become less.
LEMMA ConnKeeps ==
    ASSUME ProcIInv, NEW g \in Gens, NEW next \in Connection,
           conn' = [conn EXCEPT ![g] = next],
           next.reader \in {"absent", "reading"} => conn[g].reader \in {"absent", "reading"},
           server' \in [Gens -> SUBSET Requests],
           \A h \in Gens: server'[h] \subseteq server[h],
           current' \in Gens \cup {None}, CurrentIsNewest',
           UNCHANGED <<client, req, pending>>
    PROVE  ProcIInv'
<1> USE DEF ProcIInv
<1>1. /\ conn' \in [Gens -> Connection] /\ conn'[g] = next
      /\ \A h \in Gens \ {g}: conn'[h] = conn[h]
  BY DEF ProcTypeOK
<1>2. ServedWasWritten'
  BY <1>1 DEF ServedWasWritten
<1> QED
  BY <1>1, <1>2 DEF ProcTypeOK, WaitsInTable, Waiting, CallersAreBound, CallsAreFresh, RequestsAreBound

\* A step that changes a connection but not where its reader is.
LEMMA SameReaderKeeps ==
    ASSUME ProcIInv, NEW g \in Gens, NEW next \in Connection,
           conn' = [conn EXCEPT ![g] = next], next.reader = conn[g].reader,
           UNCHANGED <<current, client, req, pending, server>>
    PROVE  ProcIInv'
<1>1. CurrentIsNewest'
  BY DEF ProcIInv, CurrentIsNewest, ProcTypeOK
<1> QED
  BY <1>1, ConnKeeps DEF ProcIInv, ProcTypeOK

LEMMA ConnTyped == ASSUME ProcTypeOK, NEW g \in Gens PROVE conn[g] \in Connection
BY DEF ProcTypeOK

LEMMA InitAskKeeps == ASSUME ProcIInv, NEW g \in Gens, InitAsk(g) PROVE ProcIInv'
<1> USE DEF ProcIInv
<1>1. /\ req' \in [Requests -> Request] /\ pending' \in [Gens -> SUBSET Requests]
      /\ server' = server
      /\ \A q \in Requests \ {InitId(g)}: req'[q] = req[q]
      /\ WaitsInTable' /\ RequestsAreBound'
      /\ \A h \in Gens: InitId(g) \notin server[h]
  BY InitIds, Registered DEF InitAsk
<1>2. UNCHANGED <<current, conn, client>>
  BY DEF InitAsk
<1>3. CallsAreFresh'
  BY <1>1, <1>2, CallIds DEF CallsAreFresh
<1>4. ServedWasWritten'
  <2> SUFFICES ASSUME NEW h \in Gens, NEW r \in server[h]
               PROVE  /\ req'[r].gen = h /\ req'[r].pc \in {"written", "failed", "timedout"}
                      /\ req'[r].pc = "failed" => conn[h].reader \notin {"absent", "reading"}
    BY <1>1, <1>2 DEF ServedWasWritten
  <2>1. r \in Requests /\ req'[r] = req[r]
    BY <1>1 DEF ProcTypeOK
  <2> QED
    BY <2>1 DEF ServedWasWritten
<1> QED
  BY <1>1, <1>2, <1>3, <1>4 DEF ProcTypeOK, CurrentIsNewest, CallersAreBound

\* The initialization cell and its wakeup, and the exit of the child.
LEMMA CellKeeps ==
    ASSUME ProcIInv, NEW g \in Gens, InitSet(g) \/ InitNotify(g) \/ Exit(g) PROVE ProcIInv'
<1>1. conn[g] \in Connection
  BY ConnTyped DEF ProcIInv
<1>2. UNCHANGED <<current, client, req, pending, server>>
  BY DEF InitSet, InitNotify, Exit
<1>3. CASE InitSet(g)
  <2>1. PICK result \in {"ok", "failed"}: conn' = [conn EXCEPT ![g].init = result]
    BY <1>3 DEF InitSet
  <2>2. conn' = [conn EXCEPT ![g] = [conn[g] EXCEPT !.init = result]]
    BY <2>1
  <2>3. [conn[g] EXCEPT !.init = result] \in Connection
        /\ [conn[g] EXCEPT !.init = result].reader = conn[g].reader
    BY <1>1 DEF Connection
  <2> QED
    BY <1>2, <2>2, <2>3, SameReaderKeeps
<1>4. CASE InitNotify(g)
  <2>1. conn' = [conn EXCEPT ![g] = [conn[g] EXCEPT !.notified = TRUE]]
    BY <1>4 DEF InitNotify
  <2>2. [conn[g] EXCEPT !.notified = TRUE] \in Connection
        /\ [conn[g] EXCEPT !.notified = TRUE].reader = conn[g].reader
    BY <1>1 DEF Connection
  <2> QED
    BY <1>2, <2>1, <2>2, SameReaderKeeps
<1>5. CASE Exit(g)
  <2>1. conn' = [conn EXCEPT ![g] = [conn[g] EXCEPT !.alive = FALSE]]
    BY <1>5 DEF Exit
  <2>2. [conn[g] EXCEPT !.alive = FALSE] \in Connection
        /\ [conn[g] EXCEPT !.alive = FALSE].reader = conn[g].reader
    BY <1>1 DEF Connection
  <2> QED
    BY <1>2, <2>1, <2>2, SameReaderKeeps
<1> QED
  BY <1>3, <1>4, <1>5

\* The reader leaves its loop.
LEMMA LeaveKeeps ==
    ASSUME ProcIInv, NEW g \in Gens,
           LeaveLoop(g) \/ \E r \in Requests: UnknownAnswer(g, r)
    PROVE  ProcIInv'
<1> DEFINE next == [conn[g] EXCEPT !.reader = "left"]
<1>1. conn[g] \in Connection /\ conn[g].reader = "reading" /\ conn' = [conn EXCEPT ![g] = next]
  BY ConnTyped DEF ProcIInv, LeaveLoop, UnknownAnswer
<1>2. next \in Connection /\ next.reader = "left"
  BY <1>1 DEF Connection
<1>3. UNCHANGED <<current, client, req, pending>>
  BY DEF LeaveLoop, UnknownAnswer
<1>4. server' \in [Gens -> SUBSET Requests] /\ \A h \in Gens: server'[h] \subseteq server[h]
  BY DEF ProcIInv, ProcTypeOK, LeaveLoop, UnknownAnswer
<1> HIDE DEF next
<1>5. CurrentIsNewest'
  BY <1>1, <1>2, <1>3 DEF ProcIInv, ProcTypeOK, CurrentIsNewest
<1> QED
  BY <1>1, <1>2, <1>3, <1>4, <1>5, ConnKeeps DEF ProcIInv, ProcTypeOK

LEMMA DrainKeeps == ASSUME ProcIInv, NEW g \in Gens, Drain(g) PROVE ProcIInv'
<1> USE DEF ProcIInv
<1>1. /\ conn' \in [Gens -> Connection]
      /\ conn[g].reader = "left" /\ conn'[g].reader = "drained"
      /\ \A h \in Gens \ {g}: conn'[h] = conn[h]
  <2>1. conn' = [conn EXCEPT ![g] = [conn[g] EXCEPT !.reader = "drained"]] /\ conn[g].reader = "left"
    BY DEF Drain
  <2>2. [conn[g] EXCEPT !.reader = "drained"] \in Connection
        /\ [conn[g] EXCEPT !.reader = "drained"].reader = "drained"
    BY ConnTyped DEF Connection
  <2> QED
    BY <2>1, <2>2 DEF ProcTypeOK
<1>2. /\ \A r \in Requests: req[r] \in Request
      /\ req' = [r \in Requests |->
           IF r \in pending[g] THEN [req[r] EXCEPT !.pc = "failed"] ELSE req[r]]
  BY DEF Drain, ProcTypeOK
<1>3. /\ req' \in [Requests -> Request]
      /\ \A r \in Requests: /\ req'[r].gen = req[r].gen
                            /\ req'[r].pc = IF r \in pending[g] THEN "failed" ELSE req[r].pc
  BY <1>2 DEF Request
<1>4. /\ pending' \in [Gens -> SUBSET Requests] /\ pending'[g] = {}
      /\ \A h \in Gens \ {g}: pending'[h] = pending[h]
  BY DEF Drain, ProcTypeOK
<1>5. UNCHANGED <<current, client, server>>
  BY DEF Drain
<1>6. CurrentIsNewest'
  BY <1>1, <1>5 DEF CurrentIsNewest
<1>7. WaitsInTable'
  BY <1>3, <1>4 DEF WaitsInTable, Waiting
<1>8. \A r \in pending[g]: req[r].pc # "unused" /\ req[r].gen = g
  BY DEF WaitsInTable, Waiting, ProcTypeOK
<1>9. CallsAreFresh'
  BY <1>3, <1>5, <1>8, CallIds DEF CallsAreFresh
<1>10. RequestsAreBound'
  BY <1>3, <1>8 DEF RequestsAreBound
<1>11. ServedWasWritten'
  <2> SUFFICES ASSUME NEW h \in Gens, NEW r \in server[h]
               PROVE  /\ req'[r].gen = h /\ req'[r].pc \in {"written", "failed", "timedout"}
                      /\ req'[r].pc = "failed" => conn'[h].reader \notin {"absent", "reading"}
    BY <1>5 DEF ServedWasWritten
  <2>1. r \in Requests /\ req[r].gen = h
    BY DEF ProcTypeOK, ServedWasWritten
  <2> QED
    BY <1>1, <1>3, <1>8, <2>1 DEF ServedWasWritten
<1> QED
  BY <1>1, <1>3, <1>4, <1>5, <1>6, <1>7, <1>9, <1>10, <1>11 DEF ProcTypeOK, CallersAreBound

LEMMA ClearKeeps == ASSUME ProcIInv, NEW g \in Gens, Clear(g) PROVE ProcIInv'
<1> DEFINE next == [conn[g] EXCEPT !.reader = "cleared"]
<1>1. /\ conn[g] \in Connection /\ conn[g].reader = "drained" /\ conn' = [conn EXCEPT ![g] = next]
      /\ current' = IF current = g THEN None ELSE current
      /\ UNCHANGED <<client, req, pending, server>>
  BY ConnTyped DEF ProcIInv, Clear
<1>2. next \in Connection /\ next.reader = "cleared"
  BY <1>1 DEF Connection
<1> HIDE DEF next
<1>3. CurrentIsNewest'
  BY <1>1, <1>2, ProcessAssumption DEF ProcIInv, ProcTypeOK, CurrentIsNewest, Gens
<1> QED
  BY <1>1, <1>2, <1>3, ConnKeeps DEF ProcIInv, ProcTypeOK

LEMMA KillKeeps == ASSUME ProcIInv, NEW g \in Gens, Kill(g) PROVE ProcIInv'
<1> DEFINE next == [conn[g] EXCEPT !.reader = "done", !.alive = FALSE]
<1>1. /\ conn[g] \in Connection /\ conn[g].reader = "cleared" /\ conn' = [conn EXCEPT ![g] = next]
      /\ UNCHANGED <<current, client, req, pending, server>>
  <2>1. conn' = [conn EXCEPT ![g] = next]
    BY DEF Kill
  <2> QED
    BY <2>1, ConnTyped DEF ProcIInv, Kill
<1>2. next \in Connection /\ next.reader = "done"
  BY <1>1 DEF Connection
<1> HIDE DEF next
<1>3. CurrentIsNewest'
  BY <1>1, <1>2 DEF ProcIInv, ProcTypeOK, CurrentIsNewest
<1> QED
  BY <1>1, <1>2, <1>3, ConnKeeps DEF ProcIInv, ProcTypeOK

-----------------------------------------------------------------------------
LEMMA ProcStep == ASSUME ProcIInv, [ProcNext]_vars PROVE ProcIInv'
<1>1. ASSUME NEW c \in Clients, Call(c) \/ ClientStep(c) PROVE ProcIInv'
  BY <1>1, CallKeeps, WaitKeeps, AskKeeps DEF ClientStep
<1>2. ASSUME NEW r \in Requests, Write(r) \/ Timeout(r) PROVE ProcIInv'
  BY <1>2, WriteKeeps, TimeoutKeeps
<1>3. ASSUME NEW g \in Gens, InitStep(g) \/ ExitStep(g) \/ Exit(g) PROVE ProcIInv'
  BY <1>3, InitAskKeeps, CellKeeps, DrainKeeps, ClearKeeps, KillKeeps DEF InitStep, ExitStep
<1>4. ASSUME NEW g \in Gens, LeaveLoop(g) \/ \E r \in Requests: UnknownAnswer(g, r) PROVE ProcIInv'
  BY <1>4, LeaveKeeps
<1>5. ASSUME NEW g \in Gens, NEW r \in Requests, Answer(g, r) PROVE ProcIInv'
  BY <1>5, AnswerKeeps
<1>6. CASE UNCHANGED vars
  BY <1>6 DEF vars, ProcIInv, ProcTypeOK, WaitsInTable, Waiting, CurrentIsNewest, CallersAreBound,
     CallsAreFresh, RequestsAreBound, ServedWasWritten
<1> QED
  BY <1>1, <1>2, <1>3, <1>4, <1>5, <1>6 DEF ProcNext

\* The guarantees of the process client hold in every state, for any number of
\* callers, calls and generations: who waits is in the table of the connection
\* its request went to, and the current connection is the newest one.
THEOREM ProcSafe == ProcSpec => []ProcInv
<1>1. ProcSpec => []ProcIInv
  BY ProcInitInv, ProcStep, PTL DEF ProcSpec
<1>2. ProcIInv => ProcInv
  BY ProcInvHolds
<1> QED
  BY <1>1, <1>2, PTL

=============================================================================
