---- MODULE Server_proofs ----
(***************************************************************************)
(* Proofs about Server for any set of connections (also an infinite one),  *)
(* any limit, and any accounts and sessions.                               *)
(***************************************************************************)
EXTENDS Server, FiniteSetTheorems, TLAPS

-----------------------------------------------------------------------------
(* Accounts and sessions *)

\* A session's token was issued, for an account that was enabled, and the
\* account is still what it was then.
SessionInv ==
    /\ SessionsMatchAccounts
    /\ \A t \in Tokens : sessions[t] # Nobody => issued[t] # Nobody /\ issued[t].enabled = TRUE

\* No operation of the service, whatever its arguments, breaks the match.
LEMMA ServiceKeepsSessions ==
    ASSUME AuthTypeOK, SessionInv, AuthNext
    PROVE  AuthTypeOK' /\ SessionInv'
<1> USE DEF AuthTypeOK, SessionInv, SessionsMatchAccounts
<1>1. ASSUME NEW u \in Users, NEW p \in Passwords, NEW r \in AssignedRoles, CreateUser(u, p, r)
      PROVE  AuthTypeOK' /\ SessionInv'
  <2>1. [password |-> p, role |-> r, enabled |-> TRUE] \in UserRecord
    BY AuthAssumption DEF UserRecord
  <2>2. AuthTypeOK'
    BY <1>1, <2>1 DEF CreateUser
  <2>3. \A t \in Tokens : sessions[t] # Nobody => sessions[t] # u
    BY <1>1 DEF CreateUser, Known
  <2> QED
    BY <1>1, <2>2, <2>3 DEF CreateUser
<1>2. ASSUME NEW u \in Users, NEW p \in Passwords, NEW t \in Tokens, Authenticate(u, p, t)
      PROVE  AuthTypeOK' /\ SessionInv'
  BY <1>2 DEF Authenticate, Known
<1>3. ASSUME NEW t \in Tokens, Revoke(t)
      PROVE  AuthTypeOK' /\ SessionInv'
  BY <1>3 DEF Revoke
<1>4. ASSUME NEW u \in Users, NEW r \in AssignedRoles, SetRole(u, r)
      PROVE  AuthTypeOK' /\ SessionInv'
  <2>1. [users[u] EXCEPT !.role = r] \in UserRecord
    BY <1>4, AuthAssumption DEF SetRole, Known, UserRecord
  <2> QED
    BY <1>4, <2>1 DEF SetRole, RevokeUserSessions
<1>5. ASSUME NEW u \in Users, NEW b \in BOOLEAN, SetEnabled(u, b)
      PROVE  AuthTypeOK' /\ SessionInv'
  <2>1. [users[u] EXCEPT !.enabled = b] \in UserRecord
    BY <1>5 DEF SetEnabled, Known, UserRecord
  <2>2. AuthTypeOK'
    BY <1>5, <2>1 DEF SetEnabled, RevokeUserSessions
  <2>3. CASE b = TRUE
    <3>1. ASSUME NEW t \in Tokens, sessions[t] = u
          PROVE  [users[u] EXCEPT !.enabled = b] = users[u]
      <4>1. users[u] \in UserRecord /\ users[u].enabled = TRUE
        BY <1>5, <3>1, AuthAssumption DEF SetEnabled, Known
      <4> QED
        BY <4>1, <2>3 DEF UserRecord
    <3>2. /\ users' = [users EXCEPT ![u].enabled = b] /\ UNCHANGED <<sessions, issued>>
      BY <1>5, <2>3 DEF SetEnabled
    <3>3. ASSUME NEW t \in Tokens, sessions[t] # Nobody
          PROVE  users'[sessions[t]] = users[sessions[t]]
      <4>1. sessions[t] \in Users
        BY <3>3
      <4> QED
        BY <3>1, <3>2, <4>1
    <3> QED
      BY <2>2, <3>2, <3>3
  <2>4. CASE b = FALSE
    BY <1>5, <2>2, <2>4 DEF SetEnabled, RevokeUserSessions
  <2> QED
    BY <2>3, <2>4
<1>6. ASSUME NEW u \in Users, NEW p \in Passwords, ChangePassword(u, p)
      PROVE  AuthTypeOK' /\ SessionInv'
  <2>1. [users[u] EXCEPT !.password = p] \in UserRecord
    BY <1>6 DEF ChangePassword, Known, UserRecord
  <2> QED
    BY <1>6, <2>1 DEF ChangePassword, RevokeUserSessions
<1> QED
  BY <1>1, <1>2, <1>3, <1>4, <1>5, <1>6 DEF AuthNext

-----------------------------------------------------------------------------
(* The counter *)

Panicked == {c \in Connections : step[c] = "panicked"}

\* The counter counts the workers alive and those that panicked.  There are
\* finitely many of them even if there are infinitely many connections.
CounterInv ==
    /\ IsFiniteSet(Live) /\ IsFiniteSet(Panicked)
    /\ active = Cardinality(Live) + Cardinality(Panicked)
    /\ Cardinality(Live) <= MaxConnections

\* A connection that goes from one step to another of the same kind, as far as
\* the counter is concerned, leaves the counted sets alone.
LEMMA SameKind ==
    ASSUME step \in [Connections -> Steps], NEW c \in Connections, NEW s \in Steps, Goto(c, s),
           step[c] \in LiveSteps <=> s \in LiveSteps,
           step[c] # "panicked", s # "panicked"
    PROVE  Live' = Live /\ Panicked' = Panicked
BY DEF Live, Panicked, Goto

\* So does closing connections no worker has taken.
LEMMA ClosingKeepsCounted ==
    ASSUME step \in [Connections -> Steps], NEW Closed,
           \A c \in Closed : step[c] \in {"waiting", "refusing"},
           step' = [c \in Connections |-> IF c \in Closed THEN "closed" ELSE step[c]]
    PROVE  Live' = Live /\ Panicked' = Panicked
BY DEF Live, Panicked, LiveSteps

\* Nothing changes as long as the counter and the counted sets stay.
LEMMA CounterStays ==
    ASSUME CounterInv, Live' = Live, Panicked' = Panicked, active' = active
    PROVE  CounterInv'
BY DEF CounterInv

\* A worker that leaves lowers the counter.
LEMMA CounterFalls ==
    ASSUME CounterInv, NEW c \in Live, Live' = Live \ {c}, Panicked' = Panicked,
           active' = active - 1
    PROVE  CounterInv'
<1>1. /\ IsFiniteSet(Live \ {c})
      /\ Cardinality(Live \ {c}) = Cardinality(Live) - 1
  BY FS_RemoveElement DEF CounterInv
<1>2. Cardinality(Live) \in Nat /\ Cardinality(Panicked) \in Nat
  BY FS_CardinalityType DEF CounterInv
<1> QED
  BY <1>1, <1>2, ServerAssumption DEF CounterInv

-----------------------------------------------------------------------------
(* Requests, answers and grants *)

\* The request of a connection is known once it is made; only commands are
\* authorized.
RequestInv ==
    \A c \in Connections :
        /\ step[c] # "new" => request[c] \in Requests
        /\ step[c] = "authorizing" => request[c].kind = "command"

\* An answer comes at the end of a connection, and one that was executed gets
\* no refusal, for its worker has decided otherwise.
AnswerInv ==
    /\ phase = "refusing" => refusing \in Connections /\ step[refusing] = "refusing"
    /\ \A c \in Connections :
         /\ reply[c] # Nothing => step[c] \in {"refused", "replied", "ended"}
         /\ c \in executed =>
              /\ step[c] \in {"responding", "replied", "broken"} \cup EndedSteps
              /\ step[c] = "responding" => outcome[c] \in {"Ok", "Execution"}
              /\ reply[c] \notin Refusals

\* From the grant on, a request has a role that allows what it needs.
GrantInv ==
    \A c \in Connections :
        /\ step[c] \in {"locking", "executing"} \/ c \in executed =>
             granted[c] \in Roles /\ Allows(granted[c], request[c].needs)
        /\ holder = c => step[c] = "executing"

\* The inductive invariant.
IndInv == TypeOK /\ SessionInv /\ CounterInv /\ RequestInv /\ AnswerInv /\ GrantInv

\* It holds before the first connection ...
LEMMA InitIndInv == Init => IndInv
<1> SUFFICES ASSUME Init PROVE IndInv
  OBVIOUS
<1> USE DEF Init
<1>1. AuthTypeOK /\ SessionInv
  BY DEF AuthInit, AuthTypeOK, SessionInv, SessionsMatchAccounts
<1>2. TypeOK
  <2>1. workers \in Seq(Connections)
    OBVIOUS
  <2> QED
    BY <1>1, <2>1 DEF TypeOK, Steps
<1>3. CounterInv
  <2>1. Live = {} /\ Panicked = {}
    BY DEF Live, Panicked, LiveSteps
  <2> QED
    BY <2>1, FS_EmptySet, ServerAssumption DEF CounterInv
<1>4. RequestInv /\ AnswerInv
  BY DEF RequestInv, AnswerInv
<1>5. GrantInv
  BY ServerAssumption DEF GrantInv
<1> QED
  BY <1>1, <1>2, <1>3, <1>4, <1>5 DEF IndInv

-----------------------------------------------------------------------------
(* Every step keeps the invariant *)

\* A role a command is granted with is one, and allows what the command needs.
LEMMA GrantFacts ==
    ASSUME AuthTypeOK, NEW r \in Requests, r.kind = "command", Grants(r)
    PROVE  GrantedRole(r) \in Roles /\ Allows(GrantedRole(r), r.needs)
<1>1. r \in [kind : {"command"}, token : Tokens \cup {NoToken}, needs : Permissions]
  BY DEF Requests
<1>2. CASE AuthRequired
  <2>1. r.token \in Tokens
    BY <1>1, <1>2 DEF Grants
  <2>2. /\ users[sessions[r.token]] \in UserRecord
        /\ Allows(users[sessions[r.token]].role, r.needs)
    BY <1>2, <2>1 DEF Grants, Authorized, ValidSession, Known, AuthTypeOK
  <2> QED
    BY <1>2, <2>2 DEF GrantedRole, UserRecord
<1>3. CASE ~AuthRequired
  BY <1>3 DEF GrantedRole, Allows, Roles
<1> QED
  BY <1>2, <1>3

\* Types; the counter's follows from what it counts.
LEMMA StepTypes ==
    ASSUME TypeOK, SessionInv, RequestInv, [Next]_vars, active' \in Nat
    PROVE  TypeOK'
<1> USE DEF TypeOK, Goto, Decide, Return, Steps, LiveSteps, EndedSteps, serverVars, workerVars
<1>1. ASSUME NEW c \in Connections, NEW r \in Requests, Connect(c, r) PROVE TypeOK'
  BY <1>1 DEF Connect, authVars, AuthTypeOK
<1>2. CASE RequestShutdown \/ CheckShutdown \/ NothingToAccept
  BY <1>2 DEF RequestShutdown, CheckShutdown, NothingToAccept, authVars, AuthTypeOK
<1>3. ASSUME NEW c \in Connections, Accept(c) PROVE TypeOK'
  <2>1. workers' \in Seq(Connections)
    BY <1>3 DEF Accept
  <2> QED
    BY <1>3, <2>1 DEF Accept, authVars, AuthTypeOK
<1>4. ASSUME NEW c \in Connections, AcceptBusy(c) PROVE TypeOK'
  BY <1>4 DEF AcceptBusy, authVars, AuthTypeOK
<1>5. CASE RefusalSent \/ RefusalFails
  BY <1>5 DEF RefusalSent, RefusalFails, authVars, AuthTypeOK, Answers, Refusals
<1>6. CASE JoinWorker
  <2>1. workers' \in Seq(Connections)
    BY <1>6 DEF JoinWorker
  <2> QED
    BY <1>6, <2>1 DEF JoinWorker, authVars, AuthTypeOK
<1>7. CASE ListenerFails \/ JoinFails \/ JoinedAll
  BY <1>7 DEF ListenerFails, JoinFails, JoinedAll, authVars, AuthTypeOK
<1>8. ASSUME NEW c \in Connections, ReadRequest(c) \/ ConfigureFails(c) PROVE TypeOK'
  BY <1>8 DEF ReadRequest, ConfigureFails, authVars, AuthTypeOK, Answers, Refusals
<1>9. ASSUME NEW c \in Connections, Authorize(c) PROVE TypeOK'
  <2>1. CASE Grants(request[c])
    <3>1. GrantedRole(request[c]) \in Roles
      BY <1>9, <2>1, GrantFacts DEF Authorize, RequestInv
    <3> QED
      BY <1>9, <2>1, <3>1 DEF Authorize, authVars, AuthTypeOK
  <2>2. CASE ~Grants(request[c])
    BY <1>9, <2>2 DEF Authorize, authVars, AuthTypeOK, Answers, Refusals
  <2> QED
    BY <2>1, <2>2
<1>10. ASSUME NEW c \in Connections, LockBackend(c) PROVE TypeOK'
  BY <1>10 DEF LockBackend, authVars, AuthTypeOK, Answers, Refusals
<1>11. ASSUME NEW c \in Connections, Execute(c) \/ ExecutePanics(c) PROVE TypeOK'
  BY <1>11 DEF Execute, ExecutePanics, authVars, AuthTypeOK, Answers, Refusals
<1>12. ASSUME NEW c \in Connections, Respond(c) \/ EndWorker(c) PROVE TypeOK'
  BY <1>12 DEF Respond, EndWorker, LeaveCounter, authVars, AuthTypeOK
<1>13. CASE Administer
  BY <1>13, ServiceKeepsSessions DEF Administer
<1>14. CASE UNCHANGED vars
  BY <1>14 DEF vars, authVars, AuthTypeOK
<1> QED
  BY <1>1, <1>2, <1>3, <1>4, <1>5, <1>6, <1>7, <1>8, <1>9, <1>10, <1>11, <1>12, <1>13, <1>14,
     ServerAssumption DEF Next, Serve, Refuse, Work

\* Only accepting, ending and panicking move the counter or what it counts.
LEMMA StepCounter ==
    ASSUME TypeOK, CounterInv, AnswerInv, [Next]_vars
    PROVE  CounterInv'
<1> USE DEF TypeOK, serverVars, workerVars
<1>1. ASSUME NEW c \in Connections, NEW r \in Requests, Connect(c, r) PROVE CounterInv'
  BY <1>1, SameKind, CounterStays DEF Connect, Steps, LiveSteps
<1>2. CASE RequestShutdown \/ CheckShutdown \/ NothingToAccept \/ JoinWorker \/ Administer
           \/ UNCHANGED vars
  <2>1. UNCHANGED <<step, active>>
    BY <1>2 DEF RequestShutdown, CheckShutdown, NothingToAccept, JoinWorker, Administer, vars
  <2> QED
    BY <2>1, CounterStays DEF Live, Panicked
<1>3. ASSUME NEW c \in Connections, Accept(c) PROVE CounterInv'
  <2>1. c \notin Live /\ Live' = Live \cup {c} /\ Panicked' = Panicked
    BY <1>3 DEF Accept, Goto, Live, Panicked, LiveSteps
  <2>2. /\ IsFiniteSet(Live \cup {c})
        /\ Cardinality(Live \cup {c}) = Cardinality(Live) + 1
    BY <2>1, FS_AddElement DEF CounterInv
  <2>3. Cardinality(Live) \in Nat /\ Cardinality(Panicked) \in Nat
    BY FS_CardinalityType DEF CounterInv
  <2>4. active' = active + 1 /\ active < MaxConnections
    BY <1>3 DEF Accept, HasCapacity
  <2> QED
    BY <2>1, <2>2, <2>3, <2>4, ServerAssumption DEF CounterInv
<1>4. ASSUME NEW c \in Connections, AcceptBusy(c) PROVE CounterInv'
  BY <1>4, SameKind, CounterStays DEF AcceptBusy, Steps, LiveSteps
<1>5. CASE RefusalSent
  BY <1>5, SameKind, CounterStays DEF RefusalSent, AnswerInv, Steps, LiveSteps
<1>6. CASE RefusalFails \/ ListenerFails \/ JoinFails \/ JoinedAll
  <2> DEFINE Closed == {c \in Connections : step'[c] # step[c]}
  <2>1. /\ \A c \in Closed : step[c] \in {"waiting", "refusing"}
        /\ step' = [c \in Connections |-> IF c \in Closed THEN "closed" ELSE step[c]]
    BY <1>6 DEF RefusalFails, ListenerFails, JoinFails, JoinedAll, Return, AnswerInv
  <2>2. active' = active
    BY <1>6 DEF RefusalFails, ListenerFails, JoinFails, JoinedAll
  <2> QED
    BY <2>1, <2>2, ClosingKeepsCounted, CounterStays
<1>7. ASSUME NEW c \in Connections,
             ReadRequest(c) \/ ConfigureFails(c) \/ Authorize(c) \/ LockBackend(c) \/ Execute(c)
               \/ Respond(c)
      PROVE  CounterInv'
  <2>1. PICK s \in LiveSteps : Goto(c, s)
    BY <1>7 DEF ReadRequest, ConfigureFails, Authorize, LockBackend, Execute, Respond, Decide,
                LiveSteps
  <2>2. step[c] \in LiveSteps /\ active' = active
    BY <1>7 DEF ReadRequest, ConfigureFails, Authorize, LockBackend, Execute, Respond, LiveSteps
  <2> QED
    BY <2>1, <2>2, SameKind, CounterStays DEF Steps, LiveSteps
<1>8. ASSUME NEW c \in Connections, ExecutePanics(c) PROVE CounterInv'
  <2>1. /\ c \in Live /\ Live' = Live \ {c}
        /\ c \notin Panicked /\ Panicked' = Panicked \cup {c}
    BY <1>8 DEF ExecutePanics, Goto, Live, Panicked, LiveSteps
  <2>2. /\ IsFiniteSet(Live \ {c})
        /\ Cardinality(Live \ {c}) = Cardinality(Live) - 1
    BY <2>1, FS_RemoveElement DEF CounterInv
  <2>3. /\ IsFiniteSet(Panicked \cup {c})
        /\ Cardinality(Panicked \cup {c}) = Cardinality(Panicked) + 1
    BY <2>1, FS_AddElement DEF CounterInv
  <2>4. Cardinality(Live) \in Nat /\ Cardinality(Panicked) \in Nat
    BY FS_CardinalityType DEF CounterInv
  <2>5. active' = active
    BY <1>8 DEF ExecutePanics
  <2>6. active = Cardinality(Live) + Cardinality(Panicked) /\ Cardinality(Live) <= MaxConnections
    BY DEF CounterInv
  <2>7. /\ IsFiniteSet(Live') /\ IsFiniteSet(Panicked')
        /\ Cardinality(Live') = Cardinality(Live) - 1
        /\ Cardinality(Panicked') = Cardinality(Panicked) + 1
    BY <2>1, <2>2, <2>3
  <2>8. /\ active' = Cardinality(Live') + Cardinality(Panicked')
        /\ Cardinality(Live') <= MaxConnections
    BY <2>4, <2>5, <2>6, <2>7, ServerAssumption
  <2> QED
    BY <2>7, <2>8 DEF CounterInv
<1>9. ASSUME NEW c \in Connections, EndWorker(c) PROVE CounterInv'
  <2>1. c \in Live /\ Live' = Live \ {c} /\ Panicked' = Panicked
    BY <1>9 DEF EndWorker, Goto, Live, Panicked, LiveSteps
  <2> QED
    BY <1>9, <2>1, CounterFalls DEF EndWorker, LeaveCounter
<1> QED
  BY <1>1, <1>2, <1>3, <1>4, <1>5, <1>6, <1>7, <1>8, <1>9, ServerAssumption
  DEF Next, Serve, Refuse, Work

\* A request is made once, before anything is done with it.
LEMMA StepRequests ==
    ASSUME TypeOK, RequestInv, AnswerInv, [Next]_vars
    PROVE  RequestInv'
<1> USE DEF TypeOK, RequestInv, Goto, Steps, serverVars, workerVars
<1>1. ASSUME NEW c \in Connections, NEW r \in Requests, Connect(c, r) PROVE RequestInv'
  BY <1>1 DEF Connect
<1>2. CASE UNCHANGED <<step, request>>
  BY <1>2
<1>3. CASE RefusalSent \/ RefusalFails \/ ListenerFails \/ JoinFails \/ JoinedAll
  BY <1>3 DEF RefusalSent, RefusalFails, ListenerFails, JoinFails, JoinedAll, Return, AnswerInv
<1>4. ASSUME NEW c \in Connections, Accept(c) \/ AcceptBusy(c) PROVE RequestInv'
  BY <1>4 DEF Accept, AcceptBusy
<1>5. ASSUME NEW c \in Connections, Work(c) PROVE RequestInv'
  BY <1>5 DEF Work, ReadRequest, ConfigureFails, Authorize, LockBackend, Execute, ExecutePanics,
              Respond, EndWorker, Decide
<1> QED
  BY <1>1, <1>2, <1>3, <1>4, <1>5, ServerAssumption
  DEF Next, Serve, Refuse, RequestShutdown, CheckShutdown, NothingToAccept, JoinWorker,
      Administer, vars

\* An answer is given once, by the accept loop or by the worker.
LEMMA StepAnswers ==
    ASSUME TypeOK, AnswerInv, [Next]_vars
    PROVE  AnswerInv'
<1> USE DEF TypeOK, AnswerInv, Goto, Decide, EndedSteps, Refusals, serverVars, workerVars
<1>1. ASSUME NEW c \in Connections, NEW r \in Requests, Connect(c, r) PROVE AnswerInv'
  BY <1>1 DEF Connect
<1>2. CASE RequestShutdown \/ CheckShutdown \/ NothingToAccept \/ JoinWorker \/ Administer
           \/ UNCHANGED vars
  BY <1>2 DEF RequestShutdown, CheckShutdown, NothingToAccept, JoinWorker, Administer, vars
<1>3. ASSUME NEW c \in Connections, Accept(c) \/ AcceptBusy(c) PROVE AnswerInv'
  BY <1>3 DEF Accept, AcceptBusy
<1>4. CASE RefusalSent
  BY <1>4 DEF RefusalSent
<1>5. CASE RefusalFails \/ ListenerFails \/ JoinFails \/ JoinedAll
  BY <1>5 DEF RefusalFails, ListenerFails, JoinFails, JoinedAll, Return
<1>6. ASSUME NEW c \in Connections,
             ReadRequest(c) \/ ConfigureFails(c) \/ Authorize(c) \/ LockBackend(c)
      PROVE  AnswerInv'
  BY <1>6 DEF ReadRequest, ConfigureFails, Authorize, LockBackend
<1>7. ASSUME NEW c \in Connections, Execute(c) \/ ExecutePanics(c) PROVE AnswerInv'
  <2>1. reply[c] = Nothing
    BY <1>7 DEF Execute, ExecutePanics
  <2>2. Nothing \notin Refusals
    BY ServerAssumption DEF Answers
  <2> QED
    BY <1>7, <2>1, <2>2 DEF Execute, ExecutePanics
<1>8. ASSUME NEW c \in Connections, Respond(c) PROVE AnswerInv'
  BY <1>8 DEF Respond
<1>9. ASSUME NEW c \in Connections, EndWorker(c) PROVE AnswerInv'
  BY <1>9 DEF EndWorker
<1> QED
  BY <1>1, <1>2, <1>3, <1>4, <1>5, <1>6, <1>7, <1>8, <1>9, ServerAssumption
  DEF Next, Serve, Refuse, Work

\* The grant stays with its request; the mutex is held by whoever executes.
LEMMA StepGrants ==
    ASSUME TypeOK, RequestInv, AnswerInv, GrantInv, [Next]_vars
    PROVE  GrantInv'
<1> USE DEF TypeOK, GrantInv, Goto, Decide, serverVars, workerVars
<1>1. ASSUME NEW c \in Connections, NEW r \in Requests, Connect(c, r) PROVE GrantInv'
  BY <1>1 DEF Connect, AnswerInv, EndedSteps
<1>2. CASE RequestShutdown \/ CheckShutdown \/ NothingToAccept \/ JoinWorker \/ Administer
           \/ UNCHANGED vars
  BY <1>2 DEF RequestShutdown, CheckShutdown, NothingToAccept, JoinWorker, Administer, vars
<1>3. ASSUME NEW c \in Connections, Accept(c) \/ AcceptBusy(c) PROVE GrantInv'
  BY <1>3 DEF Accept, AcceptBusy
<1>4. CASE RefusalSent \/ RefusalFails \/ ListenerFails \/ JoinFails \/ JoinedAll
  BY <1>4 DEF RefusalSent, RefusalFails, ListenerFails, JoinFails, JoinedAll, Return, AnswerInv
<1>5. ASSUME NEW c \in Connections, ReadRequest(c) \/ ConfigureFails(c) \/ Respond(c) \/ EndWorker(c)
      PROVE  GrantInv'
  BY <1>5 DEF ReadRequest, ConfigureFails, Respond, EndWorker
<1>6. ASSUME NEW c \in Connections, Authorize(c) PROVE GrantInv'
  <2>1. CASE Grants(request[c])
    <3>1. /\ GrantedRole(request[c]) \in Roles
          /\ Allows(GrantedRole(request[c]), request[c].needs)
      BY <1>6, <2>1, GrantFacts DEF Authorize, RequestInv
    <3> QED
      BY <1>6, <2>1, <3>1 DEF Authorize
  <2>2. CASE ~Grants(request[c])
    BY <1>6, <2>2 DEF Authorize
  <2> QED
    BY <2>1, <2>2
<1>7. ASSUME NEW c \in Connections, LockBackend(c) PROVE GrantInv'
  BY <1>7, ServerAssumption DEF LockBackend
<1>8. ASSUME NEW c \in Connections, Execute(c) \/ ExecutePanics(c) PROVE GrantInv'
  BY <1>8, ServerAssumption DEF Execute, ExecutePanics
<1> QED
  BY <1>1, <1>2, <1>3, <1>4, <1>5, <1>6, <1>7, <1>8, ServerAssumption
  DEF Next, Serve, Refuse, Work

\* Only administrators touch accounts and sessions.
LEMMA StepSessions ==
    ASSUME TypeOK, SessionInv, [Next]_vars
    PROVE  SessionInv'
<1>1. CASE Administer
  BY <1>1, ServiceKeepsSessions DEF Administer, TypeOK
<1>2. CASE ~Administer
  <2>1. UNCHANGED authVars
    BY <1>2 DEF Next, Connect, RequestShutdown, Serve, CheckShutdown, Accept, AcceptBusy, Refuse,
                RefusalSent, RefusalFails, NothingToAccept, ListenerFails, JoinWorker, JoinFails,
                JoinedAll, Work, ReadRequest, ConfigureFails, Authorize, LockBackend, Execute,
                ExecutePanics, Respond, EndWorker, vars
  <2> QED
    BY <2>1 DEF authVars, SessionInv, SessionsMatchAccounts
<1> QED
  BY <1>1, <1>2

\* ... after every step, the parts in the order in which they need each other ...
LEMMA StepIndInv == IndInv /\ [Next]_vars => IndInv'
<1> SUFFICES ASSUME IndInv, [Next]_vars PROVE IndInv'
  OBVIOUS
<1>1. CounterInv'
  BY StepCounter DEF IndInv
<1>2. active' \in Nat
  BY <1>1, FS_CardinalityType DEF CounterInv
<1>3. TypeOK'
  BY <1>2, StepTypes DEF IndInv
<1>4. SessionInv' /\ RequestInv' /\ AnswerInv' /\ GrantInv'
  BY StepSessions, StepRequests, StepAnswers, StepGrants DEF IndInv
<1> QED
  BY <1>1, <1>3, <1>4 DEF IndInv

\* ... and so always; fairness is not needed.
LEMMA Invariance == Spec => []IndInv
BY InitIndInv, StepIndInv, PTL DEF Spec

-----------------------------------------------------------------------------
(* What it is for *)

\* Every reachable state is typed, and the counter bounds the workers: however
\* workers end, and however many panic, `active` is their number and theirs, and
\* never more than max_connections are alive.
THEOREM WorkersAreBounded == Spec => []CounterBoundsWorkers
<1>1. IndInv => CounterBoundsWorkers
  BY DEF IndInv, CounterInv, CounterBoundsWorkers, Panicked
<1> QED
  BY <1>1, Invariance, PTL

\* No command reaches the backend without a role that allows it, whatever
\* administrators do to the account between the grant and the execution.
THEOREM OnlyGrantedReachesTheBackend == Spec => []BackendSeesGrantedOnly
<1>1. IndInv => BackendSeesGrantedOnly
  BY ServerAssumption DEF IndInv, GrantInv, BackendSeesGrantedOnly
<1> QED
  BY <1>1, Invariance, PTL

\* A refusal, from the accept loop or from a worker, means nothing was executed.
THEOREM RefusalsAreHarmless == Spec => []RefusedDidNothing
<1>1. IndInv => RefusedDidNothing
  BY DEF IndInv, AnswerInv, RefusedDidNothing
<1> QED
  BY <1>1, Invariance, PTL

\* A session speaks only for an account that is as it was when it was issued,
\* while requests and administrators run together.
THEOREM SessionsEndWithTheirAccounts == Spec => []SessionsMatchAccounts
<1>1. IndInv => SessionsMatchAccounts
  BY DEF IndInv, SessionInv
<1> QED
  BY <1>1, Invariance, PTL
====
