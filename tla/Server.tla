---- MODULE Server ----
(***************************************************************************)
(* The TCP server of crates/nova-server: the accept loop of `serve`, one   *)
(* worker thread for each accepted connection, the shared counter, the     *)
(* backend mutex, and the authentication service asked in between, while   *)
(* its administrators keep changing accounts and sessions.  A connection   *)
(* carries one request.  Frames and the wording of answers are abstracted  *)
(* to what a request is and the class of the answer.                       *)
(***************************************************************************)
EXTENDS AuthService, Sequences

CONSTANTS
    Connections,   \* the connections clients open
    MaxConnections,\* ServerConfig.max_connections
    Sends,         \* bound: which request each may carry, as pairs
    AuthRequired,  \* the server was built by bind_authenticated
    NoToken,       \* the token of an anonymous request
    Nothing        \* no request, no answer, no connection, no role

Requests ==
    {[kind |-> "unparsable"]}
      \cup [kind : {"command"}, token : Tokens \cup {NoToken}, needs : Permissions]

Refusals == {"Protocol", "Parse", "Busy", "Internal", "Authentication", "Authorization"}
Answers == Refusals \cup {"Ok", "Execution"}

ASSUME ServerAssumption ==
    /\ MaxConnections \in Nat \ {0}
    /\ NoToken \notin Tokens /\ AuthRequired \in BOOLEAN
    /\ Sends \subseteq Connections \X Requests
    /\ Nothing \notin Connections \cup Roles \cup Answers

VARIABLES
    phase,         \* where `serve` is
    shutdown,      \* the shutdown flag
    active,        \* the counter of connections being handled
    workers,       \* the connections of `workers` not joined yet, in order
    refusing,      \* the connection the accept loop is refusing
    step,          \* where each connection, and its worker, is
    request,       \* the request of each connection
    outcome,       \* the answer its worker has decided on
    reply,         \* the answer its client has received
    holder,        \* the worker that holds the backend mutex
    poisoned,      \* the mutex is poisoned
    executed,      \* history: connections whose command reached the backend
    granted        \* history: the role each request was granted with

serverVars == <<phase, shutdown, active, workers, refusing>>
workerVars == <<step, request, outcome, reply, holder, poisoned, executed, granted>>
vars == <<serverVars, workerVars, authVars>>

\* A worker thread is in handle_connection, or about to leave the counter.
LiveSteps == {"reading", "authorizing", "locking", "executing", "responding",
              "replied", "broken"}

\* The thread has ended: with Ok, with an error, or by a panic.
EndedSteps == {"ended", "failed", "panicked"}

Steps == {"new", "waiting", "refusing", "refused", "closed"} \cup LiveSteps \cup EndedSteps

Live == {c \in Connections : step[c] \in LiveSteps}

Goto(c, s) == step' = [step EXCEPT ![c] = s]

-----------------------------------------------------------------------------
(* Clients *)

\* The connection is established by the listener's backlog.
Connect(c, r) ==
    /\ step[c] = "new"
    /\ phase \notin {"returned", "listenerFailed", "refusalFailed", "workerFailed"}
    /\ Goto(c, "waiting")
    /\ request' = [request EXCEPT ![c] = r]
    /\ UNCHANGED <<serverVars, authVars, outcome, reply, holder, poisoned, executed, granted>>

RequestShutdown ==
    /\ ~shutdown
    /\ shutdown' = TRUE
    /\ UNCHANGED <<phase, active, workers, refusing, workerVars, authVars>>

-----------------------------------------------------------------------------
(* The accept loop *)

\* `serve` returns: the listener closes, with the connections not accepted.
Return(result) ==
    /\ phase' = result
    /\ step' = [c \in Connections |-> IF step[c] = "waiting" THEN "closed" ELSE step[c]]

\* The loop condition reads the flag.
CheckShutdown ==
    /\ phase = "checking"
    /\ phase' = IF shutdown THEN "joining" ELSE "accepting"
    /\ UNCHANGED <<shutdown, active, workers, refusing, workerVars, authVars>>

HasCapacity == active < MaxConnections

\* accept below the limit: the counter goes up and a worker is spawned.  Workers
\* only lower the counter, so reading and raising it is one step.
Accept(c) ==
    /\ phase = "accepting"
    /\ step[c] = "waiting"
    /\ HasCapacity
    /\ active' = active + 1
    /\ workers' = Append(workers, c)
    /\ Goto(c, "reading")
    /\ phase' = "checking"
    /\ UNCHANGED <<shutdown, refusing, request, outcome, reply, holder, poisoned,
                   executed, granted, authVars>>

\* accept at the limit: reject_busy reads the request in the accept loop.
AcceptBusy(c) ==
    /\ phase = "accepting"
    /\ step[c] = "waiting"
    /\ ~HasCapacity
    /\ Goto(c, "refusing")
    /\ refusing' = c
    /\ phase' = "refusing"
    /\ UNCHANGED <<shutdown, active, workers, request, outcome, reply, holder, poisoned,
                   executed, granted, authVars>>

RefusalSent ==
    /\ phase = "refusing"
    /\ reply' = [reply EXCEPT ![refusing] = "Busy"]
    /\ Goto(refusing, "refused")
    /\ refusing' = Nothing
    /\ phase' = "checking"
    /\ UNCHANGED <<shutdown, active, workers, request, outcome, holder, poisoned,
                   executed, granted, authVars>>

\* The stream of the refused client fails or times out: its error ends `serve`.
RefusalFails ==
    /\ phase = "refusing"
    /\ phase' = "refusalFailed"
    /\ step' = [c \in Connections |->
                   IF c = refusing \/ step[c] = "waiting" THEN "closed" ELSE step[c]]
    /\ refusing' = Nothing
    /\ UNCHANGED <<shutdown, active, workers, request, outcome, reply, holder, poisoned,
                   executed, granted, authVars>>

\* accept would block: the loop sleeps and looks at the flag again.
NothingToAccept ==
    /\ phase = "accepting"
    /\ \A c \in Connections : step[c] # "waiting"
    /\ phase' = "checking"
    /\ UNCHANGED <<shutdown, active, workers, refusing, workerVars, authVars>>

ListenerFails ==
    /\ phase = "accepting"
    /\ Return("listenerFailed")
    /\ UNCHANGED <<shutdown, active, workers, refusing, request, outcome, reply, holder,
                   poisoned, executed, granted, authVars>>

\* Joining waits for the workers in the order they were accepted ...
JoinWorker ==
    /\ phase = "joining" /\ workers # <<>>
    /\ step[Head(workers)] = "ended"
    /\ workers' = Tail(workers)
    /\ UNCHANGED <<phase, shutdown, active, refusing, workerVars, authVars>>

\* ... and the first one that returned an error or panicked ends `serve`.
JoinFails ==
    /\ phase = "joining" /\ workers # <<>>
    /\ step[Head(workers)] \in {"failed", "panicked"}
    /\ Return("workerFailed")
    /\ UNCHANGED <<shutdown, active, workers, refusing, request, outcome, reply, holder,
                   poisoned, executed, granted, authVars>>

JoinedAll ==
    /\ phase = "joining" /\ workers = <<>>
    /\ Return("returned")
    /\ UNCHANGED <<shutdown, active, workers, refusing, request, outcome, reply, holder,
                   poisoned, executed, granted, authVars>>

-----------------------------------------------------------------------------
(* A worker: handle_connection *)

Decide(c, answer) ==
    /\ Goto(c, "responding")
    /\ outcome' = [outcome EXCEPT ![c] = answer]

\* read_request gives the request, or an error (a frame that is malformed, late,
\* too long or cut short) answered with Protocol; then the query is parsed.
ReadRequest(c) ==
    /\ step[c] = "reading"
    /\ \/ Decide(c, "Protocol")
       \/ request[c].kind = "unparsable" /\ Decide(c, "Parse")
       \/ request[c].kind = "command" /\ Goto(c, "authorizing") /\ UNCHANGED outcome
    /\ UNCHANGED <<serverVars, authVars, request, reply, holder, poisoned, executed, granted>>

\* configure_stream fails: the worker returns the error and answers nothing.
ConfigureFails(c) ==
    /\ step[c] = "reading"
    /\ Goto(c, "broken")
    /\ UNCHANGED <<serverVars, authVars, request, outcome, reply, holder, poisoned, executed, granted>>

\* MUTANT of Grants: a valid session is enough.
AnyRoleGrants(r) == AuthRequired => r.token # NoToken /\ ValidSession(r.token)

Grants(r) == AuthRequired => r.token # NoToken /\ Authorized(r.token, r.needs)

\* The role a request is granted with; without authentication everyone may do
\* everything.
GrantedRole(r) == IF AuthRequired THEN users[sessions[r.token]].role ELSE "Admin"

\* authorize asks the service once; the answer stands whatever happens to the
\* session before the command runs.
Authorize(c) ==
    /\ step[c] = "authorizing"
    /\ LET r == request[c] IN
         \/ /\ Grants(r)
            /\ Goto(c, "locking")
            /\ granted' = [granted EXCEPT ![c] = GrantedRole(r)]
            /\ UNCHANGED outcome
         \/ /\ ~Grants(r)
            /\ Decide(c, IF r.token = NoToken \/ ~ValidSession(r.token)
                         THEN "Authentication" ELSE "Authorization")
            /\ UNCHANGED granted
    /\ UNCHANGED <<serverVars, authVars, request, reply, holder, poisoned, executed>>

LockBackend(c) ==
    /\ step[c] = "locking" /\ holder = Nothing
    /\ IF poisoned
       THEN Decide(c, "Internal") /\ UNCHANGED holder
       ELSE Goto(c, "executing") /\ holder' = c /\ UNCHANGED outcome
    /\ UNCHANGED <<serverVars, authVars, request, reply, poisoned, executed, granted>>

\* execute returns, and the mutex is released.
Execute(c) ==
    /\ step[c] = "executing"
    /\ \E answer \in {"Ok", "Execution"} : Decide(c, answer)
    /\ executed' = executed \cup {c}
    /\ holder' = Nothing
    /\ UNCHANGED <<serverVars, authVars, request, reply, poisoned, granted>>

\* MUTANT of ExecutePanics: the panicking thread keeps the mutex.
KeepingExecutePanics(c) ==
    /\ step[c] = "executing"
    /\ Goto(c, "panicked")
    /\ executed' = executed \cup {c}
    /\ poisoned' = TRUE
    /\ UNCHANGED <<serverVars, authVars, request, outcome, reply, holder, granted>>

\* MUTANT of ExecutePanics: the panic is caught and answered with Internal.
CaughtExecutePanics(c) ==
    /\ step[c] = "executing"
    /\ Decide(c, "Internal")
    /\ executed' = executed \cup {c}
    /\ poisoned' = TRUE
    /\ holder' = Nothing
    /\ UNCHANGED <<serverVars, authVars, request, reply, granted>>

\* The backend panics: the mutex is poisoned and released, and the thread ends
\* with no answer and without leaving the counter.
ExecutePanics(c) ==
    /\ step[c] = "executing"
    /\ Goto(c, "panicked")
    /\ executed' = executed \cup {c}
    /\ poisoned' = TRUE
    /\ holder' = Nothing
    /\ UNCHANGED <<serverVars, authVars, request, outcome, reply, granted>>

\* write_response delivers the answer, or fails: the client has gone or is slow.
Respond(c) ==
    /\ step[c] = "responding"
    /\ \/ Goto(c, "replied") /\ reply' = [reply EXCEPT ![c] = outcome[c]]
       \/ Goto(c, "broken") /\ UNCHANGED reply
    /\ UNCHANGED <<serverVars, authVars, request, outcome, holder, poisoned, executed, granted>>

\* MUTANT of LeaveCounter: an error returns in front of fetch_sub.
EarlyLeaveCounter(c) == active' = IF step[c] = "replied" THEN active - 1 ELSE active

LeaveCounter(c) == active' = active - 1

\* The counter goes down and the thread ends with its result.
EndWorker(c) ==
    /\ step[c] \in {"replied", "broken"}
    /\ LeaveCounter(c)
    /\ Goto(c, IF step[c] = "replied" THEN "ended" ELSE "failed")
    /\ UNCHANGED <<phase, shutdown, workers, refusing, request, outcome, reply, holder,
                   poisoned, executed, granted, authVars>>

-----------------------------------------------------------------------------

Administer == AuthNext /\ UNCHANGED <<serverVars, workerVars>>

Init ==
    /\ AuthInit
    /\ phase = "checking" /\ shutdown = FALSE
    /\ active = 0 /\ workers = <<>> /\ refusing = Nothing
    /\ step = [c \in Connections |-> "new"]
    /\ request = [c \in Connections |-> Nothing]
    /\ outcome = [c \in Connections |-> Nothing]
    /\ reply = [c \in Connections |-> Nothing]
    /\ holder = Nothing /\ poisoned = FALSE
    /\ executed = {} /\ granted = [c \in Connections |-> Nothing]

Refuse == RefusalSent \/ RefusalFails

Serve ==
    \/ CheckShutdown
    \/ \E c \in Connections : Accept(c)
    \/ \E c \in Connections : AcceptBusy(c)
    \/ Refuse
    \/ NothingToAccept
    \/ ListenerFails
    \/ JoinWorker
    \/ JoinFails
    \/ JoinedAll

Work(c) ==
    \/ ReadRequest(c)
    \/ ConfigureFails(c)
    \/ Authorize(c)
    \/ LockBackend(c)
    \/ Execute(c)
    \/ ExecutePanics(c)
    \/ Respond(c)
    \/ EndWorker(c)

Next ==
    \/ \E s \in Sends : Connect(s[1], s[2])
    \/ RequestShutdown
    \/ Serve
    \/ \E c \in Connections : Work(c)
    \/ Administer

\* Threads are scheduled, sockets have deadlines and backend commands end, so
\* the serving thread and every worker keep taking steps.  Nothing is assumed
\* of clients, administrators or whoever asks for the shutdown.
Fairness == WF_vars(Serve) /\ \A c \in Connections : WF_vars(Work(c))

Spec == Init /\ [][Next]_vars /\ Fairness

-----------------------------------------------------------------------------
(* Properties *)

TypeOK ==
    /\ AuthTypeOK
    /\ phase \in {"checking", "accepting", "refusing", "joining", "returned",
                  "listenerFailed", "refusalFailed", "workerFailed"}
    /\ shutdown \in BOOLEAN /\ poisoned \in BOOLEAN
    /\ active \in Nat
    /\ workers \in Seq(Connections)
    /\ refusing \in Connections \cup {Nothing} /\ holder \in Connections \cup {Nothing}
    /\ step \in [Connections -> Steps]
    /\ request \in [Connections -> Requests \cup {Nothing}]
    /\ outcome \in [Connections -> Answers \cup {Nothing}]
    /\ reply \in [Connections -> Answers \cup {Nothing}]
    /\ executed \subseteq Connections
    /\ granted \in [Connections -> Roles \cup {Nothing}]

\* No more connections are handled at a time than max_connections allows, and
\* the counter is what it is compared with: the workers alive and the slots
\* that panics have taken for good.
CounterBoundsWorkers ==
    /\ TypeOK
    /\ Cardinality(Live) <= MaxConnections
    /\ active = Cardinality(Live) + Cardinality({c \in Connections : step[c] = "panicked"})

\* The backend only sees commands the role of a session was granted, at the
\* latest when the worker asks for the mutex; what happens to the session
\* between the grant and the execution changes nothing any more.
BackendSeesGrantedOnly ==
    \A c \in Connections : c \in executed \/ holder = c =>
        granted[c] # Nothing /\ Allows(granted[c], request[c].needs)

\* A client that is refused, for any reason, can rely on its command having had
\* no effect on the backend.
RefusedDidNothing ==
    \A c \in Connections : reply[c] \in Refusals => c \notin executed

\* Once asked to shut down, `serve` comes to an end, whatever clients do and
\* whichever workers panic or fail.
ShutdownEnds ==
    shutdown ~> phase \in {"returned", "listenerFailed", "refusalFailed", "workerFailed"}

\* Every connection in the backlog is answered or seen to end.
ConnectionsAreSettled ==
    \A c \in Connections :
        step[c] = "waiting" ~> reply[c] # Nothing \/ step[c] \in {"closed", "failed", "panicked"}
====
