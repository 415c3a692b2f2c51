---- MODULE AuthService ----
(***************************************************************************)
(* The authentication service of crates/nova-auth: accounts, bearer        *)
(* sessions and role checks.  Every public operation holds the one mutex   *)
(* around `State` while it touches the maps (the hash of a new password is *)
(* computed before), so it is one atomic action.  A call that returns an   *)
(* error changes nothing and has no action.                                *)
(***************************************************************************)
EXTENDS Naturals, FiniteSets

CONSTANTS
    Users,         \* user names
    Passwords,     \* passwords validate_password accepts
    AssignedRoles, \* bound: the roles accounts are given
    Tokens,        \* bearer tokens random_token may still draw
    Nobody         \* no account, no owner

Roles == {"ReadOnly", "ReadWrite", "Admin"}
Permissions == {"Read", "Write", "Manage"}

ASSUME AuthAssumption == AssignedRoles \subseteq Roles /\ Nobody \notin Users

VARIABLES
    users,         \* State.users: the record of each user, or Nobody
    sessions,      \* State.sessions: the user each token speaks for, or Nobody
    issued         \* history: the account record each token was issued for

authVars == <<users, sessions, issued>>

UserRecord == [password : Passwords, role : Roles, enabled : BOOLEAN]

\* Role::allows.
Allows(role, permission) ==
    \/ permission = "Read"
    \/ permission = "Write" /\ role # "ReadOnly"
    \/ role = "Admin"

Known(u) == users[u] # Nobody

-----------------------------------------------------------------------------

CreateUser(u, password, role) ==
    /\ ~Known(u)
    /\ users' = [users EXCEPT ![u] = [password |-> password, role |-> role, enabled |-> TRUE]]
    /\ UNCHANGED <<sessions, issued>>

\* authenticate draws a token that was never drawn before: 256 random bits.
Authenticate(u, password, token) ==
    /\ Known(u) /\ users[u].enabled /\ users[u].password = password
    /\ issued[token] = Nobody
    /\ sessions' = [sessions EXCEPT ![token] = u]
    /\ issued' = [issued EXCEPT ![token] = users[u]]
    /\ UNCHANGED users

\* The session and its enabled account exist.
ValidSession(token) ==
    /\ sessions[token] # Nobody
    /\ Known(sessions[token]) /\ users[sessions[token]].enabled

\* authorize returns a principal.
Authorized(token, permission) ==
    ValidSession(token) /\ Allows(users[sessions[token]].role, permission)

Revoke(token) ==
    /\ sessions' = [sessions EXCEPT ![token] = Nobody]
    /\ UNCHANGED <<users, issued>>

RevokeUserSessions(u) ==
    sessions' = [t \in Tokens |-> IF sessions[t] = u THEN Nobody ELSE sessions[t]]

SetRole(u, role) ==
    /\ Known(u)
    /\ users' = [users EXCEPT ![u].role = role]
    /\ RevokeUserSessions(u)
    /\ UNCHANGED issued

\* MUTANT of SetEnabled: disabling leaves the sessions to the check in authorize.
LazySetEnabled(u, enabled) ==
    /\ Known(u)
    /\ users' = [users EXCEPT ![u].enabled = enabled]
    /\ UNCHANGED <<sessions, issued>>

\* Only disabling revokes sessions.
SetEnabled(u, enabled) ==
    /\ Known(u)
    /\ users' = [users EXCEPT ![u].enabled = enabled]
    /\ IF enabled THEN UNCHANGED sessions ELSE RevokeUserSessions(u)
    /\ UNCHANGED issued

ChangePassword(u, password) ==
    /\ Known(u)
    /\ users' = [users EXCEPT ![u].password = password]
    /\ RevokeUserSessions(u)
    /\ UNCHANGED issued

AuthInit ==
    /\ users = [u \in Users |-> Nobody]
    /\ sessions = [t \in Tokens |-> Nobody]
    /\ issued = [t \in Tokens |-> Nobody]

AuthNext ==
    \/ \E u \in Users, p \in Passwords, r \in AssignedRoles : CreateUser(u, p, r)
    \/ \E u \in Users, p \in Passwords, t \in Tokens : Authenticate(u, p, t)
    \/ \E t \in Tokens : Revoke(t)
    \/ \E u \in Users, r \in AssignedRoles : SetRole(u, r)
    \/ \E u \in Users, b \in BOOLEAN : SetEnabled(u, b)
    \/ \E u \in Users, p \in Passwords : ChangePassword(u, p)

AuthTypeOK ==
    /\ users \in [Users -> UserRecord \cup {Nobody}]
    /\ sessions \in [Tokens -> Users \cup {Nobody}]
    /\ issued \in [Tokens -> UserRecord \cup {Nobody}]

\* A session lives only while its account is as it was when the session was
\* issued: every change of password or role and every disabling, in whatever
\* order, ends the sessions of the account and of no later state of it.
SessionsMatchAccounts ==
    \A t \in Tokens : sessions[t] # Nobody => users[sessions[t]] = issued[t]
====
