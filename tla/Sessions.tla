------------------------------ MODULE Sessions ------------------------------
(***************************************************************************)
(* Accounts and bearer sessions.  A boot writes the configured credential; *)
(* a login reads it, verifies the password, dates the session by the       *)
(* SERVICE's clock and inserts it; a guarded request reads the session and *)
(* judges it by that clock once the row has come back; a logout is one     *)
(* statement, stamped by the DATABASE's clock, as is the sweep.            *)
(*                                                                         *)
(* A token stands for the login that mints it.  The clocks run forward and *)
(* apart by at most Skew.  A call may stop anywhere and never be resumed:  *)
(* its process ended.  Boots of other processes run beside the calls.      *)
(***************************************************************************)
EXTENDS Naturals

CONSTANTS
    Users, Passwords,
    Logins, Requests, Logouts,  \* calls of each kind
    Ttl,                        \* AUTH_SESSION_TTL_SECONDS
    Skew,                       \* between the two clocks, either way
    ClockLimit,                 \* bound: the last instant of either clock
    NoUser, NoRow

ASSUME SessionAssumption ==
    /\ Ttl \in Nat \ {0}
    /\ Skew \in Nat
    /\ ClockLimit \in Nat \ {0}
    /\ NoUser \notin Passwords
    /\ NoRow \notin [expires : Nat, revoked : Nat]
    /\ Logins # {}

VARIABLES
    credential,     \* the password behind the hash of each user's row
    sessions,       \* rows of auth_sessions, by token
    login, request, logout,
    now,            \* the service's clock
    dbNow           \* the database's clock

vars == <<credential, sessions, login, request, logout, now, dbNow>>

Null == 0           \* no instant is 0

Row == [expires : Nat, revoked : Nat]

Login == [at : {"idle", "read", "minted", "done", "refused"},
          presented : Passwords \cup {NoUser},
          stored : Passwords \cup {NoUser}, expires : Nat]

\* loggedOut: history, whether a logout of the token had run at the read.
Request == [at : {"idle", "read", "accepted", "refused"},
            token : Logins, row : Row \cup {NoRow},
            loggedOut : BOOLEAN, judged : Nat, dbJudged : Nat]

Logout == [done : BOOLEAN, token : Logins, stamp : Nat]

TypeOK ==
    /\ credential \in [Users -> Passwords \cup {NoUser}]
    /\ sessions \in [Logins -> Row \cup {NoRow}]
    /\ login \in [Logins -> Login]
    /\ request \in [Requests -> Request]
    /\ logout \in [Logouts -> Logout]
    /\ now \in 1..ClockLimit
    /\ dbNow \in 1..ClockLimit

\* The server listens once the boot's credential is written.
Init ==
    /\ \E u \in Users, w \in Passwords :
            credential = [v \in Users |-> IF v = u THEN w ELSE NoUser]
    /\ sessions = [l \in Logins |-> NoRow]
    /\ login = [l \in Logins |->
            [at |-> "idle", presented |-> NoUser, stored |-> NoUser,
             expires |-> Null]]
    /\ request = [r \in Requests |->
            [at |-> "idle", token |-> CHOOSE l \in Logins : TRUE,
             row |-> NoRow, loggedOut |-> FALSE,
             judged |-> Null, dbJudged |-> Null]]
    /\ logout = [o \in Logouts |->
            [done |-> FALSE, token |-> CHOOSE l \in Logins : TRUE,
             stamp |-> Null]]
    /\ now = 1
    /\ dbNow = 1

(* Accounts *)

\* The upsert rewrites the hash of the configured name and leaves the rows
\* of other names, and every session, alone.
Boot(u, w) ==
    /\ credential' = [credential EXCEPT ![u] = w]
    /\ UNCHANGED <<sessions, login, request, logout, now, dbNow>>

(* Login *)

LoginReads(l, u, w) ==
    /\ login[l].at = "idle"
    /\ login' = [login EXCEPT ![l] =
            [at |-> IF credential[u] = NoUser THEN "refused" ELSE "read",
             presented |-> w, stored |-> credential[u], expires |-> Null]]
    /\ UNCHANGED <<credential, sessions, request, logout, now, dbNow>>

LoginVerifies(l) ==
    /\ login[l].at = "read"
    /\ login' = [login EXCEPT ![l] =
            IF @.presented = @.stored
            THEN [@ EXCEPT !.at = "minted", !.expires = now + Ttl]
            ELSE [@ EXCEPT !.at = "refused"]]
    /\ UNCHANGED <<credential, sessions, request, logout, now, dbNow>>

LoginInserts(l) ==
    /\ login[l].at = "minted"
    /\ sessions' = [sessions EXCEPT ![l] =
            [expires |-> login[l].expires, revoked |-> Null]]
    /\ login' = [login EXCEPT ![l].at = "done"]
    /\ UNCHANGED <<credential, request, logout, now, dbNow>>

(* Guarded request, and introspection *)

\* A token is 32 random bytes: nobody presents one no login has answered
\* with.  A swept row stands for the strings that never had any.
Held(l) == login[l].at = "done"

RequestReads(r, l) ==
    /\ Held(l)
    /\ request[r].at = "idle"
    /\ request' = [request EXCEPT ![r] =
            [at |-> "read", token |-> l, row |-> sessions[l],
             loggedOut |-> \E o \in Logouts :
                                logout[o].done /\ logout[o].token = l,
             judged |-> Null, dbJudged |-> Null]]
    /\ UNCHANGED <<credential, sessions, login, logout, now, dbNow>>

\* Mutants: only the expiry is read; a session is refused the instant before
\* its expiry.
AcceptsRevoked(row, instant) ==
    /\ row # NoRow
    /\ row.expires > instant

AcceptsEarlierOnly(row, instant) ==
    /\ row # NoRow
    /\ row.revoked = Null
    /\ row.expires > instant + 1

Accepts(row, instant) ==
    /\ row # NoRow
    /\ row.revoked = Null
    /\ row.expires > instant

RequestJudges(r) ==
    /\ request[r].at = "read"
    /\ request' = [request EXCEPT
            ![r].at = IF Accepts(request[r].row, now) THEN "accepted"
                                                      ELSE "refused",
            ![r].judged = now,
            ![r].dbJudged = dbNow]
    /\ UNCHANGED <<credential, sessions, login, logout, now, dbNow>>

(* Logout, and the sweep of the store *)

\* Mutant: a logout stamps a row that was stamped before.
RevocableAgain(row) == row # NoRow

Revocable(row) == row # NoRow /\ row.revoked = Null

LogoutRevokes(o, l) ==
    /\ Held(l)
    /\ ~logout[o].done
    /\ logout' = [logout EXCEPT ![o] =
            [done |-> TRUE, token |-> l,
             stamp |-> IF Revocable(sessions[l]) THEN dbNow ELSE Null]]
    /\ sessions' = IF Revocable(sessions[l])
                   THEN [sessions EXCEPT ![l] =
                            [expires |-> sessions[l].expires,
                             revoked |-> dbNow]]
                   ELSE sessions
    /\ UNCHANGED <<credential, login, request, now, dbNow>>

\* Mutant: the sweep takes a row on its expiry.
SweptOnExpiry(row) == row # NoRow /\ row.expires <= dbNow

Swept(row) == row # NoRow /\ row.expires < dbNow

Sweep ==
    /\ sessions' = [l \in Logins |-> IF Swept(sessions[l]) THEN NoRow
                                                           ELSE sessions[l]]
    /\ UNCHANGED <<credential, login, request, logout, now, dbNow>>

(* The clocks *)

ServiceTicks ==
    /\ now < ClockLimit
    /\ now + 1 <= dbNow + Skew
    /\ now' = now + 1
    /\ UNCHANGED <<credential, sessions, login, request, logout, dbNow>>

DatabaseTicks ==
    /\ dbNow < ClockLimit
    /\ dbNow + 1 <= now + Skew
    /\ dbNow' = dbNow + 1
    /\ UNCHANGED <<credential, sessions, login, request, logout, now>>

Next ==
    \/ \E u \in Users, w \in Passwords : Boot(u, w)
    \/ \E l \in Logins, u \in Users, w \in Passwords : LoginReads(l, u, w)
    \/ \E l \in Logins : LoginVerifies(l)
    \/ \E l \in Logins : LoginInserts(l)
    \/ \E r \in Requests, l \in Logins : RequestReads(r, l)
    \/ \E r \in Requests : RequestJudges(r)
    \/ \E o \in Logouts, l \in Logins : LogoutRevokes(o, l)
    \/ Sweep
    \/ ServiceTicks
    \/ DatabaseTicks

Spec == Init /\ [][Next]_vars

-----------------------------------------------------------------------------
(* Properties *)

\* An accepted request was judged within Ttl of the instant its session was
\* minted, and read its session before any logout of the token ran: a logout
\* that slips in between the read and the verdict is the only one missed.
AcceptedOnlyWhileLive ==
    \A r \in Requests :
        request[r].at = "accepted" =>
            /\ request[r].judged < login[request[r].token].expires
            /\ ~request[r].loggedOut

\* A request with a token a login answered with is refused for a reason that
\* held at its verdict: somebody logged that session out, it had expired by
\* the service's clock, or it had by the database's, so that a sweep took it.
\* No boot, rotation of the password or other call takes a session away.
RefusedForAReason ==
    \A r \in Requests :
        LET t == request[r].token IN
        request[r].at = "refused" =>
            \/ \E o \in Logouts : logout[o].token = t /\ logout[o].stamp # Null
            \/ login[t].expires <= request[r].judged
            \/ login[t].expires < request[r].dbJudged

\* However many logouts of one token run, a single one is told that it was
\* the one that revoked, and the row keeps the instant of that one.
StampIsTheOneLogout ==
    \A l \in Logins :
        LET revokers == {o \in Logouts : logout[o].token = l
                                         /\ logout[o].stamp # Null} IN
        /\ \A o1, o2 \in revokers : o1 = o2
        /\ sessions[l] # NoRow =>
                \/ revokers = {} /\ sessions[l].revoked = Null
                \/ \E o \in revokers : sessions[l].revoked = logout[o].stamp

\* A sweep may take a session a request would still have been accepted on,
\* by the skew of the two clocks and by no more.
SweptWithinTheSkew ==
    [][\A l \in Logins :
            (sessions[l] # NoRow /\ sessions'[l] = NoRow)
                => sessions[l].expires < now + Skew]_vars

\* What the header of verifySession says of the sweep.  It holds with no
\* skew, and fails once the database's clock is two instants ahead.
SweepTakesOnlyTheRefused ==
    [][\A l \in Logins :
            (sessions[l] # NoRow /\ sessions'[l] = NoRow)
                => ~Accepts(sessions[l], now)]_vars
=============================================================================
