--------------------------- MODULE OperatorProofs ---------------------------
(***************************************************************************)
(* Proofs about what an operator does through the API: Sessions, for every *)
(* set of users, passwords and calls, every lifetime, skew and bound of    *)
(* the clocks; and below them the rulings of ConfigProposals.              *)
(*                                                                         *)
(* The argument about sessions: a token's row is inserted once, by the     *)
(* login that answers with it, and never comes back after a sweep, so that *)
(* a row that is gone had expired by the database's clock; the first       *)
(* logout to find it writes the only stamp, and every logout that ran      *)
(* leaves no unrevoked row.                                                *)
(***************************************************************************)
EXTENDS Sessions, ConfigProposals, TLAPS

USE SessionAssumption

\* A row belongs to a login that has ended, and keeps its expiry.
RowIsItsLogins ==
    \A l \in Logins : sessions[l] # NoRow =>
        /\ Held(l)
        /\ sessions[l].expires = login[l].expires

\* A token whose row is gone had expired by the database's clock.
GoneHadExpired ==
    \A l \in Logins : (Held(l) /\ sessions[l] = NoRow)
        => login[l].expires < dbNow

\* A logout was given a token by a login, and left no unrevoked row of it.
LogoutLeavesItsMark ==
    \A o \in Logouts : logout[o].done =>
        LET t == logout[o].token IN
        /\ Held(t)
        /\ sessions[t] # NoRow => sessions[t].revoked # Null

StampMeansDone == \A o \in Logouts : logout[o].stamp # Null => logout[o].done

\* What a request holds of a row is what the login wrote, and a stamp on it
\* is some logout's.
ReadRowIsTrue ==
    \A r \in Requests : request[r].at # "idle" =>
        LET t == request[r].token
            row == request[r].row IN
        /\ Held(t)
        /\ row = NoRow => login[t].expires < dbNow
        /\ row # NoRow =>
            /\ row.expires = login[t].expires
            /\ row.revoked # Null => \E o \in Logouts :
                    logout[o].token = t /\ logout[o].stamp # Null
            /\ row.revoked = Null => ~request[r].loggedOut

RefusedRowIsPast ==
    \A r \in Requests :
        (request[r].at = "refused" /\ request[r].row = NoRow)
            => login[request[r].token].expires < request[r].dbJudged

ClocksKeepTogether == dbNow <= now + Skew

IInv ==
    /\ TypeOK
    /\ RowIsItsLogins
    /\ GoneHadExpired
    /\ LogoutLeavesItsMark
    /\ StampMeansDone
    /\ ReadRowIsTrue
    /\ RefusedRowIsPast
    /\ AcceptedOnlyWhileLive
    /\ RefusedForAReason
    /\ StampIsTheOneLogout
    /\ ClocksKeepTogether
-----------------------------------------------------------------------------
LEMMA InitHolds == Init => IInv
<1> SUFFICES ASSUME Init PROVE IInv
    OBVIOUS
<1>1. TypeOK
    BY DEF Init, TypeOK, Row, Login, Request, Logout, Null
<1> QED
    BY <1>1 DEF Init, IInv, RowIsItsLogins, GoneHadExpired, Held, LogoutLeavesItsMark,
        StampMeansDone, ReadRowIsTrue, RefusedRowIsPast, AcceptedOnlyWhileLive,
        RefusedForAReason, StampIsTheOneLogout, ClocksKeepTogether, TypeOK, Null

\* A step of a login that is not answered with its token disturbs nothing.
LEMMA SameLoginsKeep ==
    ASSUME IInv, TypeOK', UNCHANGED <<sessions, request, logout, now, dbNow>>,
           \A k \in Logins : /\ Held(k) => Held(k)' /\ login'[k] = login[k]
                             /\ Held(k)' => Held(k),
           \A r \in Requests : request[r].at # "idle" =>
                request[r].token \in Logins /\ Held(request[r].token)
    PROVE IInv'
<1>1. RowIsItsLogins'
    BY DEF IInv, RowIsItsLogins
<1>2. GoneHadExpired'
    BY DEF IInv, GoneHadExpired
<1>3. LogoutLeavesItsMark'
    BY DEF IInv, LogoutLeavesItsMark, TypeOK, Logout
<1>4. StampMeansDone'
    BY DEF IInv, StampMeansDone
<1>5. ReadRowIsTrue'
    BY DEF IInv, ReadRowIsTrue
<1>6. RefusedRowIsPast'
    BY DEF IInv, RefusedRowIsPast
<1>7. AcceptedOnlyWhileLive'
    BY DEF IInv, AcceptedOnlyWhileLive
<1>8. RefusedForAReason'
    BY DEF IInv, RefusedForAReason
<1>9. StampIsTheOneLogout'
    BY DEF IInv, StampIsTheOneLogout
<1>10. ClocksKeepTogether'
    BY DEF IInv, ClocksKeepTogether
<1> QED
    BY <1>1, <1>2, <1>3, <1>4, <1>5, <1>6, <1>7, <1>8, <1>9, <1>10 DEF IInv

LEMMA LoginReadsKeeps ==
    ASSUME IInv, NEW l \in Logins, NEW u \in Users, NEW w \in Passwords, LoginReads(l, u, w)
    PROVE IInv'
<1>1. TypeOK'
    BY DEF IInv, LoginReads, TypeOK, Row, Login, Request, Logout, Null
<1>2. \A k \in Logins : /\ Held(k) => Held(k)' /\ login'[k] = login[k]
                        /\ Held(k)' => Held(k)
    BY DEF IInv, LoginReads, TypeOK, Login, Held
<1>3. UNCHANGED <<sessions, request, logout, now, dbNow>>
    BY DEF LoginReads
<1>4. \A r \in Requests : request[r].at # "idle" =>
            request[r].token \in Logins /\ Held(request[r].token)
    BY DEF IInv, TypeOK, Request, ReadRowIsTrue
<1> QED
    BY <1>1, <1>2, <1>3, <1>4, SameLoginsKeep

LEMMA LoginVerifiesKeeps ==
    ASSUME IInv, NEW l \in Logins, LoginVerifies(l)
    PROVE IInv'
<1> DEFINE h == IF login[l].presented = login[l].stored
                THEN [login[l] EXCEPT !.at = "minted", !.expires = now + Ttl]
                ELSE [login[l] EXCEPT !.at = "refused"]
<1>1. h \in Login /\ h.at # "done"
    <2>1. login[l] \in Login /\ now + Ttl \in Nat
        BY DEF IInv, TypeOK
    <2>2. /\ [login[l] EXCEPT !.at = "minted", !.expires = now + Ttl] \in Login
          /\ [login[l] EXCEPT !.at = "minted", !.expires = now + Ttl].at = "minted"
        BY <2>1 DEF Login
    <2>3. /\ [login[l] EXCEPT !.at = "refused"] \in Login
          /\ [login[l] EXCEPT !.at = "refused"].at = "refused"
        BY <2>1 DEF Login
    <2> QED
        BY <2>2, <2>3
<1>2. login' = [login EXCEPT ![l] = h]
    BY DEF LoginVerifies
<1>3. UNCHANGED <<credential, sessions, request, logout, now, dbNow>> /\ login[l].at = "read"
    BY DEF LoginVerifies
<1> HIDE DEF h
<1>4. TypeOK'
    BY <1>1, <1>2, <1>3 DEF IInv, TypeOK
<1>5. \A k \in Logins : /\ Held(k) => Held(k)' /\ login'[k] = login[k]
                        /\ Held(k)' => Held(k)
    BY <1>1, <1>2, <1>3 DEF IInv, TypeOK, Held
<1>6. \A r \in Requests : request[r].at # "idle" =>
            request[r].token \in Logins /\ Held(request[r].token)
    BY DEF IInv, TypeOK, Request, ReadRowIsTrue
<1> QED
    BY <1>3, <1>4, <1>5, <1>6, SameLoginsKeep

LEMMA LoginInsertsKeeps ==
    ASSUME IInv, NEW l \in Logins, LoginInserts(l)
    PROVE IInv'
<1> DEFINE row == [expires |-> login[l].expires, revoked |-> Null]
           h == [login[l] EXCEPT !.at = "done"]
<1>1. /\ row \in Row /\ row # NoRow
      /\ row.expires = login[l].expires /\ row.revoked = Null
      /\ h \in Login /\ h.at = "done" /\ h.expires = login[l].expires
    BY DEF IInv, TypeOK, Login, Row, Null
<1>2. login' = [login EXCEPT ![l] = h] /\ sessions' = [sessions EXCEPT ![l] = row]
    BY DEF LoginInserts
<1>3. UNCHANGED <<credential, request, logout, now, dbNow>> /\ login[l].at = "minted"
    BY DEF LoginInserts
<1> HIDE DEF h, row
<1>4. TypeOK'
    BY <1>1, <1>2, <1>3 DEF IInv, TypeOK
<1>5. /\ ~Held(l) /\ Held(l)' /\ login'[l].expires = login[l].expires
      /\ sessions'[l] = row
      /\ \A k \in Logins \ {l} : login'[k] = login[k] /\ sessions'[k] = sessions[k]
                                 /\ (Held(k)' <=> Held(k))
    BY <1>1, <1>2, <1>3 DEF IInv, TypeOK, Held
<1>6. /\ \A r \in Requests : request[r].at # "idle" =>
            request[r].token \in Logins \ {l}
      /\ \A o \in Logouts : logout[o].done => logout[o].token \in Logins \ {l}
      /\ \A o \in Logouts : logout[o].stamp # Null => logout[o].done
    BY <1>5 DEF IInv, TypeOK, Request, Logout, ReadRowIsTrue, LogoutLeavesItsMark,
        StampMeansDone
<1>7. RowIsItsLogins'
    BY <1>1, <1>5 DEF IInv, RowIsItsLogins
<1>8. GoneHadExpired'
    BY <1>1, <1>3, <1>5 DEF IInv, GoneHadExpired
<1>9. LogoutLeavesItsMark'
    BY <1>3, <1>5, <1>6 DEF IInv, LogoutLeavesItsMark
<1>10. StampMeansDone'
    BY <1>3 DEF IInv, StampMeansDone
<1>11. ReadRowIsTrue'
    BY <1>3, <1>5, <1>6 DEF IInv, ReadRowIsTrue
<1>12. RefusedRowIsPast'
    BY <1>3, <1>5, <1>6 DEF IInv, RefusedRowIsPast
<1>13. AcceptedOnlyWhileLive'
    BY <1>3, <1>5, <1>6 DEF IInv, AcceptedOnlyWhileLive
<1>14. RefusedForAReason'
    BY <1>3, <1>5, <1>6 DEF IInv, RefusedForAReason
<1>15. StampIsTheOneLogout'
    <2>1. {o \in Logouts : logout[o].token = l /\ logout[o].stamp # Null} = {}
        BY <1>6
    <2> QED
        BY <1>1, <1>3, <1>5, <2>1 DEF IInv, StampIsTheOneLogout
<1> QED
    BY <1>3, <1>4, <1>7, <1>8, <1>9, <1>10, <1>11, <1>12, <1>13, <1>14, <1>15
        DEF IInv, ClocksKeepTogether

LEMMA RequestReadsKeeps ==
    ASSUME IInv, NEW r \in Requests, NEW l \in Logins, RequestReads(r, l)
    PROVE IInv'
<1> DEFINE logged == \E o \in Logouts : logout[o].done /\ logout[o].token = l
           q == [at |-> "read", token |-> l, row |-> sessions[l],
                 loggedOut |-> logged, judged |-> Null, dbJudged |-> Null]
<1>1. q \in Request
    BY DEF IInv, TypeOK, Request, Null
<1>2. request' = [request EXCEPT ![r] = q]
    BY DEF RequestReads
<1>3. UNCHANGED <<credential, sessions, login, logout, now, dbNow>> /\ Held(l)
    BY DEF RequestReads
<1>4. /\ q.at = "read" /\ q.token = l /\ q.row = sessions[l]
      /\ q.loggedOut => logged
    OBVIOUS
<1>5. TypeOK'
    BY <1>1, <1>2, <1>3 DEF IInv, TypeOK
<1>6. request'[r] = q /\ \A k \in Requests \ {r} : request'[k] = request[k]
    BY <1>2 DEF IInv, TypeOK
<1>7. /\ sessions[l] = NoRow => login[l].expires < dbNow
      /\ sessions[l] # NoRow =>
            /\ sessions[l].expires = login[l].expires
            /\ sessions[l].revoked = Null => ~logged
            /\ sessions[l].revoked # Null => \E o \in Logouts :
                    logout[o].token = l /\ logout[o].stamp # Null
    <2>1. sessions[l] = NoRow => login[l].expires < dbNow
        BY <1>3 DEF IInv, GoneHadExpired
    <2>2. sessions[l] # NoRow => sessions[l].expires = login[l].expires
        BY DEF IInv, RowIsItsLogins
    <2>3. (sessions[l] # NoRow /\ sessions[l].revoked = Null) => ~logged
        BY DEF IInv, LogoutLeavesItsMark
    <2>4. (sessions[l] # NoRow /\ sessions[l].revoked # Null) => \E o \in Logouts :
                logout[o].token = l /\ logout[o].stamp # Null
        BY DEF IInv, StampIsTheOneLogout
    <2> QED
        BY <2>1, <2>2, <2>3, <2>4
<1> HIDE DEF q, logged
<1>8. ReadRowIsTrue'
    <2> SUFFICES ASSUME NEW k \in Requests, (request[k].at # "idle")'
                 PROVE  LET t == request'[k].token
                            row == request'[k].row IN
                        /\ Held(t)
                        /\ row = NoRow => login[t].expires < dbNow
                        /\ row # NoRow =>
                            /\ row.expires = login[t].expires
                            /\ row.revoked # Null => \E o \in Logouts :
                                    logout[o].token = t /\ logout[o].stamp # Null
                            /\ row.revoked = Null => ~request'[k].loggedOut
        BY <1>3 DEF ReadRowIsTrue, Held
    <2>1. CASE k = r
        BY <1>3, <1>4, <1>6, <1>7, <2>1
    <2>2. CASE k # r
        BY <1>6, <2>2 DEF IInv, ReadRowIsTrue
    <2> QED
        BY <2>1, <2>2
<1>9. RefusedRowIsPast'
    BY <1>3, <1>4, <1>6 DEF IInv, RefusedRowIsPast
<1>10. AcceptedOnlyWhileLive'
    BY <1>3, <1>4, <1>6 DEF IInv, AcceptedOnlyWhileLive
<1>11. RefusedForAReason'
    BY <1>3, <1>4, <1>6 DEF IInv, RefusedForAReason
<1> QED
    BY <1>3, <1>5, <1>8, <1>9, <1>10, <1>11 DEF IInv, RowIsItsLogins, GoneHadExpired, Held,
        LogoutLeavesItsMark, StampMeansDone, StampIsTheOneLogout, ClocksKeepTogether

LEMMA RequestJudgesKeeps ==
    ASSUME IInv, NEW r \in Requests, RequestJudges(r)
    PROVE IInv'
<1> DEFINE row == request[r].row
           t == request[r].token
           q == [request[r] EXCEPT
                    !.at = IF Accepts(row, now) THEN "accepted" ELSE "refused",
                    !.judged = now, !.dbJudged = dbNow]
<1>1. q \in Request
    <2> DEFINE verdict == IF Accepts(row, now) THEN "accepted" ELSE "refused"
    <2>1. request[r] \in Request /\ now \in Nat /\ dbNow \in Nat
        BY DEF IInv, TypeOK
    <2>2. verdict \in {"accepted", "refused"}
        OBVIOUS
    <2> HIDE DEF verdict
    <2>3. [request[r] EXCEPT !.at = verdict, !.judged = now, !.dbJudged = dbNow] \in Request
        BY <2>1, <2>2 DEF Request
    <2> QED
        BY <2>3 DEF verdict
<1>2. request' = [request EXCEPT ![r] = q]
    BY DEF RequestJudges, IInv, TypeOK, Request
<1>3. UNCHANGED <<credential, sessions, login, logout, now, dbNow>> /\ request[r].at = "read"
    BY DEF RequestJudges
<1>4. /\ q.at = IF Accepts(row, now) THEN "accepted" ELSE "refused"
      /\ q.token = t /\ q.row = row /\ q.loggedOut = request[r].loggedOut
      /\ q.judged = now /\ q.dbJudged = dbNow
    BY DEF IInv, TypeOK, Request
<1>5. row = NoRow \/ row \in Row
    BY DEF IInv, TypeOK, Request
<1>6. /\ Held(t) /\ t \in Logins
      /\ row = NoRow => login[t].expires < dbNow
      /\ row # NoRow =>
            /\ row.expires = login[t].expires
            /\ row.revoked # Null => \E o \in Logouts :
                    logout[o].token = t /\ logout[o].stamp # Null
            /\ row.revoked = Null => ~request[r].loggedOut
    BY <1>3 DEF IInv, TypeOK, Request, ReadRowIsTrue
<1> HIDE DEF q, row, t
<1>7. TypeOK'
    BY <1>1, <1>2, <1>3 DEF IInv, TypeOK
<1>8. request'[r] = q /\ \A k \in Requests \ {r} : request'[k] = request[k]
    BY <1>2 DEF IInv, TypeOK
<1>9. ReadRowIsTrue'
    <2> SUFFICES ASSUME NEW k \in Requests, (request[k].at # "idle")'
                 PROVE  LET s == request'[k].token
                            read == request'[k].row IN
                        /\ Held(s)
                        /\ read = NoRow => login[s].expires < dbNow
                        /\ read # NoRow =>
                            /\ read.expires = login[s].expires
                            /\ read.revoked # Null => \E o \in Logouts :
                                    logout[o].token = s /\ logout[o].stamp # Null
                            /\ read.revoked = Null => ~request'[k].loggedOut
        BY <1>3 DEF ReadRowIsTrue, Held
    <2>1. CASE k = r
        BY <1>4, <1>6, <1>8, <2>1
    <2>2. CASE k # r
        BY <1>8, <2>2 DEF IInv, ReadRowIsTrue
    <2> QED
        BY <2>1, <2>2
<1>10. RefusedRowIsPast'
    BY <1>3, <1>4, <1>6, <1>8 DEF IInv, RefusedRowIsPast
<1>11. AcceptedOnlyWhileLive'
    <2>1. q.at = "accepted" => now < login[t].expires /\ ~q.loggedOut
        <3>1. login[t].expires \in Nat /\ now \in Nat
            BY <1>6 DEF IInv, TypeOK, Login
        <3> QED
            BY <1>4, <1>6, <3>1 DEF Accepts
    <2> QED
        BY <1>3, <1>4, <1>8, <2>1 DEF IInv, AcceptedOnlyWhileLive
<1>12. RefusedForAReason'
    <2>1. q.at = "refused" =>
            \/ \E o \in Logouts : logout[o].token = t /\ logout[o].stamp # Null
            \/ login[t].expires <= now
            \/ login[t].expires < dbNow
        <3>1. login[t].expires \in Nat /\ now \in Nat
            BY <1>6 DEF IInv, TypeOK, Login
        <3> QED
            BY <1>4, <1>6, <3>1 DEF Accepts
    <2> QED
        BY <1>3, <1>4, <1>8, <2>1 DEF IInv, RefusedForAReason
<1> QED
    BY <1>3, <1>7, <1>9, <1>10, <1>11, <1>12 DEF IInv, RowIsItsLogins, GoneHadExpired, Held,
        LogoutLeavesItsMark, StampMeansDone, StampIsTheOneLogout, ClocksKeepTogether

LEMMA LogoutRevokesKeeps ==
    ASSUME IInv, NEW o \in Logouts, NEW l \in Logins, LogoutRevokes(o, l)
    PROVE IInv'
<1> DEFINE stamp == IF Revocable(sessions[l]) THEN dbNow ELSE Null
           h == [done |-> TRUE, token |-> l, stamp |-> stamp]
           row == [expires |-> sessions[l].expires, revoked |-> dbNow]
<1>1. /\ UNCHANGED <<credential, login, request, now, dbNow>>
      /\ Held(l) /\ ~logout[o].done
      /\ logout' = [logout EXCEPT ![o] = h]
      /\ sessions' = IF Revocable(sessions[l]) THEN [sessions EXCEPT ![l] = row] ELSE sessions
    BY DEF LogoutRevokes
<1>2. /\ stamp \in Nat /\ dbNow \in Nat /\ dbNow # Null
      /\ Revocable(sessions[l]) => stamp = dbNow
      /\ ~Revocable(sessions[l]) => stamp = Null
    BY DEF IInv, TypeOK, Null
<1>3. Revocable(sessions[l]) => /\ sessions[l] # NoRow
                                /\ sessions[l].revoked = Null
                                /\ row \in Row /\ row # NoRow
                                /\ row.expires = sessions[l].expires /\ row.revoked = dbNow
    BY <1>2 DEF Revocable, IInv, TypeOK, Row
<1>4. h \in Logout /\ h.done /\ h.token = l /\ h.stamp = stamp
    BY <1>2 DEF Logout
<1> HIDE DEF h, row, stamp
<1>5. TypeOK'
    BY <1>1, <1>3, <1>4 DEF IInv, TypeOK
<1>6. /\ logout'[o] = h /\ \A k \in Logouts \ {o} : logout'[k] = logout[k]
      /\ \A k \in Logins \ {l} : sessions'[k] = sessions[k]
      /\ sessions'[l] = IF Revocable(sessions[l]) THEN row ELSE sessions[l]
    BY <1>1 DEF IInv, TypeOK
<1>7. logout[o].stamp = Null
    BY <1>1 DEF IInv, StampMeansDone
<1>8. \A k \in Logins : Held(k)' <=> Held(k)
    BY <1>1 DEF Held
<1>9. RowIsItsLogins'
    BY <1>1, <1>3, <1>6, <1>8 DEF IInv, RowIsItsLogins
<1>10. GoneHadExpired'
    BY <1>1, <1>3, <1>6, <1>8 DEF IInv, GoneHadExpired
<1>11. LogoutLeavesItsMark'
    <2>1. sessions'[l] # NoRow => sessions'[l].revoked # Null
        BY <1>2, <1>3, <1>6 DEF Revocable
    <2>2. \A k \in Logins : (sessions[k] # NoRow => sessions[k].revoked # Null)
                                => (sessions'[k] # NoRow => sessions'[k].revoked # Null)
        BY <1>6, <2>1
    <2> SUFFICES ASSUME NEW k \in Logouts, logout'[k].done
                 PROVE  /\ login'[logout'[k].token].at = "done"
                        /\ sessions'[logout'[k].token] # NoRow
                                => sessions'[logout'[k].token].revoked # Null
        BY DEF LogoutLeavesItsMark, Held
    <2>3. CASE k = o
        BY <1>1, <1>4, <1>6, <2>1, <2>3 DEF Held
    <2>4. CASE k # o
        <3>1. logout'[k] = logout[k] /\ logout[k].token \in Logins
            BY <1>6, <2>4 DEF IInv, TypeOK, Logout
        <3> QED
            BY <1>1, <2>2, <3>1 DEF IInv, LogoutLeavesItsMark, Held
    <2> QED
        BY <2>3, <2>4
<1>12. StampMeansDone'
    BY <1>4, <1>6 DEF IInv, StampMeansDone
<1>13. \A k \in Logouts, t \in Logins :
            (logout[k].token = t /\ logout[k].stamp # Null)
                => (logout'[k].token = t /\ logout'[k].stamp # Null)
    BY <1>6, <1>7
<1>14. ReadRowIsTrue'
    <2> SUFFICES ASSUME NEW r \in Requests, request[r].at # "idle"
                 PROVE  LET t == request[r].token
                            read == request[r].row IN
                        /\ login[t].at = "done"
                        /\ read = NoRow => login[t].expires < dbNow
                        /\ read # NoRow =>
                            /\ read.expires = login[t].expires
                            /\ read.revoked # Null => \E k \in Logouts :
                                    logout'[k].token = t /\ logout'[k].stamp # Null
                            /\ read.revoked = Null => ~request[r].loggedOut
        BY <1>1 DEF ReadRowIsTrue, Held
    <2>1. request[r].token \in Logins
        BY DEF IInv, TypeOK, Request
    <2> QED
        BY <1>13, <2>1 DEF IInv, ReadRowIsTrue, Held
<1>15. RefusedRowIsPast'
    BY <1>1 DEF IInv, RefusedRowIsPast
<1>16. AcceptedOnlyWhileLive'
    BY <1>1 DEF IInv, AcceptedOnlyWhileLive
<1>17. RefusedForAReason'
    <2> SUFFICES ASSUME NEW r \in Requests, request[r].at = "refused"
                 PROVE  \/ \E k \in Logouts : /\ logout'[k].token = request[r].token
                                              /\ logout'[k].stamp # Null
                        \/ login[request[r].token].expires <= request[r].judged
                        \/ login[request[r].token].expires < request[r].dbJudged
        BY <1>1 DEF RefusedForAReason
    <2>1. request[r].token \in Logins
        BY DEF IInv, TypeOK, Request
    <2> QED
        BY <1>13, <2>1 DEF IInv, RefusedForAReason
<1>18. StampIsTheOneLogout'
    <2> DEFINE Revokers(t) == {k \in Logouts : logout[k].token = t /\ logout[k].stamp # Null}
               Now(t) == {k \in Logouts : logout'[k].token = t /\ logout'[k].stamp # Null}
    <2> SUFFICES ASSUME NEW t \in Logins
                 PROVE  /\ \A o1, o2 \in Now(t) : o1 = o2
                        /\ sessions'[t] # NoRow =>
                            \/ Now(t) = {} /\ sessions'[t].revoked = Null
                            \/ \E k \in Now(t) : sessions'[t].revoked = logout'[k].stamp
        BY DEF StampIsTheOneLogout
    <2>1. /\ \A o1, o2 \in Revokers(t) : o1 = o2
          /\ sessions[t] # NoRow =>
                \/ Revokers(t) = {} /\ sessions[t].revoked = Null
                \/ \E k \in Revokers(t) : sessions[t].revoked = logout[k].stamp
        BY DEF IInv, StampIsTheOneLogout
    <2>2. CASE t = l /\ Revocable(sessions[l])
        <3>1. Revokers(l) = {}
            BY <1>3, <2>1, <2>2
        <3>2. Now(l) = {o}
            BY <1>2, <1>4, <1>6, <2>2, <3>1
        <3>3. sessions'[l].revoked = logout'[o].stamp
            BY <1>2, <1>3, <1>4, <1>6, <2>2
        <3> QED
            BY <2>2, <3>2, <3>3
    <2>3. CASE ~(t = l /\ Revocable(sessions[l]))
        <3>1. sessions'[t] = sessions[t]
            BY <1>6, <2>3
        <3>2. Now(t) = Revokers(t) /\ o \notin Revokers(t)
            BY <1>2, <1>4, <1>6, <1>7, <2>3
        <3>3. \A k \in Now(t) : logout'[k].stamp = logout[k].stamp
            BY <1>6, <3>2
        <3> QED
            BY <2>1, <3>1, <3>2, <3>3
    <2> QED
        BY <2>2, <2>3
<1> QED
    BY <1>1, <1>5, <1>9, <1>10, <1>11, <1>12, <1>14, <1>15, <1>16, <1>17, <1>18
        DEF IInv, ClocksKeepTogether

LEMMA SweepKeeps ==
    ASSUME IInv, Sweep
    PROVE IInv'
<1>1. TypeOK'
    BY DEF IInv, Sweep, TypeOK, Row, Login, Request, Logout, Null
<1>2. RowIsItsLogins'
    BY <1>1 DEF IInv, Sweep, TypeOK, Row, Login, Request, Logout, Null, RowIsItsLogins, Held
<1>3. GoneHadExpired'
    <2> SUFFICES ASSUME NEW l \in Logins, Held(l), sessions'[l] = NoRow
                 PROVE  login[l].expires < dbNow
        BY DEF Sweep, GoneHadExpired, Held
    <2>1. CASE sessions[l] = NoRow
        BY <2>1 DEF IInv, GoneHadExpired
    <2>2. CASE sessions[l] # NoRow
        <3>1. Swept(sessions[l])
            BY <2>2 DEF Sweep
        <3> QED
            BY <2>2, <3>1 DEF Swept, IInv, RowIsItsLogins
    <2> QED
        BY <2>1, <2>2
<1>4. LogoutLeavesItsMark'
    BY <1>1 DEF IInv, Sweep, TypeOK, Row, Login, Request, Logout, Null,
        LogoutLeavesItsMark, Held
<1>5. StampMeansDone'
    BY <1>1 DEF IInv, Sweep, TypeOK, Row, Login, Request, Logout, Null, StampMeansDone, Held
<1>6. ReadRowIsTrue'
    BY <1>1 DEF IInv, Sweep, TypeOK, Row, Login, Request, Logout, Null, ReadRowIsTrue, Held
<1>7. RefusedRowIsPast'
    BY <1>1 DEF IInv, Sweep, TypeOK, Row, Login, Request, Logout, Null,
        RefusedRowIsPast, Held
<1>8. AcceptedOnlyWhileLive'
    BY <1>1 DEF IInv, Sweep, TypeOK, Row, Login, Request, Logout, Null,
        AcceptedOnlyWhileLive, Held
<1>9. RefusedForAReason'
    BY <1>1 DEF IInv, Sweep, TypeOK, Row, Login, Request, Logout, Null,
        RefusedForAReason, Held
<1>10. StampIsTheOneLogout'
    BY <1>1 DEF IInv, Sweep, TypeOK, Row, Login, Request, Logout, Null,
        StampIsTheOneLogout, Held
<1>11. ClocksKeepTogether'
    BY <1>1 DEF IInv, Sweep, TypeOK, Row, Login, Request, Logout, Null,
        ClocksKeepTogether, Held
<1> QED
    BY <1>1, <1>2, <1>3, <1>4, <1>5, <1>6, <1>7, <1>8, <1>9, <1>10, <1>11 DEF IInv

LEMMA BootKeeps ==
    ASSUME IInv, NEW u \in Users, NEW w \in Passwords, Boot(u, w)
    PROVE IInv'
<1>1. TypeOK'
    BY DEF IInv, Boot, TypeOK
<1>2. UNCHANGED <<sessions, login, request, logout, now, dbNow>>
    BY DEF Boot
<1>3. \A r \in Requests : request[r].at # "idle" =>
            request[r].token \in Logins /\ Held(request[r].token)
    BY DEF IInv, TypeOK, Request, ReadRowIsTrue
<1>4. \A k \in Logins : /\ Held(k) => Held(k)' /\ login'[k] = login[k]
                        /\ Held(k)' => Held(k)
    BY <1>2 DEF Held
<1> QED
    BY <1>1, <1>2, <1>3, <1>4, SameLoginsKeep

LEMMA ServiceTicksKeeps ==
    ASSUME IInv, ServiceTicks
    PROVE IInv'
<1>1. TypeOK' /\ ClocksKeepTogether'
    BY DEF IInv, ServiceTicks, TypeOK, ClocksKeepTogether
<1> QED
    BY <1>1 DEF IInv, ServiceTicks, RowIsItsLogins, GoneHadExpired, Held,
        LogoutLeavesItsMark,
        StampMeansDone, ReadRowIsTrue, RefusedRowIsPast, AcceptedOnlyWhileLive,
        RefusedForAReason, StampIsTheOneLogout

LEMMA DatabaseTicksKeeps ==
    ASSUME IInv, DatabaseTicks
    PROVE IInv'
<1>1. TypeOK' /\ ClocksKeepTogether'
    BY DEF IInv, DatabaseTicks, TypeOK, ClocksKeepTogether
<1>2. UNCHANGED <<credential, sessions, login, request, logout, now>>
    BY DEF DatabaseTicks
<1>3. \A n \in Nat : n < dbNow => n < dbNow'
    BY DEF IInv, TypeOK, DatabaseTicks
<1>4. /\ \A l \in Logins : login[l].expires \in Nat
      /\ \A r \in Requests : request[r].token \in Logins
    BY DEF IInv, TypeOK, Login, Request
<1>5. GoneHadExpired'
    BY <1>2, <1>3, <1>4 DEF IInv, GoneHadExpired, Held
<1>6. ReadRowIsTrue'
    BY <1>2, <1>3, <1>4 DEF IInv, ReadRowIsTrue, Held
<1> QED
    BY <1>1, <1>2, <1>5, <1>6 DEF IInv, RowIsItsLogins, Held, LogoutLeavesItsMark,
        StampMeansDone, RefusedRowIsPast, AcceptedOnlyWhileLive,
        RefusedForAReason, StampIsTheOneLogout

LEMMA StepKeeps == IInv /\ [Next]_vars => IInv'
<1> SUFFICES ASSUME IInv, [Next]_vars PROVE IInv'
    OBVIOUS
<1>1. CASE Next
    BY <1>1, BootKeeps, LoginReadsKeeps, LoginVerifiesKeeps, LoginInsertsKeeps,
        RequestReadsKeeps, RequestJudgesKeeps, LogoutRevokesKeeps, SweepKeeps,
        ServiceTicksKeeps, DatabaseTicksKeeps DEF Next
<1>2. CASE UNCHANGED vars
    BY <1>2 DEF vars, IInv, TypeOK, RowIsItsLogins, GoneHadExpired, Held,
        LogoutLeavesItsMark,
        StampMeansDone, ReadRowIsTrue, RefusedRowIsPast, AcceptedOnlyWhileLive,
        RefusedForAReason, StampIsTheOneLogout, ClocksKeepTogether
<1> QED
    BY <1>1, <1>2

LEMMA Invariance == Spec => []IInv
    BY InitHolds, StepKeeps, PTL DEF Spec

-----------------------------------------------------------------------------
\* Every account, session and call keeps its type.
THEOREM SessionTypes == Spec => []TypeOK
<1>1. IInv => TypeOK
    BY DEF IInv
<1> QED
    BY <1>1, Invariance, PTL

\* A request is accepted only before its session's expiry, and never when it
\* read the session after a logout of the token had run.
THEOREM AcceptedWhileLive == Spec => []AcceptedOnlyWhileLive
<1>1. IInv => AcceptedOnlyWhileLive
    BY DEF IInv
<1> QED
    BY <1>1, Invariance, PTL

\* Nothing but a logout and the two clocks takes a session away.
THEOREM RefusedWithAReason == Spec => []RefusedForAReason
<1>1. IInv => RefusedForAReason
    BY DEF IInv
<1> QED
    BY <1>1, Invariance, PTL

\* Of all the logouts of a token one revokes it, and its stamp stands.
THEOREM OneLogoutStamps == Spec => []StampIsTheOneLogout
<1>1. IInv => StampIsTheOneLogout
    BY DEF IInv
<1> QED
    BY <1>1, Invariance, PTL

\* A sweep takes a session earlier than a request would have refused it by
\* less than the skew of the clocks.
THEOREM SweepWithinTheSkew == Spec => SweptWithinTheSkew
<1> DEFINE Within == \A l \in Logins :
            (sessions[l] # NoRow /\ sessions'[l] = NoRow)
                => sessions[l].expires < now + Skew
<1>1. IInv /\ [Next]_vars => [Within]_vars
    <2> SUFFICES ASSUME IInv, Next, NEW l \in Logins,
                        sessions[l] # NoRow, sessions'[l] = NoRow
                 PROVE  sessions[l].expires < now + Skew
        OBVIOUS
    <2>1. Swept(sessions[l])
        <3>1. CASE Sweep
            BY <3>1 DEF Sweep
        <3>2. ASSUME NEW k \in Logins, LoginInserts(k) PROVE FALSE
            <4>1. [expires |-> login[k].expires, revoked |-> Null] \in Row
                BY DEF IInv, TypeOK, Login, Row, Null
            <4> QED
                BY <3>2, <4>1 DEF LoginInserts, IInv, TypeOK, Row
        <3>3. ASSUME NEW o \in Logouts, NEW k \in Logins, LogoutRevokes(o, k) PROVE FALSE
            <4>1. sessions[k] # NoRow =>
                    [expires |-> sessions[k].expires, revoked |-> dbNow] \in Row
                BY DEF IInv, TypeOK, Row
            <4> QED
                BY <3>3, <4>1 DEF LogoutRevokes, Revocable, IInv, TypeOK, Row
        <3>4. CASE UNCHANGED sessions
            BY <3>4
        <3> QED
            BY <3>1, <3>2, <3>3, <3>4 DEF Next, Boot, LoginReads, LoginVerifies,
        RequestReads,
                RequestJudges, ServiceTicks, DatabaseTicks
    <2>2. sessions[l].expires \in Nat /\ now \in Nat /\ dbNow \in Nat
        BY DEF IInv, TypeOK, Row
    <2> QED
        BY <2>1, <2>2 DEF Swept, IInv, ClocksKeepTogether
<1> QED
    BY <1>1, Invariance, PTL DEF Spec, SweptWithinTheSkew

-----------------------------------------------------------------------------
(* Rulings on the parser configuration of a source, ConfigProposals, for   *)
(* every set of proposals and of calls.                                    *)
(*                                                                         *)
(* The argument: a call is admitted only onto a proposal not stamped       *)
(* applied, so a call still under way on a proposal that has been applied  *)
(* was under way with whichever call applied it.  The rest relates what    *)
(* the stamps say (the BEGIN of the first application) to what is in force *)
(* (the commit of the last).                                               *)

HIDE SessionAssumption
USE ProposalAssumption

Began(r) == ruling[r].at \in {"begun", "approved", "written"}

\* A call has a proposal as long as it is under way or applied, and the instant
\* of its BEGIN once it has had one.
CallsAreDated ==
    \A r \in Rulings :
        /\ ruling[r].at \in UnderWay \cup {"applied"} => ruling[r].of \in Proposals
        /\ ruling[r].at \in {"begun", "approved", "written", "applied"}
             => ruling[r].began # None
        /\ ruling[r].began < clock

AppliedIsStamped ==
    \A r \in Rulings : ruling[r].at = "applied" =>
        /\ proposal[ruling[r].of].approvedAt # None
        /\ proposal[ruling[r].of].appliedAt # None

\* The stamp is the BEGIN of a call that applied it.
StampIsACall ==
    \A p \in Proposals : proposal[p].appliedAt # None =>
        \E s \in Applications(p) : ruling[s].began = proposal[p].appliedAt

UnderWayTogether ==
    \A q, r \in Rulings :
        q # r /\ ruling[q].at \in UnderWay /\ ruling[r].at \in UnderWay
        => {q, r} \in overlap

AppliedWhileUnderWay ==
    \A q, r \in Rulings :
        /\ ruling[q].at = "applied" /\ ruling[r].at \in UnderWay
        /\ ruling[q].of = ruling[r].of
        => {q, r} \in overlap

\* What began after a call that is still under way was under way with it.
BegunAfterOneUnderWay ==
    \A r, s \in Rulings :
        r # s /\ Began(r) /\ ruling[s].began > ruling[r].began => {r, s} \in overlap

\* What began after an application was under way with it, or with any other call
\* that has been under way on the same proposal since.
BegunAfterAnApplication ==
    \A q, r, s \in Rulings :
        /\ ruling[q].at = "applied" /\ ruling[r].at \in UnderWay
        /\ ruling[q].of = ruling[r].of
        /\ r # s /\ ruling[s].began > ruling[q].began
        => {q, s} \in overlap \/ {r, s} \in overlap

RulingInv ==
    /\ RulingTypeOK
    /\ CallsAreDated
    /\ AppliedIsStamped
    /\ StampIsACall
    /\ UnderWayTogether
    /\ AppliedWhileUnderWay
    /\ BegunAfterOneUnderWay
    /\ BegunAfterAnApplication
    /\ InForceIsAccountedFor
    /\ AppliedAgainOnlyByAnOverlap
    /\ LaterStampIsInForce

LEMMA PairsCommute == \A x, y : {x, y} = {y, x}
  OBVIOUS
-----------------------------------------------------------------------------
LEMMA InitRulingInv == RulingInit => RulingInv
  <1> SUFFICES ASSUME RulingInit PROVE RulingInv
    OBVIOUS
  <1> USE DEF RulingInit, Idle, Absent, None, Stamp,
              Statuses, UnderWay
  <1>1. RulingTypeOK
    BY DEF RulingTypeOK
  <1>2. \A r \in Rulings : ruling[r].at = "idle" /\ ruling[r].began = None
    OBVIOUS
  <1>3. \A p \in Proposals : proposal[p].appliedAt = None
    OBVIOUS
  <1>4. CallsAreDated /\ AppliedIsStamped /\ StampIsACall
    BY <1>2, <1>3 DEF CallsAreDated, AppliedIsStamped, StampIsACall
  <1>5. UnderWayTogether /\ AppliedWhileUnderWay /\ BegunAfterOneUnderWay
        /\ BegunAfterAnApplication
    BY <1>2 DEF UnderWayTogether, AppliedWhileUnderWay, BegunAfterOneUnderWay,
                BegunAfterAnApplication, Began
  <1>6. InForceIsAccountedFor /\ LaterStampIsInForce
    BY DEF InForceIsAccountedFor, LaterStampIsInForce
  <1>7. AppliedAgainOnlyByAnOverlap
    BY <1>2 DEF AppliedAgainOnlyByAnOverlap, Applications
  <1> QED
    BY <1>1, <1>4, <1>5, <1>6, <1>7 DEF RulingInv

\* A step that moves no call into UnderWay, applies nothing, and leaves or dates
\* later what began, keeps everything that is said of calls and stamps.
LEMMA QuietConfigStep ==
    ASSUME RulingInv, RulingTypeOK',
           overlap' = overlap,
           clock' \in Nat, clock <= clock',
           \A r \in Rulings :
              /\ ruling'[r].of = ruling[r].of /\ ruling'[r].began = ruling[r].began
              /\ ruling'[r].at = "applied" <=> ruling[r].at = "applied"
              /\ ruling'[r].at \in UnderWay => ruling[r].at \in UnderWay
              /\ Began(r)' => Began(r),
           \A p \in Proposals :
              /\ proposal'[p].appliedAt = proposal[p].appliedAt
              /\ proposal[p].approvedAt # None => proposal'[p].approvedAt # None,
           inForce' \in {inForce, Patched}
    PROVE  RulingInv'
  <1> USE DEF RulingInv
  <1>1. CallsAreDated'
    BY DEF CallsAreDated, Began, RulingTypeOK, UnderWay, Stamp
  <1>2. AppliedIsStamped' /\ StampIsACall'
    BY DEF CallsAreDated, AppliedIsStamped, StampIsACall, Applications,
       UnderWay
  <1>3. UnderWayTogether' /\ AppliedWhileUnderWay'
    BY DEF UnderWayTogether, AppliedWhileUnderWay
  <1>4. BegunAfterOneUnderWay'
    BY DEF BegunAfterOneUnderWay
  <1>5. BegunAfterAnApplication'
    BY DEF BegunAfterAnApplication
  <1>6. InForceIsAccountedFor'
    BY DEF InForceIsAccountedFor
  <1>7. AppliedAgainOnlyByAnOverlap'
    BY DEF AppliedAgainOnlyByAnOverlap, Applications
  <1>8. LaterStampIsInForce'
    <2> SUFFICES ASSUME NEW p \in Proposals \ {inForce'}, inForce' \in Proposals,
                        proposal'[inForce'].appliedAt < proposal'[p].appliedAt
                 PROVE  \E r \in Applications(inForce)', s \in Applications(p)' :
                            {r, s} \in overlap'
      BY DEF LaterStampIsInForce
    <2>1. inForce' = inForce
      OBVIOUS
    <2>2. PICK r \in Applications(inForce), s \in Applications(p) :
            {r, s} \in overlap
      BY <2>1 DEF LaterStampIsInForce
    <2>3. r \in Applications(inForce)' /\ s \in Applications(p)'
      BY <2>1, <2>2 DEF Applications
    <2> QED
      BY <2>2, <2>3
  <1> QED
    BY <1>1, <1>2, <1>3, <1>4, <1>5, <1>6, <1>7, <1>8
-----------------------------------------------------------------------------
(* The steps that rule on a row from a terminal, or move a call along.     *)

LEMMA RowStep ==
    ASSUME RulingInv, NEW p \in Proposals,
           Propose(p) \/ ApproveProposalById(p) \/ RejectProposalById(p)
    PROVE  RulingInv'
  <1> USE DEF None, Stamp, Statuses, Absent, KeptStamp
  <1>1. RulingTypeOK'
    BY DEF RulingInv, RulingTypeOK, Propose, ApproveProposalById,
       RejectProposalById
  <1>2. ruling' = ruling /\ overlap' = overlap /\ inForce' = inForce
    BY DEF Propose, ApproveProposalById, RejectProposalById
  <1>3. clock' \in Nat /\ clock <= clock'
    BY DEF RulingInv, RulingTypeOK, Propose, ApproveProposalById,
       RejectProposalById
  <1>4. ASSUME NEW q \in Proposals
        PROVE  /\ proposal'[q].appliedAt = proposal[q].appliedAt
               /\ proposal[q].approvedAt # None => proposal'[q].approvedAt # None
    BY DEF RulingInv, RulingTypeOK, Propose, ApproveProposalById,
       RejectProposalById
  <1> QED
    BY <1>1, <1>2, <1>3, <1>4, QuietConfigStep DEF Began

LEMMA PatchStep ==
    ASSUME RulingInv, PatchSource
    PROVE  RulingInv'
  <1>1. RulingTypeOK'
    BY DEF RulingInv, RulingTypeOK, PatchSource
  <1> QED
    BY <1>1, QuietConfigStep DEF PatchSource, RulingInv, RulingTypeOK, Began

LEMMA CallStep ==
    ASSUME RulingInv, NEW r \in Rulings,
           ApproveInTransaction(r) \/ WriteSource(r) \/ RollBack(r)
    PROVE  RulingInv'
  <1> USE DEF UnderWay
  <1>1. RulingTypeOK'
    BY DEF RulingInv, RulingTypeOK, ApproveInTransaction, WriteSource,
       RollBack
  <1>2. /\ proposal' = proposal /\ overlap' = overlap /\ inForce' = inForce
        /\ clock' = clock
    BY DEF ApproveInTransaction, WriteSource, RollBack
  <1>3. ASSUME NEW s \in Rulings
        PROVE  /\ ruling'[s].of = ruling[s].of /\ ruling'[s].began = ruling[s].began
               /\ ruling'[s].at = "applied" <=> ruling[s].at = "applied"
               /\ ruling'[s].at \in UnderWay => ruling[s].at \in UnderWay
               /\ Began(s)' => Began(s)
    BY DEF RulingInv, RulingTypeOK, ApproveInTransaction, WriteSource,
       RollBack, Began
  <1>4. clock' \in Nat /\ clock <= clock'
    BY <1>2 DEF RulingInv, RulingTypeOK
  <1> QED
    BY <1>1, <1>2, <1>3, <1>4, QuietConfigStep

\* Whoever is under way when a call is admitted is under way with it; and no call
\* has applied the proposal it is admitted onto.
LEMMA AdmitStep ==
    ASSUME RulingInv, NEW r \in Rulings, NEW p \in Proposals,
           Admit(r, p)
    PROVE  RulingInv'
  <1> USE DEF UnderWay, None
  <1>1. /\ proposal' = proposal /\ inForce' = inForce /\ clock' = clock
        /\ terminal' = terminal /\ ruling[r].at = "idle" /\ proposal[p].appliedAt = 0
        /\ ruling' = [ruling EXCEPT ![r] = [at |-> "admitted", of |-> p, began |-> 0]]
    BY DEF Admit, Idle
  <1>2. RulingTypeOK'
    <2>1. overlap' \subseteq SUBSET Rulings
      BY DEF Admit, RulingInv, RulingTypeOK
    <2>2. ruling' \in [Rulings -> [at    : {"idle", "applied", "failed"} \cup UnderWay,
                                   of    : Proposals \cup {None},
                                   began : Stamp]]
      BY <1>1 DEF RulingInv, RulingTypeOK, Stamp
    <2> QED
      BY <1>1, <2>1, <2>2 DEF RulingInv, RulingTypeOK
  <1>3. overlap \subseteq overlap'
    BY DEF Admit
  <1>4. ASSUME NEW q \in Rulings, q # r, ruling[q].at \in UnderWay
        PROVE  {q, r} \in overlap' /\ {r, q} \in overlap'
    <2>1. {q, r} \in SUBSET Rulings
      OBVIOUS
    <2>2. {q, r} \in overlap'
      BY <1>4, <2>1 DEF Admit
    <2> QED
      BY <2>2, PairsCommute
  <1>5. /\ ruling'[r].at = "admitted" /\ ruling'[r].of = p /\ ruling'[r].began = 0
        /\ \A s \in Rulings : s # r => ruling'[s] = ruling[s]
    BY <1>1 DEF RulingInv, RulingTypeOK
  <1>6. \A q \in Rulings : ruling[q].at = "applied" => ruling[q].of # p
    BY <1>1 DEF RulingInv, AppliedIsStamped
  <1>7. CallsAreDated'
    BY <1>1, <1>5 DEF RulingInv, RulingTypeOK, CallsAreDated
  <1>8. \A s \in Rulings : ruling'[s].at = "applied" <=> ruling[s].at = "applied"
    BY <1>1, <1>5
  <1>9. AppliedIsStamped' /\ StampIsACall'
    <2>1. \A s \in Rulings : ruling[s].at = "applied" => ruling'[s] = ruling[s]
      BY <1>1, <1>5
    <2> QED
      BY <1>1, <1>8, <2>1 DEF RulingInv, AppliedIsStamped, StampIsACall, Applications
  <1>10. UnderWayTogether'
    BY <1>3, <1>4, <1>5 DEF RulingInv, UnderWayTogether
  <1>11. AppliedWhileUnderWay'
    BY <1>3, <1>5, <1>6, <1>8 DEF RulingInv, AppliedWhileUnderWay
  <1>12. BegunAfterOneUnderWay'
    <2> SUFFICES ASSUME NEW u \in Rulings, NEW s \in Rulings, u # s, Began(u)',
                        ruling'[s].began > ruling'[u].began
                 PROVE  {u, s} \in overlap'
      BY DEF BegunAfterOneUnderWay
    <2>1. u # r /\ ruling'[u] = ruling[u]
      BY <1>5 DEF Began
    <2>2. s # r
      BY <1>5, <2>1 DEF RulingInv, RulingTypeOK, Stamp
    <2> QED
      BY <1>3, <1>5, <2>1, <2>2 DEF RulingInv, BegunAfterOneUnderWay, Began
  <1>13. BegunAfterAnApplication'
    <2> SUFFICES ASSUME NEW q \in Rulings, NEW u \in Rulings, NEW s \in Rulings,
                        ruling'[q].at = "applied", ruling'[u].at \in UnderWay,
                        ruling'[q].of = ruling'[u].of,
                        u # s, ruling'[s].began > ruling'[q].began
                 PROVE  {q, s} \in overlap' \/ {u, s} \in overlap'
      BY DEF BegunAfterAnApplication
    <2>1. q # r /\ ruling'[q] = ruling[q]
      BY <1>5
    <2>2. u # r /\ ruling'[u] = ruling[u]
      BY <1>5, <1>6, <2>1
    <2>3. s # r /\ ruling'[s] = ruling[s]
      BY <1>5, <2>1 DEF RulingInv, RulingTypeOK, Stamp
    <2> QED
      BY <1>3, <2>1, <2>2, <2>3 DEF RulingInv, BegunAfterAnApplication
  <1>14. /\ InForceIsAccountedFor'
         /\ AppliedAgainOnlyByAnOverlap'
         /\ LaterStampIsInForce'
    <2>1. \A q \in Proposals : Applications(q)' = Applications(q)
      BY <1>5, <1>8 DEF Applications
    <2>2. InForceIsAccountedFor'
      BY <1>1 DEF RulingInv, InForceIsAccountedFor
    <2>3. AppliedAgainOnlyByAnOverlap'
      BY <1>3, <2>1 DEF RulingInv, AppliedAgainOnlyByAnOverlap
    <2>4. LaterStampIsInForce'
      <3> SUFFICES ASSUME NEW q \in Proposals \ {inForce}, inForce \in Proposals,
                          proposal[inForce].appliedAt < proposal[q].appliedAt
                   PROVE  \E u \in Applications(inForce), s \in Applications(q) :
                            {u, s} \in overlap'
        BY <1>1, <2>1 DEF LaterStampIsInForce
      <3> QED
        BY <1>3 DEF RulingInv, LaterStampIsInForce
    <2> QED
      BY <2>2, <2>3, <2>4
  <1> QED
    BY <1>2, <1>7, <1>9, <1>10, <1>11, <1>12, <1>13, <1>14 DEF RulingInv

LEMMA BeginStep ==
    ASSUME RulingInv, NEW r \in Rulings, Begin(r)
    PROVE  RulingInv'
  <1> USE DEF UnderWay, None
  <1>1. /\ proposal' = proposal /\ inForce' = inForce /\ clock' = clock + 1
        /\ terminal' = terminal /\ overlap' = overlap
        /\ ruling[r].at = "admitted"
        /\ ruling'[r].at = "begun" /\ ruling'[r].of = ruling[r].of
        /\ ruling'[r].began = clock
        /\ \A s \in Rulings : s # r => ruling'[s] = ruling[s]
    BY DEF Begin, RulingInv, RulingTypeOK
  <1>2. RulingTypeOK'
    <2>1. ruling' \in [Rulings -> [at    : {"idle", "applied", "failed"} \cup UnderWay,
                                   of    : Proposals \cup {None},
                                   began : Stamp]]
      <3> DEFINE Rec == [at    : {"idle", "applied", "failed"} \cup UnderWay,
                         of    : Proposals \cup {None},
                         began : Stamp]
      <3>1. ruling \in [Rulings -> Rec] /\ clock \in Stamp
        BY DEF RulingInv, RulingTypeOK, Stamp
      <3>2. ruling' = [ruling EXCEPT ![r] = [@ EXCEPT !.at = "begun", !.began = clock]]
        BY <3>1 DEF Begin
      <3>3. [ruling[r] EXCEPT !.at = "begun", !.began = clock] \in Rec
        BY <3>1
      <3> HIDE DEF Rec
      <3>4. ruling' \in [Rulings -> Rec]
        BY <3>1, <3>2, <3>3
      <3> QED
        BY <3>4 DEF Rec
    <2>2. clock' \in Nat \ {0}
      BY <1>1 DEF RulingInv, RulingTypeOK
    <2> QED
      BY <1>1, <2>1, <2>2 DEF RulingInv, RulingTypeOK
  <1>3. CallsAreDated'
    BY <1>1 DEF RulingInv, RulingTypeOK, CallsAreDated, Stamp
  <1>4. \A s \in Rulings :
            /\ ruling'[s].at = "applied" <=> ruling[s].at = "applied"
            /\ ruling[s].at = "applied" => ruling'[s] = ruling[s]
            /\ ruling'[s].at \in UnderWay <=> ruling[s].at \in UnderWay
            /\ ruling'[s].of = ruling[s].of
    BY <1>1
  <1>5. AppliedIsStamped' /\ StampIsACall'
    BY <1>1, <1>4 DEF RulingInv, AppliedIsStamped, StampIsACall, Applications
  <1>6. UnderWayTogether' /\ AppliedWhileUnderWay'
    BY <1>1, <1>4 DEF RulingInv, UnderWayTogether, AppliedWhileUnderWay
  <1>7. BegunAfterOneUnderWay'
    <2> SUFFICES ASSUME NEW u \in Rulings, NEW s \in Rulings, u # s, Began(u)',
                        ruling'[s].began > ruling'[u].began
                 PROVE  {u, s} \in overlap'
      BY DEF BegunAfterOneUnderWay
    <2>1. u # r
      BY <1>1 DEF RulingInv, RulingTypeOK, CallsAreDated, Stamp
    <2>2. CASE s = r
      BY <1>1, <2>1, <2>2 DEF RulingInv, UnderWayTogether, Began
    <2>3. CASE s # r
      BY <1>1, <2>1, <2>3 DEF RulingInv, BegunAfterOneUnderWay, Began
    <2> QED
      BY <2>2, <2>3
  <1>8. BegunAfterAnApplication'
    <2> SUFFICES ASSUME NEW q \in Rulings, NEW u \in Rulings, NEW s \in Rulings,
                        ruling'[q].at = "applied", ruling'[u].at \in UnderWay,
                        ruling'[q].of = ruling'[u].of,
                        u # s, ruling'[s].began > ruling'[q].began
                 PROVE  {q, s} \in overlap' \/ {u, s} \in overlap'
      BY DEF BegunAfterAnApplication
    <2>1. q # r /\ ruling'[q] = ruling[q]
      BY <1>1
    <2>2. CASE s = r
      BY <1>1, <1>4, <2>2 DEF RulingInv, UnderWayTogether
    <2>3. CASE s # r
      BY <1>1, <1>4, <2>1, <2>3 DEF RulingInv, BegunAfterAnApplication
    <2> QED
      BY <2>2, <2>3
  <1>9. /\ InForceIsAccountedFor'
        /\ AppliedAgainOnlyByAnOverlap'
        /\ LaterStampIsInForce'
    <2>1. \A q \in Proposals : Applications(q)' = Applications(q)
      BY <1>4 DEF Applications
    <2>2. InForceIsAccountedFor'
      BY <1>1 DEF RulingInv, InForceIsAccountedFor
    <2>3. AppliedAgainOnlyByAnOverlap'
      BY <1>1, <2>1 DEF RulingInv, AppliedAgainOnlyByAnOverlap
    <2>4. LaterStampIsInForce'
      <3> SUFFICES ASSUME NEW q \in Proposals \ {inForce}, inForce \in Proposals,
                          proposal[inForce].appliedAt < proposal[q].appliedAt
                   PROVE  \E u \in Applications(inForce), s \in Applications(q) :
                            {u, s} \in overlap
        BY ZenonT(40), <1>1, <2>1 DEF LaterStampIsInForce
      <3> QED
        BY <1>1 DEF RulingInv, LaterStampIsInForce
    <2> QED
      BY <2>2, <2>3, <2>4
  <1> QED
    BY <1>2, <1>3, <1>5, <1>6, <1>7, <1>8, <1>9 DEF RulingInv

\* The commit.  A call that commits second on a proposal finds it stamped with the
\* BEGIN of the first, and what is in force is of its own time.
LEMMA CommitStep ==
    ASSUME RulingInv, NEW r \in Rulings, StampAndCommit(r)
    PROVE  RulingInv'
  <1> USE DEF UnderWay, None
  <1>0. PICK p \in Proposals : p = ruling[r].of
    BY DEF StampAndCommit, RulingInv, CallsAreDated
  <1>1. /\ overlap' = overlap /\ clock' = clock /\ terminal' = terminal
        /\ ruling[r].at = "written" /\ inForce' = p
        /\ ruling'[r].at = "applied" /\ ruling'[r].of = p
        /\ ruling'[r].began = ruling[r].began
        /\ \A s \in Rulings : s # r => ruling'[s] = ruling[s]
    BY <1>0 DEF StampAndCommit, RulingInv, RulingTypeOK
  <1>2. p \in Proposals /\ ruling[r].began \in Nat \ {0} /\ ruling[r].began < clock
    BY <1>1 DEF RulingInv, RulingTypeOK, CallsAreDated, Stamp
  <1>3. /\ proposal'[p].appliedAt
             = IF proposal[p].appliedAt = 0 THEN ruling[r].began ELSE proposal[p].appliedAt
        /\ proposal'[p].approvedAt
             = IF proposal[p].approvedAt = 0 THEN ruling[r].began ELSE proposal[p].approvedAt
        /\ \A q \in Proposals : q # p => proposal'[q] = proposal[q]
    BY <1>0, <1>2 DEF StampAndCommit, Ruled, KeptStamp, RulingInv,
       RulingTypeOK
  <1>4. RulingTypeOK'
    <2>1. ruling' \in [Rulings -> [at    : {"idle", "applied", "failed"} \cup UnderWay,
                                   of    : Proposals \cup {None},
                                   began : Stamp]]
      BY DEF StampAndCommit, RulingInv, RulingTypeOK
    <2>2. Ruled(proposal[p], ruling[r].began)
             \in [status : Statuses, approvedAt : Stamp, appliedAt : Stamp]
      BY <1>2 DEF RulingInv, RulingTypeOK, Ruled, KeptStamp, Stamp,
         Statuses
    <2>3. proposal' \in [Proposals -> [status : Statuses, approvedAt : Stamp,
                                                           appliedAt : Stamp]]
      BY <1>0, <2>2 DEF StampAndCommit, RulingInv, RulingTypeOK
    <2>4. \A q \in Proposals :
            proposal'[q].appliedAt # None => proposal'[q].approvedAt # None
      BY <1>2, <1>3 DEF RulingInv, RulingTypeOK
    <2> QED
      BY <1>1, <1>2, <2>1, <2>3, <2>4 DEF RulingInv, RulingTypeOK
  <1>5. CallsAreDated'
    BY <1>1, <1>2 DEF RulingInv, CallsAreDated
  <1>6. AppliedIsStamped'
    BY <1>0, <1>1, <1>2, <1>3 DEF RulingInv, RulingTypeOK, CallsAreDated, AppliedIsStamped
  <1>7. \A q \in Proposals : Applications(q) \subseteq Applications(q)'
    BY <1>1 DEF Applications
  <1>8. r \in Applications(p)'
    BY <1>1 DEF Applications
  <1>9. StampIsACall'
    <2> SUFFICES ASSUME NEW q \in Proposals, proposal'[q].appliedAt # None
                 PROVE  \E s \in Applications(q)' : ruling'[s].began = proposal'[q].appliedAt
      BY DEF StampIsACall
    <2>1. CASE q = p /\ proposal[p].appliedAt = 0
      BY <1>1, <1>3, <1>8, <2>1
    <2>2. CASE q # p \/ proposal[p].appliedAt # 0
      <3>1. proposal'[q].appliedAt = proposal[q].appliedAt
        BY <1>3, <2>2
      <3>2. PICK s \in Applications(q) : ruling[s].began = proposal[q].appliedAt
        BY <3>1 DEF RulingInv, StampIsACall
      <3>3. s \in Applications(q)' /\ ruling'[s].began = ruling[s].began
        BY <1>1, <1>7, <3>2 DEF Applications
      <3> QED
        BY <3>1, <3>2, <3>3
    <2> QED
      BY <2>1, <2>2
  <1>10. UnderWayTogether'
    BY <1>1 DEF RulingInv, UnderWayTogether
  <1>11. AppliedWhileUnderWay'
    <2> SUFFICES ASSUME NEW q \in Rulings, NEW u \in Rulings,
                        ruling'[q].at = "applied", ruling'[u].at \in UnderWay,
                        ruling'[q].of = ruling'[u].of
                 PROVE  {q, u} \in overlap
      BY <1>1 DEF AppliedWhileUnderWay
    <2>1. u # r
      BY <1>1
    <2>2. CASE q = r
      BY <1>1, <2>1, <2>2 DEF RulingInv, UnderWayTogether
    <2>3. CASE q # r
      BY <1>0, <1>1, <2>1, <2>3 DEF RulingInv, AppliedWhileUnderWay
    <2> QED
      BY <2>2, <2>3
  <1>12. \A s \in Rulings : ruling'[s].began = ruling[s].began
    BY <1>1
  <1>13. BegunAfterOneUnderWay'
    BY <1>1, <1>12 DEF RulingInv, BegunAfterOneUnderWay, Began
  <1>14. BegunAfterAnApplication'
    <2> SUFFICES ASSUME NEW q \in Rulings, NEW u \in Rulings, NEW s \in Rulings,
                        ruling'[q].at = "applied", ruling'[u].at \in UnderWay,
                        ruling'[q].of = ruling'[u].of,
                        u # s, ruling[s].began > ruling[q].began
                 PROVE  {q, s} \in overlap \/ {u, s} \in overlap
      BY <1>1, <1>12 DEF BegunAfterAnApplication
    <2>1. u # r /\ q # s
      BY <1>1 DEF RulingInv, RulingTypeOK, Stamp
    <2>2. CASE q = r
      BY <1>1, <2>1, <2>2 DEF RulingInv, BegunAfterOneUnderWay, Began
    <2>3. CASE q # r
      BY <1>0, <1>1, <2>1, <2>3 DEF RulingInv, BegunAfterAnApplication
    <2> QED
      BY <2>2, <2>3
  <1>15. InForceIsAccountedFor'
    BY <1>1, <1>2, <1>3 DEF RulingInv, RulingTypeOK, InForceIsAccountedFor
  <1>16. AppliedAgainOnlyByAnOverlap'
    <2> SUFFICES ASSUME NEW x \in Proposals, NEW q \in Applications(x)',
                        NEW u \in Applications(x)', q # u
                 PROVE  {q, u} \in overlap
      BY <1>1 DEF AppliedAgainOnlyByAnOverlap
    <2> USE DEF Applications
    <2>1. CASE q # r /\ u # r
      BY <1>1, <2>1 DEF RulingInv, AppliedAgainOnlyByAnOverlap
    <2>2. CASE u = r
      BY <1>0, <1>1, <2>2 DEF RulingInv, AppliedWhileUnderWay
    <2>3. CASE q = r
      <3>1. {u, q} \in overlap
        BY <1>0, <1>1, <2>3 DEF RulingInv, AppliedWhileUnderWay
      <3> QED
        BY <3>1, PairsCommute
    <2> QED
      BY <2>1, <2>2, <2>3
  <1>17. LaterStampIsInForce'
    <2> SUFFICES ASSUME NEW x \in Proposals, x # p,
                        proposal'[p].appliedAt < proposal[x].appliedAt
                 PROVE  \E q \in Applications(p)', s \in Applications(x)' : {q, s} \in overlap
      BY <1>1, <1>3 DEF LaterStampIsInForce
    <2>1. proposal[x].appliedAt # 0
      BY <1>2, <1>3 DEF RulingInv, RulingTypeOK, Stamp
    <2>2. PICK s \in Applications(x) : ruling[s].began = proposal[x].appliedAt
      BY <2>1 DEF RulingInv, StampIsACall
    <2>3. s \in Rulings /\ s # r /\ s \in Applications(x)'
      BY <1>1, <1>7, <2>2 DEF Applications
    <2>4. CASE proposal[p].appliedAt = 0
      <3>1. ruling[s].began > ruling[r].began
        BY <1>3, <2>2, <2>4 DEF RulingInv, RulingTypeOK, Stamp
      <3>2. {r, s} \in overlap
        BY <1>1, <2>3, <3>1 DEF RulingInv, BegunAfterOneUnderWay, Began
      <3> QED
        BY <1>8, <2>3, <3>2
    <2>5. CASE proposal[p].appliedAt # 0
      <3>1. PICK q \in Applications(p) : ruling[q].began = proposal[p].appliedAt
        BY <1>2, <2>5 DEF RulingInv, StampIsACall
      <3>2. /\ q \in Rulings /\ ruling[q].at = "applied" /\ ruling[q].of = ruling[r].of
            /\ q \in Applications(p)'
        BY <1>0, <1>7, <3>1 DEF Applications
      <3>3. ruling[s].began > ruling[q].began
        BY <1>3, <2>2, <2>5, <3>1 DEF RulingInv, RulingTypeOK, Stamp
      <3>4. {q, s} \in overlap \/ {r, s} \in overlap
        BY <1>1, <2>3, <3>2, <3>3 DEF RulingInv, BegunAfterAnApplication
      <3> QED
        BY <1>8, <2>3, <3>2, <3>4
    <2> QED
      BY <2>4, <2>5
  <1> QED
    BY <1>4, <1>5, <1>6, <1>9, <1>10, <1>11, <1>13, <1>14, <1>15, <1>16, <1>17 DEF RulingInv
-----------------------------------------------------------------------------
LEMMA NextRulingInv == RulingInv /\ [RulingNext]_rulingVars => RulingInv'
  <1> SUFFICES ASSUME RulingInv, [RulingNext]_rulingVars PROVE RulingInv'
    OBVIOUS
  <1>1. CASE UNCHANGED rulingVars
    <2>1. RulingTypeOK'
      BY <1>1 DEF rulingVars, RulingInv, RulingTypeOK
    <2> QED
      BY <1>1, <2>1, QuietConfigStep DEF rulingVars, RulingInv, RulingTypeOK, Began
  <1>2. ASSUME NEW p \in Proposals,
               Propose(p) \/ ApproveProposalById(p) \/ RejectProposalById(p)
        PROVE  RulingInv'
    BY <1>2, RowStep
  <1>3. ASSUME NEW r \in Rulings, RulingStep(r) \/ RollBack(r)
        PROVE  RulingInv'
    BY <1>3, AdmitStep, BeginStep, CallStep, CommitStep DEF RulingStep
  <1>4. CASE PatchSource
    BY <1>4, PatchStep
  <1> QED
    BY <1>1, <1>2, <1>3, <1>4 DEF RulingNext

\* Every variable keeps its type, and no row is ever stamped applied without being
\* stamped approved (source_config_proposals_approval_check).
THEOREM ProposalTypes == RulingSpec => []RulingTypeOK
  <1>1. RulingInv => RulingTypeOK
    BY DEF RulingInv
  <1> QED
    BY InitRulingInv, NextRulingInv, <1>1, PTL DEF RulingSpec

\* Whatever call dies and wherever, the proposal a source is read by is stamped
\* approved and applied.
THEOREM InForceAccounted == RulingSpec => []InForceIsAccountedFor
  <1>1. RulingInv => InForceIsAccountedFor
    BY DEF RulingInv
  <1> QED
    BY InitRulingInv, NextRulingInv, <1>1, PTL DEF RulingSpec

\* Only calls that were under way together write one proposal onto its source twice.
THEOREM AppliedOnceApart == RulingSpec => []AppliedAgainOnlyByAnOverlap
  <1>1. RulingInv => AppliedAgainOnlyByAnOverlap
    BY DEF RulingInv
  <1> QED
    BY InitRulingInv, NextRulingInv, <1>1, PTL DEF RulingSpec

\* The applied_at stamps tell which proposal is in force, unless calls overlapped.
THEOREM StampsTellInForce == RulingSpec => []LaterStampIsInForce
  <1>1. RulingInv => LaterStampIsInForce
    BY DEF RulingInv
  <1> QED
    BY InitRulingInv, NextRulingInv, <1>1, PTL DEF RulingSpec
=============================================================================
