------------------------------- MODULE Sessions -------------------------------
(***************************************************************************)
(* Signing in, staying in and signing out: AuthService over the sessions   *)
(* table, and the web front end that keeps the refresh token in the        *)
(* browser's cookies (middleware, auth routes).  A browser's tabs share    *)
(* one jar; a request carries the token the jar had when it was sent, and  *)
(* answers arrive in any order.  Each step of a call is one statement or   *)
(* one transaction; any call may stop between two of them.                 *)
(*                                                                         *)
(* The access token is left out: whether one is missing, expiring or lacks *)
(* a role only decides which navigations refresh, so any navigation may.   *)
(***************************************************************************)
EXTENDS Accounts

CONSTANTS
  Browsers,
  Requests,   \* what people ask, beside navigating and signing out
  SignedIn,   \* the browsers that start with a session, and whose it is
  Calls,      \* slots for requests in flight
  MaxCalls    \* bound on requests

Request == [kind : {"verify", "reset", "register", "login", "change"},
            user : Users, browser : Browsers, password : Passwords, current : Passwords]

ASSUME SessionConstants ==
  /\ Users # {} /\ Browsers # {} /\ Passwords # {}
  /\ Requests \subseteq Request
  /\ SignedIn \in Seq([browser : Browsers, user : Members])
  /\ \A i, j \in DOMAIN SignedIn : SignedIn[i].browser = SignedIn[j].browser => i = j
  /\ MaxCalls \in Nat

VARIABLES
  sessions,  \* rows in the order of creation; a refresh token is an index
  jar,       \* the rt cookie of each browser, 0 if none
  pc,
  job,       \* what each call carries and has read
  calls      \* requests so far

vars == <<accounts, sessions, jar, pc, job, calls>>

(* grace: revoked less than REFRESH_REUSE_GRACE_MS ago.  via: the link     *)
(* that opened it, 0 if none.  ended: what ended it first, "unanswered" if *)
(* it was a rotation, and of the answers with new cookies none arrived.    *)
Session == [user : Users, status : {"active", "revoked", "expired"}, overdue : BOOLEAN,
            grace : BOOLEAN, via : Nat,
            ended : {"no", "rotated", "unanswered", "logout", "reset"}]

NewSession(u, l) ==
  [user |-> u, status |-> "active", overdue |-> FALSE, grace |-> FALSE, via |-> l, ended |-> "no"]

Kinds == {"none", "verify", "reset", "register", "login", "change", "refresh", "logout"}
Steps == {"idle", "find", "consume", "read", "write", "open", "rotate", "expire", "refused", "answer"}

(* token: the refresh token the request carries; issued: the new one; saw: *)
(* the user's status as it was read.                                       *)
Job == [kind : Kinds, user : Users, browser : Browsers, password : Passwords, current : Passwords,
        link : Nat, token : Nat, issued : Nat, saw : {"absent", "pending", "active"}]

NoJob == [kind |-> "none", user |-> CHOOSE u \in Users : TRUE, browser |-> CHOOSE b \in Browsers : TRUE,
          password |-> CHOOSE p \in Passwords : TRUE, current |-> CHOOSE p \in Passwords : TRUE,
          link |-> 0, token |-> 0, issued |-> 0, saw |-> "absent"]

SessionsTypeOK ==
  /\ AccountsTypeOK
  /\ sessions \in Seq(Session)
  /\ jar \in [Browsers -> 0..Len(sessions)]
  /\ pc \in [Calls -> Steps]
  /\ job \in [Calls -> Job]
  /\ \A c \in Calls : /\ {job[c].token, job[c].issued} \subseteq 0..Len(sessions)
                        /\ job[c].link \in 0..Len(links)
  /\ calls \in 0..MaxCalls

Init ==
  /\ AccountsInit
  /\ sessions = [i \in DOMAIN SignedIn |-> NewSession(SignedIn[i].user, 0)]
  /\ jar \in [Browsers -> 0..Len(SignedIn)]
  /\ \A b \in Browsers, i \in DOMAIN SignedIn : jar[b] = i <=> SignedIn[i].browser = b
  /\ pc = [c \in Calls |-> "idle"]
  /\ job = [c \in Calls |-> NoJob]
  /\ calls = 0

-----------------------------------------------------------------------------
Goto(c, step) == pc' = [pc EXCEPT ![c] = step]

End(c) == Goto(c, "idle") /\ job' = [job EXCEPT ![c] = NoJob] /\ UNCHANGED calls

Start(c, step, j) ==
  /\ pc[c] = "idle"
  /\ calls < MaxCalls /\ calls' = calls + 1
  /\ job' = [job EXCEPT ![c] = j]
  /\ Goto(c, step)
  /\ UNCHANGED <<accounts, sessions, jar>>

(* Any exception: what was committed stays, the jar is left alone.         *)
Refuse(c) == End(c) /\ UNCHANGED <<accounts, sessions, jar>>

Step(c, from, to) ==
  /\ pc[c] = from
  /\ Goto(c, to)
  /\ UNCHANGED <<jar, calls>>

(* A request that carries no link: registering, signing in with a          *)
(* password, changing it (setPassword).                                    *)
Ask(c, q) ==
  /\ q.kind \in {"register", "login", "change"}
  /\ Start(c, "read", [NoJob EXCEPT !.kind = q.kind, !.user = q.user, !.browser = q.browser,
                         !.password = q.password, !.current = q.current])

(* A link from the mailbox is opened, on either of the two pages.          *)
OpenLink(c, q, l) ==
  /\ q.kind \in {"verify", "reset"} /\ links[l].user = q.user
  /\ Start(c, "find", [NoJob EXCEPT !.kind = q.kind, !.user = q.user, !.browser = q.browser,
                         !.password = q.password, !.link = l])

FindLink(c) ==
  LET j == job[c]
      purpose == IF j.kind = "verify" THEN "login" ELSE "password_reset" IN
  /\ j.kind \in {"verify", "reset"}
  /\ \/ /\ Step(c, "find", "consume") /\ Spendable(j.link, purpose)
        /\ UNCHANGED <<accounts, sessions, job>>
     \/ /\ pc[c] = "find" /\ ~Spendable(j.link, purpose)
        /\ Refuse(c)

SpendLink(c) ==
  \/ /\ Step(c, "consume", IF job[c].kind = "verify" THEN "read" ELSE "write")
     /\ Consume(job[c].link)
     /\ UNCHANGED <<sessions, job>>
  \/ /\ pc[c] = "consume" /\ links[job[c].link].consumed
     /\ Refuse(c)

(* The row is read, and for all but a verified link judged.                *)
Admits(j, row) ==
  CASE j.kind = "verify"   -> TRUE
    [] j.kind = "register" -> row.status # "active"
    [] j.kind = "login"    -> row.status # "absent" /\ row.password = j.password
    [] j.kind = "change"   -> row.status # "absent" /\ row.password \in {NoPassword, j.current}

ReadUser(c) ==
  LET row == account[job[c].user] IN
  \/ /\ Step(c, "read", IF job[c].kind = "login" THEN "open" ELSE "write")
     /\ Admits(job[c], row)
     /\ job' = [job EXCEPT ![c].saw = row.status]
     /\ UNCHANGED <<accounts, sessions>>
  \/ /\ pc[c] = "read" /\ ~Admits(job[c], row)
     /\ Refuse(c)

CommitVerified(c) ==
  \/ /\ job[c].kind = "verify" /\ Ensure(job[c].user, job[c].saw)
     /\ Step(c, "write", "open") /\ UNCHANGED <<sessions, job>>
  \/ /\ pc[c] = "write" /\ job[c].kind = "verify" /\ Taken(job[c].user, job[c].saw)
     /\ Refuse(c)

CommitRegistered(c) ==
  \/ /\ job[c].kind = "register" /\ Register(job[c].user, job[c].saw, job[c].password)
     /\ Step(c, "write", "open") /\ UNCHANGED <<sessions, job>>
  \/ /\ pc[c] = "write" /\ job[c].kind = "register" /\ Taken(job[c].user, job[c].saw)
     /\ Refuse(c)

(* resetPassword: the password, and every active session of the user.      *)
CommitReset(c) ==
  LET u == job[c].user IN
  /\ job[c].kind = "reset"
  /\ Step(c, "write", "open")
  /\ Store(u, [account[u] EXCEPT !.password = job[c].password])
  /\ sessions' = [i \in DOMAIN sessions |->
                    IF sessions[i].user = u /\ sessions[i].status = "active"
                      THEN [sessions[i] EXCEPT !.status = "revoked", !.grace = TRUE, !.ended = "reset"]
                      ELSE sessions[i]]
  /\ UNCHANGED <<tables, links, job>>

CommitPassword(c) ==
  /\ pc[c] = "write" /\ job[c].kind = "change"
  /\ Store(job[c].user, [account[job[c].user] EXCEPT !.password = job[c].password])
  /\ End(c)
  /\ UNCHANGED <<tables, links, sessions, jar>>

(* The pair of tokens is handed out and the row never created.             *)
MutantOpenSession(c) ==
  /\ Step(c, "open", "answer")
  /\ job' = [job EXCEPT ![c] = [NoJob EXCEPT !.kind = job[c].kind, !.browser = job[c].browser,
                                  !.issued = Len(sessions) + 1]]
  /\ UNCHANGED <<accounts, sessions>>

(* startSession, and the create at the end of verifyLogin.                 *)
OpenSession(c) ==
  /\ Step(c, "open", "answer")
  /\ sessions' = Append(sessions, NewSession(job[c].user, job[c].link))
  /\ job' = [job EXCEPT ![c] = [NoJob EXCEPT !.kind = job[c].kind, !.browser = job[c].browser,
                                  !.token = job[c].token, !.issued = Len(sessions')]]
  /\ UNCHANGED accounts

-----------------------------------------------------------------------------
(* The middleware refreshes for a navigation, /api/auth/refresh for the    *)
(* client; without a token neither calls the API.                          *)
Navigate(c, b) ==
  /\ jar[b] # 0
  /\ Start(c, "find", [NoJob EXCEPT !.kind = "refresh", !.browser = b,
                         !.token = jar[b], !.user = sessions[jar[b]].user])

(* Rotated tokens are refused at once: the request that lost the race for  *)
(* the rotation signs the browser out.                                     *)
MutantDecision(s) ==
  CASE s.status # "active"              -> "refused"
    [] s.status = "active" /\ s.overdue -> "expire"
    [] OTHER                            -> "rotate"

(* refresh, its findUnique and the decision on what it found.              *)
Decision(s) ==
  CASE s.status = "revoked" /\ s.grace                -> "open"
    [] s.status = "revoked" /\ ~s.grace               -> "refused"
    [] s.status = "expired"                           -> "refused"
    [] s.status = "active" /\ s.overdue               -> "expire"
    [] s.status = "active" /\ ~s.overdue              -> "rotate"

FindSession(c) ==
  /\ job[c].kind = "refresh"
  /\ Step(c, "find", Decision(sessions[job[c].token]))
  /\ UNCHANGED <<accounts, sessions, job>>

MarkExpired(c) ==
  /\ Step(c, "expire", "refused")
  /\ sessions' = [sessions EXCEPT ![job[c].token].status = "expired"]
  /\ UNCHANGED <<accounts, job>>

(* One transaction: the old session by its id, whatever has become of it   *)
(* since it was read, and the new one.                                     *)
Rotate(c) ==
  LET t == job[c].token IN
  /\ Step(c, "rotate", "answer")
  /\ sessions' = Append([sessions EXCEPT ![t].status = "revoked", ![t].grace = TRUE,
                                          ![t].ended = IF @ = "no" THEN "rotated" ELSE @],
                        NewSession(sessions[t].user, 0))
  /\ job' = [job EXCEPT ![c].issued = Len(sessions')]
  /\ UNCHANGED accounts

(* The API fails, before it has changed anything or after it, and the      *)
(* endpoint drops the cookies whatever the status; the middleware keeps    *)
(* them, which is a Stop.                                                  *)
Fail(c) ==
  /\ pc[c] \in {"find", "open", "rotate", "expire", "answer"} /\ job[c].kind = "refresh"
  /\ jar' = [jar EXCEPT ![job[c].browser] = 0]
  /\ End(c)
  /\ UNCHANGED <<accounts, sessions>>

(* A 401 reaches the browser. *)
SignedOut(c) ==
  /\ pc[c] = "refused"
  /\ jar' = [jar EXCEPT ![job[c].browser] = 0]
  /\ End(c)
  /\ UNCHANGED <<accounts, sessions>>

(* New cookies reach the browser. *)
Answer(c) ==
  /\ pc[c] = "answer" /\ job[c].kind # "logout"
  /\ jar' = [jar EXCEPT ![job[c].browser] = job[c].issued]
  /\ End(c)
  /\ UNCHANGED <<accounts, sessions>>

-----------------------------------------------------------------------------
(* /api/auth/logout: the API is asked to revoke; the cookies go whether it *)
(* could or not.                                                           *)
Leave(c, b) ==
  /\ jar[b] # 0
  /\ Start(c, "find", [NoJob EXCEPT !.kind = "logout", !.browser = b, !.token = jar[b]])

Revoke(c) ==
  LET t == job[c].token IN
  /\ job[c].kind = "logout"
  /\ Step(c, "find", "answer")
  /\ sessions' = IF sessions[t].status = "active"
                   THEN [sessions EXCEPT ![t].status = "revoked", ![t].grace = TRUE, ![t].ended = "logout"]
                   ELSE sessions
  /\ UNCHANGED <<accounts, job>>

RevokeFails(c) ==
  /\ job[c].kind = "logout"
  /\ Step(c, "find", "answer")
  /\ UNCHANGED <<accounts, sessions, job>>

DropCookies(c) ==
  /\ pc[c] = "answer" /\ job[c].kind = "logout"
  /\ jar' = [jar EXCEPT ![job[c].browser] = 0]
  /\ End(c)
  /\ UNCHANGED <<accounts, sessions>>

Awaits(c, t) == pc[c] = "answer" /\ job[c].kind = "refresh" /\ job[c].token = t

(* The last answer under way to a browser that has none yet: its cookies   *)
(* are still the old ones.                                                 *)
LastHope(c) ==
  LET t == job[c].token IN
  Awaits(c, t) /\ jar[job[c].browser] = t /\ ~\E d \in Calls \ {c} : Awaits(d, t)

(* The request stops where it is: the process restarts, the browser leaves *)
(* the page, the answer is lost.                                           *)
Stop(c) ==
  /\ pc[c] # "idle"
  /\ sessions' = IF LastHope(c) /\ sessions[job[c].token].ended = "rotated"
                   THEN [sessions EXCEPT ![job[c].token].ended = "unanswered"] ELSE sessions
  /\ End(c)
  /\ UNCHANGED <<accounts, jar>>

-----------------------------------------------------------------------------
(* Only the tokens that a browser or a request holds are followed.         *)
Held == {jar[b] : b \in Browsers} \cup {job[c].token : c \in Calls} \cup {job[c].issued : c \in Calls}

(* Time.  A token leaves the grace period only when no refresh in flight   *)
(* carries it: refreshes are taken to be answered, or given up, within     *)
(* fifteen seconds, which is what the period is chosen for.                *)
GraceEnds(t) ==
  /\ sessions[t].grace
  /\ \A c \in Calls : job[c].kind = "refresh" => job[c].token # t
  /\ sessions' = [sessions EXCEPT ![t].grace = FALSE]
  /\ UNCHANGED <<accounts, jar, pc, job, calls>>

FallsDue(t) ==
  /\ sessions[t].status = "active" /\ ~sessions[t].overdue
  /\ sessions' = [sessions EXCEPT ![t].overdue = TRUE]
  /\ UNCHANGED <<accounts, jar, pc, job, calls>>

People ==
  /\ \/ \E u \in Users : Invite(u) \/ BackfillCode(u) \/ \E purpose \in Purposes : Issue(u, purpose)
     \/ \E l \in DOMAIN links : Lapse(l)
  /\ UNCHANGED <<sessions, jar, pc, job, calls>>

Handle(c) ==
  \/ FindLink(c) \/ SpendLink(c) \/ ReadUser(c)
  \/ CommitVerified(c) \/ CommitRegistered(c) \/ CommitReset(c) \/ CommitPassword(c)
  \/ OpenSession(c) \/ FindSession(c) \/ MarkExpired(c) \/ Rotate(c)
  \/ Fail(c) \/ SignedOut(c) \/ Answer(c)
  \/ Revoke(c) \/ RevokeFails(c) \/ DropCookies(c) \/ Stop(c)

Next ==
  \/ People
  \/ \E t \in Held \ {0} : GraceEnds(t) \/ FallsDue(t)
  \/ \E c \in Calls :
       \/ \E q \in Requests : Ask(c, q) \/ \E l \in DOMAIN links : OpenLink(c, q, l)
       \/ \E b \in Browsers : Leave(c, b) \/ Navigate(c, b)
       \/ Handle(c)

Spec == Init /\ [][Next]_vars

-----------------------------------------------------------------------------
(* A one-time link opens one session, however often and in however many    *)
(* tabs it is opened at once (LoginChallengeService.consume, "atomically   *)
(* spend a one-time token").                                               *)
LinkOpensOneSession ==
  \A i, j \in DOMAIN sessions : sessions[i].via = sessions[j].via /\ i # j => sessions[i].via = 0

(* A browser is not signed out by its own tabs: when a refresh is refused, *)
(* the session it asked about was ended by a logout, a reset or its age,   *)
(* not by another tab's rotation, unless no tab at all got an answer to it *)
(* (REFRESH_REUSE_GRACE_MS, AuthService.refresh).                          *)
RefusedOnlyIfEnded ==
  \A c \in Calls : pc[c] = "refused" =>
    LET s == sessions[job[c].token] IN s.overdue \/ s.ended \in {"unanswered", "logout", "reset"}
=============================================================================
