--------------------------- MODULE Sessions_proofs ---------------------------
(* Accounts and sessions, for every set of users, browsers, passwords and  *)
(* calls, any number of links and any interleaving.                        *)
EXTENDS Sessions, PointsTables_proofs, SequenceTheorems

(* A row is updated in place, or there is none to update.                  *)
LEMMA UpdateRow ==
  ASSUME NEW S, NEW s \in Seq(S), NEW i, NEW x, i \in DOMAIN s => x \in S
  PROVE  /\ [s EXCEPT ![i] = x] \in Seq(S)
         /\ Len([s EXCEPT ![i] = x]) = Len(s)
<1>1. CASE i \in DOMAIN s
  BY <1>1, ExceptSeq
<1>2. CASE i \notin DOMAIN s
  <2>1. [s EXCEPT ![i] = x] = s
    BY <1>2
  <2> QED BY <2>1
<1> QED BY <1>1, <1>2

(* What a call carries at each step: a refresh or a logout a token, a call *)
(* from the mailbox a link until it has a session.  Only a refresh gets to *)
(* the decisions on a session.                                             *)
Carries(step, j) ==
  /\ step \in {"rotate", "expire", "refused"} => j.kind = "refresh"
  /\ j.kind \in {"refresh", "logout"} => j.token # 0 /\ j.link = 0
  /\ j.kind \in {"verify", "reset"} /\ step # "answer" => j.link # 0

Carried == \A c \in Calls : Carries(pc[c], job[c])

LEMMA NoJobTyped == NoJob \in Job /\ NoJob.link = 0 /\ NoJob.token = 0 /\ NoJob.issued = 0
<1>1. /\ (CHOOSE u \in Users : TRUE) \in Users
      /\ (CHOOSE b \in Browsers : TRUE) \in Browsers
      /\ (CHOOSE p \in Passwords : TRUE) \in Passwords
  BY SessionConstants
<1> QED BY <1>1 DEF NoJob, Job, Kinds

LEMMA JobTyped ==
  ASSUME SessionsTypeOK, NEW c \in Calls
  PROVE  /\ job[c].user \in Users /\ job[c].browser \in Browsers
         /\ job[c].password \in Passwords /\ job[c].current \in Passwords
         /\ job[c].link \in 0..Len(links)
         /\ job[c].token \in 0..Len(sessions) /\ job[c].issued \in 0..Len(sessions)
         /\ job[c].kind \in Kinds /\ job[c].saw \in {"absent", "pending", "active"}
BY DEF SessionsTypeOK, Job

-----------------------------------------------------------------------------
(* The account side of a step.                                             *)
LEMMA WelcomeTyped ==
  ASSUME AccountsTypeOK, NEW u \in Users, Welcome(u)
  PROVE  TablesTypeOK'
<1>1. u \in Keys /\ Bonus \in Amounts
  BY AccountConstants
<1>2. CASE UNCHANGED tables
  BY <1>2 DEF tables, AccountsTypeOK, TablesTypeOK
<1>3. CASE PostEntry(u, u, Bonus)
  BY <1>1, <1>3, PostEntryType DEF AccountsTypeOK
<1> QED BY <1>2, <1>3 DEF Welcome

LEMMA AccountsUnchanged ==
  ASSUME AccountsTypeOK, UNCHANGED accounts
  PROVE  AccountsTypeOK'
BY DEF accounts, tables, AccountsTypeOK, TablesTypeOK

LEMMA TablesUnchanged ==
  ASSUME AccountsTypeOK, UNCHANGED tables
  PROVE  TablesTypeOK'
BY DEF tables, AccountsTypeOK, TablesTypeOK

LEMMA EnsureTyped ==
  ASSUME AccountsTypeOK, NEW u \in Users, NEW saw, Ensure(u, saw)
  PROVE  AccountsTypeOK'
<1>1. TablesTypeOK'
  BY WelcomeTyped, TablesUnchanged DEF Ensure
<1>2. account' \in [Users -> Account]
  BY DEF Ensure, Store, AccountsTypeOK, Account
<1> QED BY <1>1, <1>2 DEF Ensure, AccountsTypeOK

LEMMA RegisterTyped ==
  ASSUME AccountsTypeOK, NEW u \in Users, NEW saw, NEW p \in Passwords, Register(u, saw, p)
  PROVE  AccountsTypeOK'
<1>1. TablesTypeOK'
  BY WelcomeTyped DEF Register
<1>2. account' \in [Users -> Account]
  BY DEF Register, Store, AccountsTypeOK, Account
<1> QED BY <1>1, <1>2 DEF Register, AccountsTypeOK

LEMMA LinkTyped ==
  ASSUME AccountsTypeOK, NEW l \in DOMAIN links
  PROVE  /\ links[l] \in Link
         /\ [links[l] EXCEPT !.consumed = TRUE] \in Link
         /\ [links[l] EXCEPT !.lapsed = TRUE] \in Link
<1>1. links[l] \in Link
  BY DEF AccountsTypeOK
<1> QED BY <1>1 DEF Link

LEMMA ConsumeTyped ==
  ASSUME AccountsTypeOK, NEW l, Consume(l)
  PROVE  AccountsTypeOK' /\ Len(links') = Len(links)
<1>1. TablesTypeOK' /\ account' = account
  BY TablesUnchanged DEF Consume
<1>2. l \in DOMAIN links => [links[l] EXCEPT !.consumed = TRUE] \in Link
  BY LinkTyped
<1>3. links' \in Seq(Link) /\ Len(links') = Len(links)
  BY <1>2, UpdateRow DEF Consume, AccountsTypeOK
<1> QED BY <1>1, <1>3 DEF AccountsTypeOK

LEMMA PeopleTyped ==
  ASSUME AccountsTypeOK, People
  PROVE  AccountsTypeOK' /\ Len(links') >= Len(links)
<1>1. CASE \E u \in Users : Invite(u)
  <2>1. PICK u \in Users : Invite(u)
    BY <1>1
  <2>2. TablesTypeOK' /\ links' = links
    BY <2>1, TablesUnchanged DEF Invite
  <2>3. account' \in [Users -> Account]
    BY <2>1 DEF Invite, Store, NoAccount, AccountsTypeOK, Account
  <2> QED BY <2>2, <2>3 DEF AccountsTypeOK
<1>2. CASE \E u \in Users : BackfillCode(u)
  <2>1. PICK u \in Users : BackfillCode(u)
    BY <1>2
  <2>2. TablesTypeOK' /\ links' = links
    BY <2>1, TablesUnchanged DEF BackfillCode
  <2>3. account' \in [Users -> Account]
    BY <2>1 DEF BackfillCode, Store, AccountsTypeOK, Account
  <2> QED BY <2>2, <2>3 DEF AccountsTypeOK
<1>3. CASE \E u \in Users, purpose \in Purposes : Issue(u, purpose)
  <2>1. PICK u \in Users, purpose \in Purposes : Issue(u, purpose)
    BY <1>3
  <2>2. TablesTypeOK' /\ account' = account
    BY <2>1, TablesUnchanged DEF Issue
  <2>3. [user |-> u, purpose |-> purpose, consumed |-> FALSE, lapsed |-> FALSE] \in Link
    BY DEF Link
  <2>4. links' \in Seq(Link) /\ Len(links') = Len(links) + 1 /\ Len(links) < MaxLinks
    BY <2>1, <2>3 DEF Issue, AccountsTypeOK
  <2> QED BY <2>2, <2>4, AccountConstants DEF AccountsTypeOK
<1>4. CASE \E l \in DOMAIN links : Lapse(l)
  <2>1. PICK l \in DOMAIN links : Lapse(l)
    BY <1>4
  <2>2. TablesTypeOK' /\ account' = account
    BY <2>1, TablesUnchanged DEF Lapse
  <2>3. [links[l] EXCEPT !.lapsed = TRUE] \in Link
    BY LinkTyped
  <2>4. links' \in Seq(Link) /\ Len(links') = Len(links)
    BY <2>1, <2>3, UpdateRow DEF Lapse, AccountsTypeOK
  <2> QED BY <2>2, <2>4 DEF AccountsTypeOK
<1> QED BY <1>1, <1>2, <1>3, <1>4 DEF People
-----------------------------------------------------------------------------
(* What a step of call c leaves: rows and links are only added, and what   *)
(* the call carries next is among them.                                    *)
LEMMA CallTyped ==
  ASSUME SessionsTypeOK, NEW c \in Calls, NEW step \in Steps, NEW j \in Job,
         AccountsTypeOK', Len(links') >= Len(links),
         sessions' \in Seq(Session), Len(sessions') >= Len(sessions),
         jar' \in [Browsers -> 0..Len(sessions')],
         pc' = [pc EXCEPT ![c] = step], job' = [job EXCEPT ![c] = j],
         j.link <= Len(links'), j.token <= Len(sessions'), j.issued <= Len(sessions'),
         calls' \in 0..MaxCalls
  PROVE  SessionsTypeOK'
<1>1. pc' \in [Calls -> Steps] /\ job' \in [Calls -> Job]
  BY DEF SessionsTypeOK
<1>2. /\ Len(links) \in Nat /\ Len(links') \in Nat
      /\ Len(sessions) \in Nat /\ Len(sessions') \in Nat
  BY DEF SessionsTypeOK, AccountsTypeOK
<1>3. ASSUME NEW d \in Calls
      PROVE  /\ job'[d].token \in 0..Len(sessions') /\ job'[d].issued \in 0..Len(sessions')
             /\ job'[d].link \in 0..Len(links')
  <2>1. CASE d = c
    BY <1>2, <2>1 DEF SessionsTypeOK, Job
  <2>2. CASE d # c
    BY <1>2, <2>2, JobTyped DEF SessionsTypeOK
  <2> QED BY <2>1, <2>2
<1> QED BY <1>1, <1>3 DEF SessionsTypeOK

(* A step to a new place, the call and the jars as they were.              *)
LEMMA StepTyped ==
  ASSUME SessionsTypeOK, NEW c \in Calls, NEW from, NEW to \in Steps, Step(c, from, to),
         AccountsTypeOK', Len(links') >= Len(links),
         sessions' \in Seq(Session), Len(sessions') >= Len(sessions), UNCHANGED job
  PROVE  SessionsTypeOK'
<1>1. job[c] \in Job /\ job' = [job EXCEPT ![c] = job[c]]
  BY DEF SessionsTypeOK
<1>2. jar' \in [Browsers -> 0..Len(sessions')]
  BY DEF Step, SessionsTypeOK
<1>3. /\ job[c].link <= Len(links') /\ job[c].token <= Len(sessions')
      /\ job[c].issued <= Len(sessions')
  BY JobTyped DEF SessionsTypeOK, AccountsTypeOK
<1> QED BY <1>1, <1>2, <1>3, CallTyped DEF Step, Goto, SessionsTypeOK

(* The end of a call.                                                      *)
LEMMA EndTyped ==
  ASSUME SessionsTypeOK, NEW c \in Calls, End(c),
         AccountsTypeOK', Len(links') >= Len(links),
         sessions' \in Seq(Session), Len(sessions') >= Len(sessions),
         jar' \in [Browsers -> 0..Len(sessions')]
  PROVE  SessionsTypeOK'
<1>1. "idle" \in Steps
  BY DEF Steps
<1>2. /\ Len(links') \in Nat /\ Len(sessions') \in Nat
  BY DEF AccountsTypeOK
<1> QED BY <1>1, <1>2, NoJobTyped, CallTyped DEF End, Goto, SessionsTypeOK

(* The start of one.                                                       *)
LEMMA StartTyped ==
  ASSUME SessionsTypeOK, NEW c \in Calls, NEW step \in Steps, NEW j \in Job,
         Start(c, step, j), j.link <= Len(links), j.token <= Len(sessions),
         j.issued <= Len(sessions)
  PROVE  SessionsTypeOK'
<1>1. AccountsTypeOK' /\ links' = links
  BY AccountsUnchanged DEF Start, SessionsTypeOK, accounts
<1>2. calls' \in 0..MaxCalls
  BY SessionConstants DEF Start, SessionsTypeOK
<1>3. Len(links) \in Nat /\ Len(sessions) \in Nat
  BY DEF SessionsTypeOK, AccountsTypeOK
<1>4. /\ sessions' = sessions /\ sessions' \in Seq(Session)
      /\ jar' \in [Browsers -> 0..Len(sessions')]
  BY DEF Start, SessionsTypeOK
<1>5. pc' = [pc EXCEPT ![c] = step] /\ job' = [job EXCEPT ![c] = j]
  BY DEF Start, Goto
<1>6. /\ Len(links') >= Len(links) /\ Len(sessions') >= Len(sessions)
      /\ j.link <= Len(links') /\ j.token <= Len(sessions') /\ j.issued <= Len(sessions')
  BY <1>1, <1>3, <1>4
<1> QED BY <1>1, <1>2, <1>4, <1>5, <1>6, CallTyped

(* A request refused changes nothing else.                                 *)
LEMMA RefuseTyped ==
  ASSUME SessionsTypeOK, NEW c \in Calls, Refuse(c)
  PROVE  SessionsTypeOK'
<1>1. AccountsTypeOK' /\ links' = links
  BY AccountsUnchanged DEF Refuse, SessionsTypeOK, accounts
<1>2. Len(links) \in Nat /\ Len(sessions) \in Nat
  BY DEF SessionsTypeOK, AccountsTypeOK
<1> QED BY <1>1, <1>2, EndTyped DEF Refuse, SessionsTypeOK
-----------------------------------------------------------------------------
(* A row of the sessions table is updated in place, or one is added.       *)
LEMMA SessionTyped ==
  ASSUME SessionsTypeOK, NEW t \in DOMAIN sessions
  PROVE  sessions[t] \in Session
BY DEF SessionsTypeOK

LEMMA NewSessionTyped ==
  ASSUME NEW u \in Users, NEW l \in Nat
  PROVE  NewSession(u, l) \in Session
BY DEF NewSession, Session

LEMMA AskTyped ==
  ASSUME SessionsTypeOK, NEW c \in Calls, NEW q \in Requests, Ask(c, q)
  PROVE  SessionsTypeOK'
<1> DEFINE j == [NoJob EXCEPT !.kind = q.kind, !.user = q.user, !.browser = q.browser,
                   !.password = q.password, !.current = q.current]
<1>1. q \in Request
  BY SessionConstants
<1>2. j \in Job /\ j.link = 0 /\ j.token = 0 /\ j.issued = 0
  BY <1>1, NoJobTyped DEF Request, Job, Kinds
<1>3. Start(c, "read", j) /\ "read" \in Steps
  BY DEF Ask, Steps
<1>4. Len(links) \in Nat /\ Len(sessions) \in Nat
  BY DEF SessionsTypeOK, AccountsTypeOK
<1> HIDE DEF j
<1> QED BY <1>2, <1>3, <1>4, StartTyped

LEMMA OpenLinkTyped ==
  ASSUME SessionsTypeOK, NEW c \in Calls, NEW q \in Requests, NEW l \in DOMAIN links,
         OpenLink(c, q, l)
  PROVE  SessionsTypeOK'
<1> DEFINE j == [NoJob EXCEPT !.kind = q.kind, !.user = q.user, !.browser = q.browser,
                   !.password = q.password, !.link = l]
<1>1. q \in Request
  BY SessionConstants
<1>2. /\ Len(links) \in Nat /\ Len(sessions) \in Nat
      /\ l \in Nat /\ l <= Len(links)
  BY DEF SessionsTypeOK, AccountsTypeOK
<1>3. j \in Job /\ j.link = l /\ j.token = 0 /\ j.issued = 0
  BY <1>1, <1>2, NoJobTyped DEF Request, Job, Kinds
<1>4. Start(c, "find", j) /\ "find" \in Steps
  BY DEF OpenLink, Steps
<1> HIDE DEF j
<1> QED BY <1>2, <1>3, <1>4, StartTyped

LEMMA NavigateTyped ==
  ASSUME SessionsTypeOK, NEW c \in Calls, NEW b \in Browsers, Navigate(c, b)
  PROVE  SessionsTypeOK'
<1> DEFINE j == [NoJob EXCEPT !.kind = "refresh", !.browser = b,
                   !.token = jar[b], !.user = sessions[jar[b]].user]
<1>1. /\ Len(links) \in Nat /\ Len(sessions) \in Nat
      /\ jar[b] \in Nat /\ jar[b] <= Len(sessions) /\ jar[b] \in DOMAIN sessions
  BY DEF Navigate, SessionsTypeOK, AccountsTypeOK
<1>2. sessions[jar[b]].user \in Users
  BY <1>1, SessionTyped DEF Session
<1>3. j \in Job /\ j.link = 0 /\ j.token = jar[b] /\ j.issued = 0
  BY <1>1, <1>2, NoJobTyped DEF Job, Kinds
<1>4. Start(c, "find", j) /\ "find" \in Steps
  BY DEF Navigate, Steps
<1> HIDE DEF j
<1> QED BY <1>1, <1>3, <1>4, StartTyped

LEMMA LeaveTyped ==
  ASSUME SessionsTypeOK, NEW c \in Calls, NEW b \in Browsers, Leave(c, b)
  PROVE  SessionsTypeOK'
<1> DEFINE j == [NoJob EXCEPT !.kind = "logout", !.browser = b, !.token = jar[b]]
<1>1. /\ Len(links) \in Nat /\ Len(sessions) \in Nat
      /\ jar[b] \in Nat /\ jar[b] <= Len(sessions)
  BY DEF SessionsTypeOK, AccountsTypeOK
<1>2. j \in Job /\ j.link = 0 /\ j.token = jar[b] /\ j.issued = 0
  BY <1>1, NoJobTyped DEF Job, Kinds
<1>3. Start(c, "find", j) /\ "find" \in Steps
  BY DEF Leave, Steps
<1> HIDE DEF j
<1> QED BY <1>1, <1>2, <1>3, StartTyped
-----------------------------------------------------------------------------
(* The tables of accounts and links untouched, and the number of links.    *)
LEMMA Kept ==
  ASSUME SessionsTypeOK
  PROVE  /\ Len(links) \in Nat /\ Len(sessions) \in Nat /\ Len(links) <= Len(links)
         /\ sessions \in Seq(Session) /\ AccountsTypeOK /\ job \in [Calls -> Job]
         /\ UNCHANGED accounts => AccountsTypeOK' /\ links' = links
BY AccountsUnchanged DEF SessionsTypeOK, AccountsTypeOK, accounts

LEMMA FindLinkTyped ==
  ASSUME SessionsTypeOK, NEW c \in Calls, FindLink(c)
  PROVE  SessionsTypeOK'
<1>1. CASE Refuse(c)
  BY <1>1, RefuseTyped
<1>2. CASE Step(c, "find", "consume") /\ UNCHANGED <<accounts, sessions, job>>
  BY <1>2, Kept, StepTyped DEF Steps
<1> QED BY <1>1, <1>2 DEF FindLink

LEMMA SpendLinkTyped ==
  ASSUME SessionsTypeOK, NEW c \in Calls, SpendLink(c)
  PROVE  SessionsTypeOK'
<1>1. CASE Refuse(c)
  BY <1>1, RefuseTyped
<1>2. CASE /\ Step(c, "consume", IF job[c].kind = "verify" THEN "read" ELSE "write")
           /\ Consume(job[c].link) /\ UNCHANGED <<sessions, job>>
  <2>1. AccountsTypeOK' /\ Len(links') = Len(links) /\ Len(links) \in Nat
    BY <1>2, Kept, ConsumeTyped
  <2>2. (IF job[c].kind = "verify" THEN "read" ELSE "write") \in Steps
    BY DEF Steps
  <2> QED BY <1>2, <2>1, <2>2, Kept, StepTyped
<1> QED BY <1>1, <1>2 DEF SpendLink

LEMMA ReadUserTyped ==
  ASSUME SessionsTypeOK, NEW c \in Calls, ReadUser(c)
  PROVE  SessionsTypeOK'
<1>1. CASE Refuse(c)
  BY <1>1, RefuseTyped
<1>2. CASE /\ Step(c, "read", IF job[c].kind = "login" THEN "open" ELSE "write")
           /\ job' = [job EXCEPT ![c].saw = account[job[c].user].status]
           /\ UNCHANGED <<accounts, sessions>>
  <2> DEFINE j == [job[c] EXCEPT !.saw = account[job[c].user].status]
             step == IF job[c].kind = "login" THEN "open" ELSE "write"
  <2>1. account[job[c].user].status \in {"absent", "pending", "active"}
    BY JobTyped DEF SessionsTypeOK, AccountsTypeOK, Account
  <2>2. job[c] \in Job
    BY DEF SessionsTypeOK
  <2>3. /\ j \in Job /\ j.link = job[c].link
        /\ j.token = job[c].token /\ j.issued = job[c].issued
    BY <2>1, <2>2 DEF Job
  <2>4. step \in Steps
    BY DEF Steps
  <2>5. /\ j.link <= Len(links') /\ j.token <= Len(sessions') /\ j.issued <= Len(sessions')
        /\ Len(links') >= Len(links) /\ Len(sessions') >= Len(sessions)
    BY <1>2, <2>3, Kept, JobTyped
  <2>6. job' = [job EXCEPT ![c] = j] /\ pc' = [pc EXCEPT ![c] = step]
    BY <1>2 DEF Step, Goto
  <2>7. /\ AccountsTypeOK' /\ sessions' \in Seq(Session)
        /\ jar' \in [Browsers -> 0..Len(sessions')] /\ calls' \in 0..MaxCalls
    BY <1>2, Kept DEF Step, SessionsTypeOK
  <2> HIDE DEF j, step
  <2> QED BY <2>3, <2>4, <2>5, <2>6, <2>7, CallTyped
<1> QED BY <1>1, <1>2 DEF ReadUser

LEMMA CommitVerifiedTyped ==
  ASSUME SessionsTypeOK, NEW c \in Calls, CommitVerified(c)
  PROVE  SessionsTypeOK'
<1>1. CASE Refuse(c)
  BY <1>1, RefuseTyped
<1>2. CASE Ensure(job[c].user, job[c].saw) /\ Step(c, "write", "open") /\ UNCHANGED <<sessions, job>>
  <2>1. AccountsTypeOK' /\ links' = links
    BY <1>2, Kept, JobTyped, EnsureTyped DEF Ensure
  <2> QED BY <1>2, <2>1, Kept, StepTyped DEF Steps
<1> QED BY <1>1, <1>2 DEF CommitVerified

LEMMA CommitRegisteredTyped ==
  ASSUME SessionsTypeOK, NEW c \in Calls, CommitRegistered(c)
  PROVE  SessionsTypeOK'
<1>1. CASE Refuse(c)
  BY <1>1, RefuseTyped
<1>2. CASE /\ Register(job[c].user, job[c].saw, job[c].password)
           /\ Step(c, "write", "open") /\ UNCHANGED <<sessions, job>>
  <2>1. AccountsTypeOK' /\ links' = links
    BY <1>2, Kept, JobTyped, RegisterTyped DEF Register
  <2> QED BY <1>2, <2>1, Kept, StepTyped DEF Steps
<1> QED BY <1>1, <1>2 DEF CommitRegistered

LEMMA NewPasswordTyped ==
  ASSUME AccountsTypeOK, NEW u \in Users, NEW p \in Passwords,
         Store(u, [account[u] EXCEPT !.password = p]), UNCHANGED <<tables, links>>
  PROVE  AccountsTypeOK'
<1>1. account' \in [Users -> Account]
  BY DEF Store, AccountsTypeOK, Account
<1> QED BY <1>1, TablesUnchanged DEF AccountsTypeOK

LEMMA CommitResetTyped ==
  ASSUME SessionsTypeOK, NEW c \in Calls, CommitReset(c)
  PROVE  SessionsTypeOK'
<1>1. AccountsTypeOK' /\ links' = links
  BY Kept, JobTyped, NewPasswordTyped DEF CommitReset
<1>2. sessions' \in Seq(Session) /\ Len(sessions') = Len(sessions)
  <2> DEFINE u == job[c].user
             row(i) == IF sessions[i].user = u /\ sessions[i].status = "active"
                         THEN [sessions[i] EXCEPT !.status = "revoked", !.grace = TRUE, !.ended = "reset"]
                         ELSE sessions[i]
  <2>1. DOMAIN sessions = 1..Len(sessions) /\ Len(sessions) \in Nat
    BY DEF SessionsTypeOK
  <2>2. ASSUME NEW i \in 1..Len(sessions) PROVE row(i) \in Session
    BY <2>1, SessionTyped DEF Session
  <2>3. sessions' = [i \in 1..Len(sessions) |-> row(i)]
    BY <2>1 DEF CommitReset
  <2> HIDE DEF row
  <2> QED BY <2>1, <2>2, <2>3, IsASeq
<1>3. Step(c, "write", "open") /\ "open" \in Steps /\ UNCHANGED job
  BY DEF CommitReset, Steps
<1> QED BY <1>1, <1>2, <1>3, Kept, StepTyped

LEMMA CommitPasswordTyped ==
  ASSUME SessionsTypeOK, NEW c \in Calls, CommitPassword(c)
  PROVE  SessionsTypeOK'
<1>1. AccountsTypeOK' /\ links' = links
  BY Kept, JobTyped, NewPasswordTyped DEF CommitPassword
<1>2. jar' \in [Browsers -> 0..Len(sessions')] /\ sessions' = sessions
  BY DEF CommitPassword, SessionsTypeOK
<1> QED BY <1>1, <1>2, Kept, EndTyped DEF CommitPassword

LEMMA OpenSessionTyped ==
  ASSUME SessionsTypeOK, NEW c \in Calls, OpenSession(c)
  PROVE  SessionsTypeOK'
<1> DEFINE j == [NoJob EXCEPT !.kind = job[c].kind, !.browser = job[c].browser,
                   !.token = job[c].token, !.issued = Len(sessions')]
           r == NewSession(job[c].user, job[c].link)
<1>1. r \in Session
  BY JobTyped, NewSessionTyped, Kept
<1>2. sessions' = Append(sessions, r)
  BY DEF OpenSession
<1> HIDE DEF r
<1>3. sessions' \in Seq(Session) /\ Len(sessions') = Len(sessions) + 1
  BY <1>1, <1>2, Kept
<1>a. /\ job[c].kind \in Kinds /\ job[c].browser \in Browsers
      /\ job[c].token \in Nat /\ Len(sessions') \in Nat
  BY <1>3, JobTyped, Kept
<1>4. /\ j \in Job /\ j.link = 0 /\ j.token = job[c].token /\ j.issued = Len(sessions')
  BY <1>a, NoJobTyped DEF Job
<1>5. /\ pc' = [pc EXCEPT ![c] = "answer"] /\ job' = [job EXCEPT ![c] = j]
      /\ UNCHANGED <<accounts, jar, calls>> /\ "answer" \in Steps
  BY DEF OpenSession, Step, Goto, Steps
<1> HIDE DEF j
<1>6. AccountsTypeOK' /\ links' = links
  BY <1>5, Kept
<1>7. /\ j.link <= Len(links') /\ j.token <= Len(sessions') /\ j.issued <= Len(sessions')
      /\ Len(links') >= Len(links) /\ Len(sessions') >= Len(sessions)
  BY <1>3, <1>4, <1>6, Kept, JobTyped
<1>8. jar' \in [Browsers -> 0..Len(sessions')] /\ calls' \in 0..MaxCalls
  BY <1>3, <1>5, Kept DEF SessionsTypeOK
<1> QED BY <1>3, <1>4, <1>5, <1>6, <1>7, <1>8, CallTyped

LEMMA TokenTyped ==
  ASSUME SessionsTypeOK, Carried, NEW c \in Calls, job[c].kind = "refresh"
  PROVE  job[c].token \in DOMAIN sessions /\ sessions[job[c].token] \in Session
<1>1. job[c].token \in 1..Len(sessions) /\ DOMAIN sessions = 1..Len(sessions)
  BY JobTyped, Kept DEF Carried, Carries
<1> QED BY <1>1, SessionTyped

LEMMA FindSessionTyped ==
  ASSUME SessionsTypeOK, Carried, NEW c \in Calls, FindSession(c)
  PROVE  SessionsTypeOK'
<1>1. Decision(sessions[job[c].token]) \in {"open", "refused", "expire", "rotate"}
  BY TokenTyped DEF FindSession, Decision, Session
<1> QED BY <1>1, Kept, StepTyped DEF FindSession, Steps

LEMMA MarkExpiredTyped ==
  ASSUME SessionsTypeOK, NEW c \in Calls, MarkExpired(c)
  PROVE  SessionsTypeOK'
<1> DEFINE t == job[c].token
<1>1. t \in DOMAIN sessions => [sessions[t] EXCEPT !.status = "expired"] \in Session
  BY SessionTyped DEF Session
<1>2. sessions' \in Seq(Session) /\ Len(sessions') = Len(sessions)
  BY <1>1, Kept, UpdateRow DEF MarkExpired
<1>3. Step(c, "expire", "refused") /\ "refused" \in Steps /\ UNCHANGED <<accounts, job>>
  BY DEF MarkExpired, Steps
<1> QED BY <1>2, <1>3, Kept, StepTyped

LEMMA RotateTyped ==
  ASSUME SessionsTypeOK, Carried, NEW c \in Calls, Rotate(c)
  PROVE  SessionsTypeOK'
<1> DEFINE t == job[c].token
           ended == IF sessions[t].ended = "no" THEN "rotated" ELSE sessions[t].ended
           old == [sessions[t] EXCEPT !.status = "revoked", !.grace = TRUE, !.ended = ended]
           j == [job[c] EXCEPT !.issued = Len(sessions')]
           r == NewSession(sessions[t].user, 0)
<1>0. pc[c] = "rotate"
  BY DEF Rotate, Step
<1>1. t \in DOMAIN sessions /\ sessions[t] \in Session
  BY <1>0, TokenTyped DEF Carried, Carries
<1>2. old \in Session /\ r \in Session
  BY <1>1, NewSessionTyped DEF Session
<1>3. sessions' = Append([sessions EXCEPT ![t] = old], r)
  BY <1>1 DEF Rotate, Session
<1> HIDE DEF old, r
<1>4. [sessions EXCEPT ![t] = old] \in Seq(Session) /\ Len([sessions EXCEPT ![t] = old]) = Len(sessions)
  BY <1>1, <1>2, Kept, UpdateRow
<1>5. sessions' \in Seq(Session) /\ Len(sessions') = Len(sessions) + 1
  BY <1>2, <1>3, <1>4, AppendProperties
<1>a. job[c] \in Job /\ Len(sessions') \in Nat
  BY <1>5, Kept
<1>6. /\ j \in Job /\ j.link = job[c].link /\ j.token = job[c].token /\ j.issued = Len(sessions')
  BY <1>a DEF Job
<1>7. /\ pc' = [pc EXCEPT ![c] = "answer"] /\ job' = [job EXCEPT ![c] = j]
      /\ UNCHANGED <<accounts, jar, calls>> /\ "answer" \in Steps
  BY DEF Rotate, Step, Goto, Steps
<1> HIDE DEF j
<1>8. AccountsTypeOK' /\ links' = links
  BY <1>7, Kept
<1>9. /\ j.link <= Len(links') /\ j.token <= Len(sessions') /\ j.issued <= Len(sessions')
      /\ Len(links') >= Len(links) /\ Len(sessions') >= Len(sessions)
  BY <1>5, <1>6, <1>8, Kept, JobTyped
<1>10. jar' \in [Browsers -> 0..Len(sessions')] /\ calls' \in 0..MaxCalls
  BY <1>5, <1>7, Kept DEF SessionsTypeOK
<1> QED BY <1>5, <1>6, <1>7, <1>8, <1>9, <1>10, CallTyped

(* The cookies a call leaves its browser with.                             *)
LEMMA CookieTyped ==
  ASSUME SessionsTypeOK, NEW c \in Calls, End(c), UNCHANGED <<accounts, sessions>>,
         NEW t \in 0..Len(sessions), jar' = [jar EXCEPT ![job[c].browser] = t]
  PROVE  SessionsTypeOK'
<1>1. jar' \in [Browsers -> 0..Len(sessions')]
  BY DEF SessionsTypeOK
<1> QED BY <1>1, Kept, EndTyped

LEMMA FailTyped ==
  ASSUME SessionsTypeOK, NEW c \in Calls, Fail(c)
  PROVE  SessionsTypeOK'
<1>1. 0 \in 0..Len(sessions)
  BY Kept
<1> QED BY <1>1, CookieTyped DEF Fail

LEMMA RevokeTyped ==
  ASSUME SessionsTypeOK, NEW c \in Calls, Revoke(c)
  PROVE  SessionsTypeOK'
<1> DEFINE t == job[c].token
           gone == [sessions[t] EXCEPT !.status = "revoked", !.grace = TRUE, !.ended = "logout"]
<1>1. t \in DOMAIN sessions => gone \in Session
  BY SessionTyped DEF Session
<1>2. sessions' = [sessions EXCEPT ![t] = gone] \/ sessions' = sessions
  BY SessionTyped DEF Revoke, Session
<1> HIDE DEF gone
<1>3. sessions' \in Seq(Session) /\ Len(sessions') = Len(sessions)
  BY <1>1, <1>2, Kept, UpdateRow
<1>4. Step(c, "find", "answer") /\ "answer" \in Steps /\ UNCHANGED <<accounts, job>>
  BY DEF Revoke, Steps
<1> QED BY <1>3, <1>4, Kept, StepTyped

LEMMA StopTyped ==
  ASSUME SessionsTypeOK, NEW c \in Calls, Stop(c)
  PROVE  SessionsTypeOK'
<1> DEFINE t == job[c].token
           lost == [sessions[t] EXCEPT !.ended = "unanswered"]
<1>1. t \in DOMAIN sessions => lost \in Session
  BY SessionTyped DEF Session
<1>2. sessions' = [sessions EXCEPT ![t] = lost] \/ sessions' = sessions
  BY DEF Stop
<1> HIDE DEF lost
<1>3. sessions' \in Seq(Session) /\ Len(sessions') = Len(sessions)
  BY <1>1, <1>2, Kept, UpdateRow
<1>4. AccountsTypeOK' /\ links' = links /\ End(c)
  BY Kept DEF Stop
<1>5. jar' \in [Browsers -> 0..Len(sessions')]
  BY <1>3, Kept DEF Stop, SessionsTypeOK
<1> QED BY <1>3, <1>4, <1>5, Kept, EndTyped
-----------------------------------------------------------------------------
(* What one call may do next, and what passes by itself.                   *)
CallStep(c) ==
  \/ \E q \in Requests : Ask(c, q) \/ \E l \in DOMAIN links : OpenLink(c, q, l)
  \/ \E b \in Browsers : Leave(c, b) \/ Navigate(c, b)
  \/ Handle(c)

TimeStep == \E t \in Held \ {0} : GraceEnds(t) \/ FallsDue(t)

LEMMA StepsOfNext ==
  ASSUME [Next]_vars
  PROVE  People \/ TimeStep \/ (\E c \in Calls : CallStep(c)) \/ UNCHANGED vars
BY DEF Next, CallStep, TimeStep

LEMMA CallStepTyped ==
  ASSUME SessionsTypeOK, Carried, NEW c \in Calls, CallStep(c)
  PROVE  SessionsTypeOK'
<1>1. CASE \E q \in Requests : Ask(c, q) \/ \E l \in DOMAIN links : OpenLink(c, q, l)
  BY <1>1, AskTyped, OpenLinkTyped
<1>2. CASE \E b \in Browsers : Leave(c, b) \/ Navigate(c, b)
  BY <1>2, LeaveTyped, NavigateTyped
<1>3. CASE FindLink(c) \/ SpendLink(c) \/ ReadUser(c)
  BY <1>3, FindLinkTyped, SpendLinkTyped, ReadUserTyped
<1>4. CASE CommitVerified(c) \/ CommitRegistered(c) \/ CommitReset(c) \/ CommitPassword(c)
  BY <1>4, CommitVerifiedTyped, CommitRegisteredTyped, CommitResetTyped, CommitPasswordTyped
<1>5. CASE OpenSession(c) \/ FindSession(c) \/ MarkExpired(c) \/ Rotate(c)
  BY <1>5, OpenSessionTyped, FindSessionTyped, MarkExpiredTyped, RotateTyped
<1>6. CASE Fail(c) \/ Revoke(c) \/ Stop(c)
  BY <1>6, FailTyped, RevokeTyped, StopTyped
<1>7. CASE SignedOut(c) \/ Answer(c) \/ DropCookies(c)
  <2>1. 0 \in 0..Len(sessions) /\ job[c].issued \in 0..Len(sessions)
    BY JobTyped, Kept
  <2> QED BY <1>7, <2>1, CookieTyped DEF SignedOut, Answer, DropCookies
<1>8. CASE RevokeFails(c)
  BY <1>8, Kept, StepTyped DEF RevokeFails, Steps
<1> QED BY <1>1, <1>2, <1>3, <1>4, <1>5, <1>6, <1>7, <1>8 DEF CallStep, Handle

LEMMA PeopleStepTyped ==
  ASSUME SessionsTypeOK, People
  PROVE  SessionsTypeOK'
<1>1. AccountsTypeOK' /\ Len(links') >= Len(links) /\ Len(links') \in Nat
  BY Kept, PeopleTyped DEF AccountsTypeOK
<1>2. UNCHANGED <<sessions, jar, pc, job, calls>>
  BY DEF People
<1>3. ASSUME NEW c \in Calls PROVE job[c].link \in 0..Len(links')
  BY <1>1, JobTyped, Kept
<1> QED BY <1>1, <1>2, <1>3 DEF SessionsTypeOK

LEMMA TimeStepTyped ==
  ASSUME SessionsTypeOK, TimeStep
  PROVE  SessionsTypeOK'
<1>1. PICK t \in Held \ {0} : GraceEnds(t) \/ FallsDue(t)
  BY DEF TimeStep
<1>2. UNCHANGED <<accounts, jar, pc, job, calls>>
  BY <1>1 DEF GraceEnds, FallsDue
<1> DEFINE graceless == [sessions[t] EXCEPT !.grace = FALSE]
           due == [sessions[t] EXCEPT !.overdue = TRUE]
<1>3. t \in DOMAIN sessions => graceless \in Session /\ due \in Session
  BY SessionTyped DEF Session
<1>4. sessions' = [sessions EXCEPT ![t] = graceless] \/ sessions' = [sessions EXCEPT ![t] = due]
  BY <1>1 DEF GraceEnds, FallsDue
<1> HIDE DEF graceless, due
<1>5. sessions' \in Seq(Session) /\ Len(sessions') = Len(sessions)
  BY <1>3, <1>4, Kept, UpdateRow
<1>6. AccountsTypeOK' /\ links' = links
  BY <1>2, Kept
<1> QED BY <1>2, <1>5, <1>6 DEF SessionsTypeOK

LEMMA StepTypes ==
  ASSUME SessionsTypeOK, Carried, [Next]_vars
  PROVE  SessionsTypeOK'
<1>1. CASE UNCHANGED vars
  <2>1. AccountsTypeOK' /\ UNCHANGED <<links, sessions, jar, pc, job, calls>>
    BY <1>1, Kept DEF vars, accounts
  <2> QED BY <2>1 DEF SessionsTypeOK
<1> QED BY <1>1, StepsOfNext, PeopleStepTyped, TimeStepTyped, CallStepTyped

-----------------------------------------------------------------------------
(* Only the call that takes a step moves.                                  *)
LEMMA OthersStay ==
  ASSUME SessionsTypeOK, NEW c \in Calls, CallStep(c), NEW d \in Calls, d # c
  PROVE  pc'[d] = pc[d] /\ job'[d] = job[d]
<1>1. pc \in [Calls -> Steps] /\ job \in [Calls -> Job]
  BY DEF SessionsTypeOK
<1>2. ASSUME NEW step, NEW j, Start(c, step, j) PROVE pc'[d] = pc[d] /\ job'[d] = job[d]
  BY <1>1, <1>2 DEF Start, Goto
<1>3. ASSUME End(c) PROVE pc'[d] = pc[d] /\ job'[d] = job[d]
  BY <1>1, <1>3 DEF End, Goto
<1>4. ASSUME NEW from, NEW to, Step(c, from, to) PROVE pc'[d] = pc[d]
  BY <1>1, <1>4 DEF Step, Goto
<1>5. CASE \E q \in Requests : Ask(c, q) \/ \E l \in DOMAIN links : OpenLink(c, q, l)
  BY <1>2, <1>5 DEF Ask, OpenLink
<1>6. CASE \E b \in Browsers : Leave(c, b) \/ Navigate(c, b)
  BY <1>2, <1>6 DEF Leave, Navigate
<1>7. CASE FindLink(c) \/ SpendLink(c) \/ ReadUser(c)
  BY <1>1, <1>3, <1>4, <1>7 DEF FindLink, SpendLink, ReadUser, Refuse
<1>8. CASE CommitVerified(c) \/ CommitRegistered(c) \/ CommitReset(c) \/ CommitPassword(c)
  BY <1>3, <1>4, <1>8 DEF CommitVerified, CommitRegistered, CommitReset, CommitPassword, Refuse
<1>9. CASE OpenSession(c) \/ FindSession(c) \/ MarkExpired(c) \/ Rotate(c) \/ Revoke(c) \/ RevokeFails(c)
  BY <1>1, <1>4, <1>9 DEF OpenSession, FindSession, MarkExpired, Rotate, Revoke, RevokeFails
<1>10. CASE Fail(c) \/ Stop(c) \/ SignedOut(c) \/ Answer(c) \/ DropCookies(c)
  BY <1>3, <1>10 DEF Fail, Stop, SignedOut, Answer, DropCookies
<1> QED BY <1>5, <1>6, <1>7, <1>8, <1>9, <1>10 DEF CallStep, Handle

(* Where a step leaves its own call.                                       *)
LEMMA AtStep ==
  ASSUME SessionsTypeOK, NEW c \in Calls
  PROVE  /\ \A from, to : Step(c, from, to) => pc[c] = from /\ pc'[c] = to
         /\ \A step, j : Start(c, step, j) => pc[c] = "idle" /\ pc'[c] = step /\ job'[c] = j
         /\ End(c) => pc'[c] = "idle" /\ job'[c] = NoJob
         /\ UNCHANGED job => job'[c] = job[c]
BY DEF SessionsTypeOK, Step, Start, End, Goto

LEMMA CarriedByCall ==
  ASSUME SessionsTypeOK, Carried, NEW c \in Calls, CallStep(c)
  PROVE  Carries(pc'[c], job'[c])
<1>1. Carries(pc[c], job[c])
  BY DEF Carried
<1>2. NoJob.kind = "none" /\ NoJob.link = 0 /\ Carries("idle", NoJob)
  BY DEF NoJob, Carries
<1>3. ASSUME End(c) PROVE Carries(pc'[c], job'[c])
  BY <1>2, <1>3, AtStep
<1>4. CASE \E q \in Requests : Ask(c, q)
  <2>1. PICK q \in Requests : Ask(c, q)
    BY <1>4
  <2> DEFINE j == [NoJob EXCEPT !.kind = q.kind, !.user = q.user, !.browser = q.browser,
                     !.password = q.password, !.current = q.current]
  <2>2. Start(c, "read", j) /\ q.kind \in {"register", "login", "change"}
    BY <2>1 DEF Ask
  <2>3. j.kind = q.kind
    BY DEF NoJob
  <2> HIDE DEF j
  <2> QED BY <2>2, <2>3, AtStep DEF Carries
<1>5. CASE \E q \in Requests, l \in DOMAIN links : OpenLink(c, q, l)
  <2>1. PICK q \in Requests, l \in DOMAIN links : OpenLink(c, q, l)
    BY <1>5
  <2> DEFINE j == [NoJob EXCEPT !.kind = q.kind, !.user = q.user, !.browser = q.browser,
                     !.password = q.password, !.link = l]
  <2>2. Start(c, "find", j) /\ q.kind \in {"verify", "reset"}
    BY <2>1 DEF OpenLink
  <2>3. j.kind = q.kind /\ j.link = l
    BY DEF NoJob
  <2>4. l # 0
    BY <2>1, Kept DEF SessionsTypeOK, AccountsTypeOK
  <2> HIDE DEF j
  <2> QED BY <2>2, <2>3, <2>4, AtStep DEF Carries
<1>6. CASE \E b \in Browsers : Leave(c, b) \/ Navigate(c, b)
  <2>1. PICK b \in Browsers : Leave(c, b) \/ Navigate(c, b)
    BY <1>6
  <2> DEFINE j == [NoJob EXCEPT !.kind = "logout", !.browser = b, !.token = jar[b]]
             k == [NoJob EXCEPT !.kind = "refresh", !.browser = b,
                     !.token = jar[b], !.user = sessions[jar[b]].user]
  <2>2. jar[b] # 0 /\ (Start(c, "find", j) \/ Start(c, "find", k))
    BY <2>1 DEF Leave, Navigate
  <2>3. /\ j.kind = "logout" /\ j.token = jar[b] /\ j.link = 0
        /\ k.kind = "refresh" /\ k.token = jar[b] /\ k.link = 0
    BY DEF NoJob
  <2> HIDE DEF j, k
  <2> QED BY <2>2, <2>3, AtStep DEF Carries
<1>7. CASE FindLink(c) \/ SpendLink(c)
  BY <1>1, <1>3, <1>7, AtStep DEF FindLink, SpendLink, Refuse, Carries
<1>8. CASE ReadUser(c)
  <2>1. CASE Refuse(c)
    BY <1>3, <2>1 DEF Refuse
  <2>2. CASE /\ Step(c, "read", IF job[c].kind = "login" THEN "open" ELSE "write")
             /\ job' = [job EXCEPT ![c].saw = account[job[c].user].status]
    <3>1. /\ job'[c].kind = job[c].kind /\ job'[c].link = job[c].link
          /\ job'[c].token = job[c].token
      BY <2>2 DEF SessionsTypeOK, Job
    <3>2. pc[c] = "read" /\ pc'[c] \in {"open", "write"}
      BY <2>2, AtStep
    <3> QED BY <1>1, <3>1, <3>2 DEF Carries
  <2> QED BY <1>8, <2>1, <2>2 DEF ReadUser
<1>9. CASE CommitVerified(c) \/ CommitRegistered(c)
  BY <1>1, <1>3, <1>9, AtStep DEF CommitVerified, CommitRegistered, Refuse, Carries
<1>10. CASE CommitReset(c) \/ CommitPassword(c)
  <2>1. CASE CommitReset(c)
    <3>1. pc[c] = "write" /\ pc'[c] = "open" /\ job'[c] = job[c]
      BY <2>1, AtStep DEF CommitReset
    <3> QED BY <1>1, <3>1 DEF Carries
  <2>2. CASE CommitPassword(c)
    BY <1>3, <2>2 DEF CommitPassword
  <2> QED BY <1>10, <2>1, <2>2
<1>11. CASE OpenSession(c)
  <2>1. /\ job'[c].kind = job[c].kind /\ job'[c].link = 0 /\ job'[c].token = job[c].token
    BY <1>11, <1>2 DEF OpenSession, SessionsTypeOK, NoJob
  <2>2. pc[c] = "open" /\ pc'[c] = "answer"
    BY <1>11, AtStep DEF OpenSession
  <2> QED BY <1>1, <2>1, <2>2 DEF Carries
<1>12. CASE Rotate(c)
  <2>1. /\ job'[c].kind = job[c].kind /\ job'[c].link = job[c].link
        /\ job'[c].token = job[c].token
    BY <1>12 DEF Rotate, SessionsTypeOK, Job
  <2>2. pc[c] = "rotate" /\ pc'[c] = "answer"
    BY <1>12, AtStep DEF Rotate
  <2> QED BY <1>1, <2>1, <2>2 DEF Carries
<1>13. CASE FindSession(c) \/ MarkExpired(c) \/ Revoke(c) \/ RevokeFails(c)
  BY <1>1, <1>13, AtStep DEF FindSession, MarkExpired, Revoke, RevokeFails, Carries
<1>14. CASE Fail(c) \/ Stop(c) \/ SignedOut(c) \/ Answer(c) \/ DropCookies(c)
  BY <1>3, <1>14 DEF Fail, Stop, SignedOut, Answer, DropCookies
<1> QED BY <1>4, <1>5, <1>6, <1>7, <1>8, <1>9, <1>10, <1>11, <1>12, <1>13, <1>14 DEF CallStep, Handle

LEMMA StepCarries ==
  ASSUME SessionsTypeOK, Carried, [Next]_vars
  PROVE  Carried'
<1>1. CASE People \/ TimeStep \/ UNCHANGED vars
  <2>1. UNCHANGED <<pc, job>>
    BY <1>1 DEF People, TimeStep, GraceEnds, FallsDue, vars
  <2> QED BY <2>1 DEF Carried
<1>2. CASE \E c \in Calls : CallStep(c)
  <2>1. PICK c \in Calls : CallStep(c)
    BY <1>2
  <2>2. ASSUME NEW d \in Calls PROVE Carries(pc'[d], job'[d])
    <3>1. CASE d = c
      BY <2>1, <3>1, CarriedByCall
    <3>2. CASE d # c
      BY <2>1, <3>2, OthersStay DEF Carried
    <3> QED BY <3>1, <3>2
  <2> QED BY <2>2 DEF Carried
<1> QED BY <1>1, <1>2, StepsOfNext

LEMMA SessionsStart ==
  ASSUME Init
  PROVE  SessionsTypeOK /\ Carried
<1>1. TablesTypeOK
  <2>1. [u \in Users |-> IF u \in Members THEN Bonus ELSE 0] \in [Users -> Int]
    BY AccountConstants
  <2>2. ASSUME NEW u \in Users
        PROVE  <<[key |-> u, delta |-> Bonus, after |-> Bonus]>> \in Seq(Entry)
    BY AccountConstants DEF Entry
  <2> QED BY <2>1, <2>2 DEF Init, AccountsInit, TablesTypeOK
<1>2. account \in [Users -> Account]
  BY AccountConstants DEF Init, AccountsInit, Account, NoAccount
<1>a. links \in Seq(Link) /\ Len(links) <= MaxLinks
  <2>1. links = <<>> /\ MaxLinks \in Nat
    BY AccountConstants DEF Init, AccountsInit
  <2> QED BY <2>1
<1>3. AccountsTypeOK
  BY <1>1, <1>2, <1>a DEF AccountsTypeOK
<1>4. DOMAIN SignedIn = 1..Len(SignedIn) /\ Len(SignedIn) \in Nat
  BY SessionConstants
<1>5. ASSUME NEW i \in 1..Len(SignedIn) PROVE NewSession(SignedIn[i].user, 0) \in Session
  <2>a. SignedIn[i] \in [browser : Browsers, user : Members]
    BY <1>4, SessionConstants, ElementOfSeq
  <2>1. SignedIn[i].user \in Users
    BY <2>a, AccountConstants
  <2> QED BY <2>1, NewSessionTyped
<1>6. sessions = [i \in 1..Len(SignedIn) |-> NewSession(SignedIn[i].user, 0)]
  BY <1>4 DEF Init
<1>7. sessions \in Seq(Session) /\ Len(sessions) = Len(SignedIn)
  BY <1>4, <1>5, <1>6, IsASeq
<1>8. /\ jar \in [Browsers -> 0..Len(sessions)] /\ pc = [c \in Calls |-> "idle"]
      /\ job = [c \in Calls |-> NoJob] /\ calls \in 0..MaxCalls /\ links = <<>>
  BY <1>7, SessionConstants DEF Init, AccountsInit
<1>9. Carries("idle", NoJob)
  BY DEF NoJob, Carries
<1> QED BY <1>3, <1>4, <1>7, <1>8, <1>9, NoJobTyped DEF SessionsTypeOK, Carried, Steps

(* Rows, links, cookies and calls stay well formed: no cookie and no call  *)
(* ever names a session or a link that was not created (AuthService).      *)
THEOREM SessionsTypeCorrect == Spec => []SessionsTypeOK
<1>1. Init => SessionsTypeOK /\ Carried
  BY SessionsStart
<1>2. (SessionsTypeOK /\ Carried) /\ [Next]_vars => (SessionsTypeOK /\ Carried)'
  BY StepTypes, StepCarries
<1> QED BY <1>1, <1>2, PTL DEF Spec
-----------------------------------------------------------------------------
(* Activation and the welcome bonus.  A call that read an active row finds *)
(* it active still; nobody is paid under another's key.                    *)
OwnKeys   == \A u \in Users : \A i \in DOMAIN ledger[u] : ledger[u][i].key = u
SawActive == \A c \in Calls : job[c].saw = "active" => account[job[c].user].status = "active"

ActiveStays == \A u \in Users : account[u].status = "active" => account'[u].status = "active"

LEMMA LedgerTyped ==
  ASSUME AccountsTypeOK, NEW u \in Users
  PROVE  ledger[u] \in Seq(Entry) /\ Len(ledger[u]) \in Nat /\ DOMAIN ledger[u] = 1..Len(ledger[u])
BY DEF AccountsTypeOK, TablesTypeOK

(* Whoever is welcomed has been paid once afterwards.                      *)
LEMMA WelcomePays ==
  ASSUME AccountsTypeOK, OwnKeys, ActivatedIsWelcomed, NEW u \in Users, Welcome(u)
  PROVE  /\ OwnKeys' /\ Len(ledger'[u]) = 1
         /\ \A v \in Users \ {u} : ledger'[v] = ledger[v]
<1>1. Len(ledger[u]) \in {0, 1}
  BY DEF ActivatedIsWelcomed
<1>2. CASE KeyUsed(u)
  <2>1. PICK v \in Users : \E i \in DOMAIN ledger[v] : ledger[v][i].key = u
    BY <1>2 DEF KeyUsed
  <2>2. v = u
    BY <2>1 DEF OwnKeys
  <2>3. Len(ledger[u]) = 1
    BY <1>1, <2>1, <2>2, LedgerTyped
  <2> QED BY <1>2, <2>3 DEF Welcome, tables, OwnKeys
<1>3. CASE ~KeyUsed(u)
  <2>1. u \in Keys /\ Bonus \in Amounts /\ PostEntry(u, u, Bonus) /\ TablesTypeOK
    BY <1>3, AccountConstants DEF Welcome, AccountsTypeOK
  <2>2. RowsAfter(u, u, Bonus)
    BY <2>1, PostEntryRows
  <2>3. Len(ledger[u]) = 0
    <3>1. 1 \notin DOMAIN ledger[u]
      BY <1>3 DEF KeyUsed, OwnKeys
    <3> QED BY <1>1, <3>1, LedgerTyped
  <2>4. ledger'[u][Len(ledger[u]) + 1].key = u
    BY <2>2 DEF RowsAfter
  <2>5. OwnKeys'
    BY <2>2, <2>4 DEF RowsAfter, OwnKeys
  <2> QED BY <2>2, <2>3, <2>5 DEF RowsAfter
<1> QED BY <1>2, <1>3

LEMMA Activates ==
  ASSUME AccountsTypeOK, OwnKeys, ActivatedIsWelcomed, NEW u \in Users, Welcome(u),
         NEW row, row.status = "active", row.coded, Store(u, row)
  PROVE  OwnKeys' /\ ActivatedIsWelcomed' /\ ActiveStays
<1>1. /\ account'[u].status = "active" /\ account'[u].coded
      /\ \A v \in Users \ {u} : account'[v] = account[v]
  BY DEF Store, AccountsTypeOK
<1>2. ActivatedIsWelcomed'
  BY <1>1, WelcomePays DEF ActivatedIsWelcomed
<1> QED BY <1>1, <1>2, WelcomePays DEF ActiveStays

LEMMA NobodyActivated ==
  ASSUME OwnKeys, ActivatedIsWelcomed, UNCHANGED tables,
         \A u \in Users : /\ account'[u].status = "active" <=> account[u].status = "active"
                          /\ account[u].coded => account'[u].coded
  PROVE  OwnKeys' /\ ActivatedIsWelcomed' /\ ActiveStays
BY DEF tables, OwnKeys, ActivatedIsWelcomed, ActiveStays

LEMMA EnsureWelcomes ==
  ASSUME AccountsTypeOK, OwnKeys, ActivatedIsWelcomed, NEW u \in Users, NEW saw, Ensure(u, saw),
         saw = "active" => account[u].status = "active"
  PROVE  OwnKeys' /\ ActivatedIsWelcomed' /\ ActiveStays
<1> DEFINE row == [account[u] EXCEPT !.status = "active", !.coded = TRUE]
<1>1. row.status = "active" /\ row.coded /\ Store(u, row)
  BY DEF Ensure, AccountsTypeOK, Account
<1> HIDE DEF row
<1>2. CASE saw = "active"
  <2>1. UNCHANGED tables /\ account[u].status = "active"
    BY <1>2 DEF Ensure
  <2>2. ASSUME NEW v \in Users
        PROVE  /\ account'[v].status = "active" <=> account[v].status = "active"
               /\ account[v].coded => account'[v].coded
    BY <1>1, <2>1 DEF Store, AccountsTypeOK
  <2> QED BY <2>1, <2>2, NobodyActivated
<1>3. CASE saw # "active"
  BY <1>1, <1>3, Activates DEF Ensure
<1> QED BY <1>2, <1>3

LEMMA RegisterWelcomes ==
  ASSUME AccountsTypeOK, OwnKeys, ActivatedIsWelcomed, NEW u \in Users, NEW saw, NEW p,
         Register(u, saw, p)
  PROVE  OwnKeys' /\ ActivatedIsWelcomed' /\ ActiveStays
<1> DEFINE row == [status |-> "active", coded |-> TRUE, password |-> p]
<1>1. row.status = "active" /\ row.coded /\ Store(u, row) /\ Welcome(u)
  BY DEF Register
<1> HIDE DEF row
<1> QED BY <1>1, Activates

LEMMA NewPasswordWelcomes ==
  ASSUME AccountsTypeOK, OwnKeys, ActivatedIsWelcomed, NEW u \in Users, NEW p,
         Store(u, [account[u] EXCEPT !.password = p]), UNCHANGED tables
  PROVE  OwnKeys' /\ ActivatedIsWelcomed' /\ ActiveStays
<1>1. ASSUME NEW v \in Users
      PROVE  account'[v].status = account[v].status /\ account'[v].coded = account[v].coded
  BY DEF Store, AccountsTypeOK, Account
<1> QED BY <1>1, NobodyActivated

LEMMA PeopleWelcome ==
  ASSUME AccountsTypeOK, OwnKeys, ActivatedIsWelcomed, People
  PROVE  OwnKeys' /\ ActivatedIsWelcomed' /\ ActiveStays
<1>1. CASE \E u \in Users : Invite(u) \/ BackfillCode(u)
  <2>1. PICK u \in Users : Invite(u) \/ BackfillCode(u)
    BY <1>1
  <2>2. CASE Invite(u)
    <3>1. /\ account[u].status = "absent" /\ UNCHANGED tables
          /\ account' = [account EXCEPT ![u] = [NoAccount EXCEPT !.status = "pending"]]
      BY <2>2 DEF Invite, Store
    <3>2. /\ account'[u].status = "pending" /\ \A v \in Users \ {u} : account'[v] = account[v]
      BY <3>1 DEF AccountsTypeOK, NoAccount
    <3> QED BY <3>1, <3>2 DEF tables, OwnKeys, ActivatedIsWelcomed, ActiveStays
  <2>3. CASE BackfillCode(u)
    <3>1. UNCHANGED tables /\ account' = [account EXCEPT ![u] = [account[u] EXCEPT !.coded = TRUE]]
      BY <2>3 DEF BackfillCode, Store
    <3>2. ASSUME NEW v \in Users
          PROVE  account'[v].status = account[v].status /\ (account[v].coded => account'[v].coded)
      BY <3>1 DEF AccountsTypeOK, Account
    <3> QED BY <3>1, <3>2, NobodyActivated
  <2> QED BY <2>1, <2>2, <2>3
<1>2. CASE \/ \E u \in Users, purpose \in Purposes : Issue(u, purpose)
           \/ \E l \in DOMAIN links : Lapse(l)
  <2>1. UNCHANGED <<tables, account>>
    BY <1>2 DEF Issue, Lapse
  <2> QED BY <2>1, NobodyActivated
<1> QED BY <1>1, <1>2 DEF People

LEMMA CallWelcomes ==
  ASSUME SessionsTypeOK, OwnKeys, SawActive, ActivatedIsWelcomed, NEW c \in Calls, CallStep(c)
  PROVE  OwnKeys' /\ ActivatedIsWelcomed' /\ ActiveStays
<1>0. AccountsTypeOK /\ job[c].user \in Users
  BY Kept, JobTyped
<1>1. CASE UNCHANGED <<tables, account>>
  BY <1>1, NobodyActivated
<1>2. CASE CommitVerified(c)
  BY <1>0, <1>1, <1>2, EnsureWelcomes DEF CommitVerified, Refuse, accounts, SawActive
<1>3. CASE CommitRegistered(c)
  BY <1>0, <1>1, <1>3, RegisterWelcomes DEF CommitRegistered, Refuse, accounts
<1>4. CASE CommitReset(c) \/ CommitPassword(c)
  BY <1>0, <1>4, NewPasswordWelcomes DEF CommitReset, CommitPassword
<1>5. CASE FindLink(c) \/ SpendLink(c) \/ ReadUser(c)
  BY <1>1, <1>5 DEF FindLink, SpendLink, ReadUser, Refuse, Consume, accounts
<1>6. CASE OpenSession(c) \/ FindSession(c) \/ MarkExpired(c) \/ Rotate(c) \/ Revoke(c) \/ RevokeFails(c)
  BY <1>1, <1>6 DEF OpenSession, FindSession, MarkExpired, Rotate, Revoke, RevokeFails, accounts
<1>7. CASE Fail(c) \/ Stop(c) \/ SignedOut(c) \/ Answer(c) \/ DropCookies(c)
  BY <1>1, <1>7 DEF Fail, Stop, SignedOut, Answer, DropCookies, accounts
<1>8. CASE \/ \E q \in Requests : Ask(c, q) \/ \E l \in DOMAIN links : OpenLink(c, q, l)
           \/ \E b \in Browsers : Leave(c, b) \/ Navigate(c, b)
  BY <1>1, <1>8 DEF Ask, OpenLink, Leave, Navigate, Start, accounts
<1> QED BY <1>2, <1>3, <1>4, <1>5, <1>6, <1>7, <1>8 DEF CallStep, Handle

(* What a call says of its user's row it has just read or read before.     *)
LEMMA CallSaw ==
  ASSUME SessionsTypeOK, NEW c \in Calls, CallStep(c)
  PROVE  \/ job'[c].saw = "absent"
         \/ job'[c].saw = job[c].saw /\ job'[c].user = job[c].user
         \/ /\ job'[c].saw = account[job[c].user].status
            /\ job'[c].user = job[c].user /\ UNCHANGED account
<1>1. NoJob.saw = "absent"
  BY DEF NoJob
<1>2. ASSUME NEW j, NEW step, Start(c, step, j) PROVE job'[c] = j
  BY <1>2, AtStep
<1>3. CASE \E q \in Requests : Ask(c, q) \/ \E l \in DOMAIN links : OpenLink(c, q, l)
  BY <1>2, <1>3 DEF Ask, OpenLink, NoJob
<1>4. CASE \E b \in Browsers : Leave(c, b) \/ Navigate(c, b)
  BY <1>2, <1>4 DEF Leave, Navigate, NoJob
<1>5. CASE UNCHANGED job \/ End(c)
  BY <1>1, <1>5, AtStep
<1>6. CASE FindLink(c) \/ SpendLink(c) \/ ReadUser(c)
  <2>1. CASE job' = [job EXCEPT ![c].saw = account[job[c].user].status] /\ UNCHANGED accounts
    BY <2>1 DEF SessionsTypeOK, Job, accounts
  <2> QED BY <1>5, <1>6, <2>1 DEF FindLink, SpendLink, ReadUser, Refuse
<1>7. CASE CommitVerified(c) \/ CommitRegistered(c) \/ CommitReset(c) \/ CommitPassword(c)
  BY <1>5, <1>7 DEF CommitVerified, CommitRegistered, CommitReset, CommitPassword, Refuse
<1>8. CASE OpenSession(c)
  BY <1>8 DEF OpenSession, SessionsTypeOK, NoJob
<1>9. CASE Rotate(c)
  BY <1>9 DEF Rotate, SessionsTypeOK, Job
<1>10. CASE FindSession(c) \/ MarkExpired(c) \/ Revoke(c) \/ RevokeFails(c)
  BY <1>5, <1>10 DEF FindSession, MarkExpired, Revoke, RevokeFails
<1>11. CASE Fail(c) \/ Stop(c) \/ SignedOut(c) \/ Answer(c) \/ DropCookies(c)
  BY <1>5, <1>11 DEF Fail, Stop, SignedOut, Answer, DropCookies
<1> QED BY <1>3, <1>4, <1>6, <1>7, <1>8, <1>9, <1>10, <1>11 DEF CallStep, Handle

LEMMA StepWelcomes ==
  ASSUME SessionsTypeOK, OwnKeys, SawActive, ActivatedIsWelcomed, [Next]_vars
  PROVE  OwnKeys' /\ SawActive' /\ ActivatedIsWelcomed'
<1>1. CASE People
  <2>1. OwnKeys' /\ ActivatedIsWelcomed' /\ ActiveStays
    BY <1>1, Kept, PeopleWelcome
  <2>2. UNCHANGED job
    BY <1>1 DEF People
  <2> QED BY <2>1, <2>2, JobTyped DEF SawActive, ActiveStays
<1>2. CASE TimeStep \/ UNCHANGED vars
  <2>1. UNCHANGED <<tables, account, job>>
    BY <1>2 DEF TimeStep, GraceEnds, FallsDue, vars, accounts
  <2>2. OwnKeys' /\ ActivatedIsWelcomed' /\ ActiveStays
    BY <2>1, NobodyActivated
  <2> QED BY <2>1, <2>2 DEF SawActive
<1>3. CASE \E c \in Calls : CallStep(c)
  <2>1. PICK c \in Calls : CallStep(c)
    BY <1>3
  <2>2. OwnKeys' /\ ActivatedIsWelcomed' /\ ActiveStays
    BY <2>1, CallWelcomes
  <2>3. ASSUME NEW d \in Calls, job'[d].saw = "active"
        PROVE  account'[job'[d].user].status = "active"
    <3>1. job[d].user \in Users
      BY JobTyped
    <3>2. CASE d = c
      BY <2>1, <2>2, <2>3, <3>1, <3>2, CallSaw DEF SawActive, ActiveStays
    <3>3. CASE d # c
      BY <2>1, <2>2, <2>3, <3>1, <3>3, OthersStay DEF SawActive, ActiveStays
    <3> QED BY <3>2, <3>3
  <2> QED BY <2>2, <2>3 DEF SawActive
<1> QED BY <1>1, <1>2, <1>3, StepsOfNext

LEMMA WelcomeStarts ==
  ASSUME Init
  PROVE  OwnKeys /\ SawActive /\ ActivatedIsWelcomed
<1>1. SawActive
  BY DEF Init, SawActive, NoJob
<1>2. ASSUME NEW u \in Users
      PROVE  /\ \A i \in DOMAIN ledger[u] : ledger[u][i].key = u
             /\ account[u].status = "active" => account[u].coded
             /\ Len(ledger[u]) = IF account[u].status = "active" THEN 1 ELSE 0
  <2>1. CASE u \in Members
    <3>1. ledger[u] = <<[key |-> u, delta |-> Bonus, after |-> Bonus]>>
      BY <2>1 DEF Init, AccountsInit
    <3>2. account[u].status = "active" /\ account[u].coded
      BY <2>1 DEF Init, AccountsInit
    <3> QED BY <3>1, <3>2
  <2>2. CASE u \notin Members
    <3>1. ledger[u] = <<>> /\ account[u].status = "absent"
      BY <2>2 DEF Init, AccountsInit, NoAccount
    <3> QED BY <3>1
  <2> QED BY <2>1, <2>2
<1> QED BY <1>1, <1>2 DEF OwnKeys, ActivatedIsWelcomed

(* Whatever registrations, verified links and invitations of one address   *)
(* overlap, wherever they stop: the account is activated with a check-in   *)
(* code and exactly one welcome bonus, and nobody else is paid one.        *)
THEOREM ActivationsAreWelcomed == Spec => []ActivatedIsWelcomed
<1> DEFINE Inv == SessionsTypeOK /\ Carried /\ OwnKeys /\ SawActive /\ ActivatedIsWelcomed
<1>1. Init => Inv
  BY SessionsStart, WelcomeStarts
<1>2. Inv /\ [Next]_vars => Inv'
  BY StepTypes, StepCarries, StepWelcomes
<1>3. Inv => ActivatedIsWelcomed
  OBVIOUS
<1> HIDE DEF Inv
<1> QED BY <1>1, <1>2, <1>3, PTL DEF Spec

-----------------------------------------------------------------------------
(* The bonus as a posting.  Only an activation touches the points.         *)
LEMMA StepPosts ==
  ASSUME SessionsTypeOK, [Next]_vars
  PROVE  UNCHANGED tables \/ \E u \in Users : Welcome(u)
<1>1. CASE People
  BY <1>1 DEF People, Invite, BackfillCode, Issue, Lapse
<1>2. CASE TimeStep \/ UNCHANGED vars
  BY <1>2 DEF TimeStep, GraceEnds, FallsDue, vars, accounts
<1>3. ASSUME NEW c \in Calls, CallStep(c) PROVE UNCHANGED tables \/ \E u \in Users : Welcome(u)
  <2>0. job[c].user \in Users
    BY JobTyped
  <2>1. CASE CommitVerified(c) \/ CommitRegistered(c)
    BY <2>0, <2>1 DEF CommitVerified, CommitRegistered, Ensure, Register, Refuse, accounts
  <2>2. CASE CommitReset(c) \/ CommitPassword(c) \/ FindLink(c) \/ SpendLink(c) \/ ReadUser(c)
    BY <2>2 DEF CommitReset, CommitPassword, FindLink, SpendLink, ReadUser, Refuse, Consume, accounts
  <2>3. CASE OpenSession(c) \/ FindSession(c) \/ MarkExpired(c) \/ Rotate(c) \/ Revoke(c) \/ RevokeFails(c)
    BY <2>3 DEF OpenSession, FindSession, MarkExpired, Rotate, Revoke, RevokeFails, accounts
  <2>4. CASE Fail(c) \/ Stop(c) \/ SignedOut(c) \/ Answer(c) \/ DropCookies(c)
    BY <2>4 DEF Fail, Stop, SignedOut, Answer, DropCookies, accounts
  <2>5. CASE \/ \E q \in Requests : Ask(c, q) \/ \E l \in DOMAIN links : OpenLink(c, q, l)
             \/ \E b \in Browsers : Leave(c, b) \/ Navigate(c, b)
    BY <2>5 DEF Ask, OpenLink, Leave, Navigate, Start, accounts
  <2> QED BY <1>3, <2>1, <2>2, <2>3, <2>4, <2>5 DEF CallStep, Handle
<1> QED BY <1>1, <1>2, <1>3, StepsOfNext

LEMMA WelcomeExtends ==
  ASSUME AccountsTypeOK, BalanceMatchesLedger, UNCHANGED tables \/ \E u \in Users : Welcome(u)
  PROVE  BalanceMatchesLedger' /\ [Abstract!Next]_ledger
<1>1. CASE UNCHANGED tables
  BY <1>1 DEF tables, BalanceMatchesLedger, LastAfter
<1>2. ASSUME NEW u \in Users, ~KeyUsed(u), PostEntry(u, u, Bonus)
      PROVE  BalanceMatchesLedger' /\ [Abstract!Next]_ledger
  <2>1. u \in Keys /\ Bonus \in Amounts /\ TablesTypeOK
    BY AccountConstants DEF AccountsTypeOK
  <2> QED BY <1>2, <2>1, PostEntryBalance, PostEntryRefines
<1> QED BY <1>1, <1>2 DEF Welcome

LEMMA BonusStarts == ASSUME Init PROVE BalanceMatchesLedger
<1> SUFFICES ASSUME NEW u \in Users
             PROVE  /\ balance[u] = LastAfter(ledger[u])
                    /\ \A i \in DOMAIN ledger[u] :
                         ledger[u][i].after = ledger[u][i].delta + (IF i = 1 THEN 0 ELSE ledger[u][i - 1].after)
  BY DEF BalanceMatchesLedger
<1>0. Bonus \in Nat
  BY AccountConstants
<1>1. CASE u \in Members
  <2>1. PICK e : e = [key |-> u, delta |-> Bonus, after |-> Bonus]
    OBVIOUS
  <2>2. balance[u] = Bonus /\ ledger[u] = <<e>>
    BY <1>1, <2>1 DEF Init, AccountsInit
  <2>3. e.after = Bonus /\ e.delta = Bonus
    BY <2>1
  <2> QED BY <1>0, <2>2, <2>3 DEF LastAfter
<1>2. CASE u \notin Members
  BY <1>2 DEF Init, AccountsInit, LastAfter
<1> QED BY <1>1, <1>2

(* Each welcome bonus is a step of the promised ledger, the members' being *)
(* its start: one entry, under the user's own key, with the balance that   *)
(* results (UsersService, awardSignupBonus).                               *)
THEOREM BonusesExtendLedger == Spec => ExtendsLedger
<1> DEFINE Inv == SessionsTypeOK /\ Carried /\ BalanceMatchesLedger
<1>1. Init => Inv
  BY SessionsStart, BonusStarts
<1>2. Inv /\ [Next]_vars => Inv' /\ [Abstract!Next]_ledger
  BY StepTypes, StepCarries, StepPosts, WelcomeExtends, Kept
<1> HIDE DEF Inv
<1> QED BY <1>1, <1>2, PTL DEF Spec, ExtendsLedger

-----------------------------------------------------------------------------
(* One-time links.  A call past its link spent it: nobody else is past the *)
(* same one, no session has come of it yet; every session that came of a   *)
(* link has its link spent.                                                *)
Past(c) == pc[c] \in {"read", "write", "open"} /\ job[c].link # 0

Spent(l) == l \in DOMAIN links /\ links[l].consumed

PastIsSpent   == \A c \in Calls : Past(c) => Spent(job[c].link)
OpenedIsSpent == \A i \in DOMAIN sessions : sessions[i].via # 0 => Spent(sessions[i].via)
PastIsAlone   == \A c, d \in Calls : Past(c) /\ Past(d) /\ job[c].link = job[d].link => c = d
PastIsUnused  == \A c \in Calls, i \in DOMAIN sessions : Past(c) => sessions[i].via # job[c].link

LinkInv == PastIsSpent /\ OpenedIsSpent /\ PastIsAlone /\ PastIsUnused /\ LinkOpensOneSession

SameVias == /\ DOMAIN sessions' = DOMAIN sessions
            /\ \A i \in DOMAIN sessions : sessions'[i].via = sessions[i].via

SpentStays == \A l : Spent(l) => Spent(l)'

(* Nobody new gets past a link and no session is opened.                   *)
LEMMA LinksKept ==
  ASSUME LinkInv, SpentStays, SameVias,
         \A c \in Calls : Past(c)' => Past(c) /\ job'[c].link = job[c].link
  PROVE  LinkInv'
<1>1. PastIsSpent'
  BY DEF LinkInv, PastIsSpent, SpentStays
<1>2. OpenedIsSpent'
  BY DEF LinkInv, OpenedIsSpent, SpentStays, SameVias
<1>3. PastIsAlone'
  BY DEF LinkInv, PastIsAlone
<1>4. PastIsUnused'
  BY DEF LinkInv, PastIsUnused, SameVias
<1>5. LinkOpensOneSession'
  BY DEF LinkInv, LinkOpensOneSession, SameVias
<1> QED BY <1>1, <1>2, <1>3, <1>4, <1>5 DEF LinkInv

LEMMA ConsumeSpends ==
  ASSUME SessionsTypeOK, NEW l \in DOMAIN links, Consume(l)
  PROVE  ~Spent(l) /\ Spent(l)' /\ SpentStays
<1>1. links \in Seq(Link) /\ ~links[l].consumed
  BY DEF SessionsTypeOK, AccountsTypeOK, Consume
<1>2. links' = [links EXCEPT ![l] = [links[l] EXCEPT !.consumed = TRUE]]
  BY DEF Consume
<1>3. DOMAIN links' = DOMAIN links /\ links[l] \in Link
  BY <1>1, <1>2
<1>4. links'[l].consumed /\ \A m \in DOMAIN links \ {l} : links'[m] = links[m]
  BY <1>2, <1>3 DEF Link
<1> QED BY <1>1, <1>3, <1>4 DEF Spent, SpentStays

LEMMA PeopleSpendNothing ==
  ASSUME SessionsTypeOK, People
  PROVE  SpentStays
<1>1. links \in Seq(Link)
  BY DEF SessionsTypeOK, AccountsTypeOK
<1>2. CASE \E u \in Users : Invite(u) \/ BackfillCode(u)
  BY <1>2 DEF Invite, BackfillCode, Spent, SpentStays
<1>3. CASE \E u \in Users, purpose \in Purposes : Issue(u, purpose)
  <2>1. PICK u \in Users, purpose \in Purposes : Issue(u, purpose)
    BY <1>3
  <2> DEFINE new == [user |-> u, purpose |-> purpose, consumed |-> FALSE, lapsed |-> FALSE]
  <2>2. links' = Append(links, new) /\ new \in Link
    BY <2>1 DEF Issue, Link
  <2> HIDE DEF new
  <2>3. \A m \in DOMAIN links : m \in DOMAIN links' /\ links'[m] = links[m]
    BY <1>1, <2>2
  <2> QED BY <2>3 DEF Spent, SpentStays
<1>4. CASE \E l \in DOMAIN links : Lapse(l)
  <2>1. PICK l \in DOMAIN links : Lapse(l)
    BY <1>4
  <2>2. links' = [links EXCEPT ![l] = [links[l] EXCEPT !.lapsed = TRUE]]
    BY <2>1 DEF Lapse
  <2>3. DOMAIN links' = DOMAIN links /\ links[l] \in Link
    BY <1>1, <2>2
  <2>4. /\ links'[l].consumed = links[l].consumed
        /\ \A m \in DOMAIN links \ {l} : links'[m] = links[m]
    BY <2>2, <2>3 DEF Link
  <2> QED BY <2>3, <2>4 DEF Spent, SpentStays
<1> QED BY <1>2, <1>3, <1>4 DEF People

(* The links' part of a call's step, but for spending one or opening a     *)
(* session.                                                                *)
LEMMA CallPast ==
  ASSUME SessionsTypeOK, Carried, NEW c \in Calls, CallStep(c),
         ~SpendLink(c), ~OpenSession(c), ~Rotate(c)
  PROVE  /\ Past(c)' => Past(c) /\ job'[c].link = job[c].link
         /\ links' = links /\ SameVias
<1>0. NoJob.link = 0
  BY DEF NoJob
<1>1. ASSUME End(c) PROVE ~Past(c)'
  BY <1>1, AtStep DEF Past
<1>2. CASE \E q \in Requests : Ask(c, q) \/ \E l \in DOMAIN links : OpenLink(c, q, l)
  <2>1. PICK q \in Requests : Ask(c, q) \/ \E l \in DOMAIN links : OpenLink(c, q, l)
    BY <1>2
  <2>2. UNCHANGED <<links, sessions>>
    BY <2>1 DEF Ask, OpenLink, Start, accounts
  <2>3. CASE Ask(c, q)
    <3> DEFINE j == [NoJob EXCEPT !.kind = q.kind, !.user = q.user, !.browser = q.browser,
                       !.password = q.password, !.current = q.current]
    <3>0. Start(c, "read", j) /\ j.link = 0
      BY <2>3 DEF Ask, NoJob
    <3> HIDE DEF j
    <3>1. job'[c].link = 0
      BY <3>0, AtStep
    <3> QED BY <2>2, <3>1 DEF Past, SameVias
  <2>4. CASE \E l \in DOMAIN links : OpenLink(c, q, l)
    BY <2>2, <2>4, AtStep DEF OpenLink, Past, SameVias
  <2> QED BY <2>1, <2>3, <2>4
<1>3. CASE \E b \in Browsers : Leave(c, b) \/ Navigate(c, b)
  <2>1. pc'[c] = "find" /\ UNCHANGED <<links, sessions>>
    BY <1>3, AtStep DEF Leave, Navigate, Start, accounts
  <2> QED BY <2>1 DEF Past, SameVias
<1>4. CASE FindLink(c)
  BY <1>1, <1>4, AtStep DEF FindLink, Refuse, Past, SameVias, accounts
<1>5. CASE ReadUser(c)
  <2>1. UNCHANGED <<links, sessions>>
    BY <1>5 DEF ReadUser, Refuse, accounts
  <2>2. CASE Refuse(c)
    BY <1>1, <2>1, <2>2 DEF Refuse, SameVias
  <2>3. CASE /\ Step(c, "read", IF job[c].kind = "login" THEN "open" ELSE "write")
             /\ job' = [job EXCEPT ![c].saw = account[job[c].user].status]
    <3>1. job'[c].link = job[c].link
      BY <2>3 DEF SessionsTypeOK, Job
    <3> QED BY <2>1, <2>3, <3>1, AtStep DEF Past, SameVias
  <2> QED BY <1>5, <2>2, <2>3 DEF ReadUser
<1>6. CASE CommitVerified(c) \/ CommitRegistered(c)
  BY <1>1, <1>6, AtStep
  DEF CommitVerified, CommitRegistered, Ensure, Register, Refuse, Past, SameVias, accounts
<1>7. CASE CommitReset(c)
  <2>1. /\ pc[c] = "write" /\ job'[c] = job[c] /\ links' = links
    BY <1>7, AtStep DEF CommitReset
  <2>2. ASSUME NEW i \in DOMAIN sessions
        PROVE  [sessions[i] EXCEPT !.status = "revoked", !.grace = TRUE, !.ended = "reset"].via
                 = sessions[i].via
    BY SessionTyped DEF Session
  <2>3. SameVias
    BY <1>7, <2>2 DEF CommitReset, SameVias
  <2> QED BY <2>1, <2>3 DEF Past
<1>8. CASE CommitPassword(c)
  BY <1>1, <1>8 DEF CommitPassword, SameVias
<1>9. CASE FindSession(c) \/ MarkExpired(c) \/ RevokeFails(c) \/ Revoke(c)
  <2>1. job' = job /\ links' = links
    BY <1>9 DEF FindSession, MarkExpired, RevokeFails, Revoke, accounts
  <2>2. job[c].link = 0
    BY <1>9 DEF Carried, Carries, FindSession, MarkExpired, RevokeFails, Revoke, Step
  <2>3. SameVias
    BY <1>9, SessionTyped DEF FindSession, MarkExpired, RevokeFails, Revoke, SameVias, Session
  <2> QED BY <2>1, <2>2, <2>3 DEF Past
<1>11. CASE Fail(c) \/ SignedOut(c) \/ Answer(c) \/ DropCookies(c)
  BY <1>1, <1>11 DEF Fail, SignedOut, Answer, DropCookies, SameVias, accounts
<1>12. CASE Stop(c)
  <2>1. SameVias
    BY <1>12, SessionTyped DEF Stop, SameVias, Session
  <2> QED BY <1>1, <1>12, <2>1 DEF Stop, accounts
<1> QED BY <1>2, <1>3, <1>4, <1>5, <1>6, <1>7, <1>8, <1>9, <1>11, <1>12 DEF CallStep, Handle

(* A session is added by a call that leaves its link behind, or had none.  *)
Added(l) ==
  /\ DOMAIN sessions' = DOMAIN sessions \cup {Len(sessions) + 1}
  /\ Len(sessions') = Len(sessions) + 1
  /\ \A i \in DOMAIN sessions : sessions'[i].via = sessions[i].via
  /\ sessions'[Len(sessions) + 1].via = l

LEMMA OpenSessionAdds ==
  ASSUME SessionsTypeOK, NEW c \in Calls, OpenSession(c)
  PROVE  Added(job[c].link) /\ links' = links /\ pc[c] = "open" /\ pc'[c] = "answer"
<1> DEFINE r == NewSession(job[c].user, job[c].link)
<1>1. r \in Session /\ r.via = job[c].link
  BY JobTyped, NewSessionTyped, Kept DEF NewSession
<1>2. sessions' = Append(sessions, r)
  BY DEF OpenSession
<1> HIDE DEF r
<1>3. Added(job[c].link)
  BY <1>1, <1>2, Kept DEF Added
<1> QED BY <1>3, AtStep DEF OpenSession, accounts

LEMMA RotateAdds ==
  ASSUME SessionsTypeOK, Carried, NEW c \in Calls, Rotate(c)
  PROVE  Added(0) /\ links' = links /\ pc[c] = "rotate" /\ pc'[c] = "answer"
<1> DEFINE t == job[c].token
           ended == IF sessions[t].ended = "no" THEN "rotated" ELSE sessions[t].ended
           old == [sessions[t] EXCEPT !.status = "revoked", !.grace = TRUE, !.ended = ended]
           r == NewSession(sessions[t].user, 0)
<1>0. pc[c] = "rotate" /\ pc'[c] = "answer" /\ links' = links
  BY AtStep DEF Rotate, accounts
<1>1. t \in DOMAIN sessions /\ sessions[t] \in Session
  BY <1>0, TokenTyped DEF Carried, Carries
<1>2. /\ old \in Session /\ old.via = sessions[t].via
      /\ r \in Session /\ r.via = 0
  BY <1>1, NewSessionTyped DEF Session, NewSession
<1>3. sessions' = Append([sessions EXCEPT ![t] = old], r)
  BY <1>1 DEF Rotate, Session
<1> HIDE DEF old, r
<1> DEFINE s == [sessions EXCEPT ![t] = old]
<1>4. /\ s \in Seq(Session) /\ Len(s) = Len(sessions) /\ DOMAIN s = DOMAIN sessions
      /\ \A i \in DOMAIN sessions : s[i].via = sessions[i].via
  BY <1>1, <1>2, Kept, UpdateRow
<1> HIDE DEF s
<1>5. Added(0)
  BY <1>2, <1>3, <1>4, Kept DEF Added, s
<1> QED BY <1>0, <1>5

LEMMA SessionAdded ==
  ASSUME SessionsTypeOK, LinkInv, NEW c \in Calls, CallStep(c), NEW l,
         Added(l), links' = links, pc'[c] = "answer", l # 0 => Past(c) /\ l = job[c].link
  PROVE  LinkInv'
<1>1. \A d \in Calls : Past(d)' => d # c /\ Past(d) /\ job'[d].link = job[d].link
  BY OthersStay DEF Past
<1>2. DOMAIN sessions = 1..Len(sessions) /\ Len(sessions) \in Nat
  BY Kept
<1>3. PastIsSpent' /\ PastIsAlone'
  BY <1>1 DEF LinkInv, PastIsSpent, PastIsAlone, Spent
<1>4. OpenedIsSpent'
  BY DEF LinkInv, OpenedIsSpent, PastIsSpent, Spent, Added
<1>5. PastIsUnused'
  BY <1>1 DEF LinkInv, PastIsUnused, PastIsAlone, Added, Past
<1>6. LinkOpensOneSession'
  BY <1>2 DEF LinkInv, LinkOpensOneSession, PastIsUnused, Added
<1> QED BY <1>3, <1>4, <1>5, <1>6 DEF LinkInv

LEMMA LinkSpent ==
  ASSUME SessionsTypeOK, Carried, LinkInv, NEW c \in Calls, SpendLink(c), CallStep(c)
  PROVE  LinkInv'
<1>1. CASE Refuse(c)
  <2>1. ~Past(c)' /\ links' = links /\ SameVias
    BY <1>1, AtStep DEF Refuse, Past, SameVias, accounts
  <2> QED BY <2>1, OthersStay, LinksKept DEF Past, Spent, SpentStays
<1>2. CASE Consume(job[c].link) /\ Step(c, "consume", IF job[c].kind = "verify" THEN "read" ELSE "write")
           /\ UNCHANGED <<sessions, job>>
  <2> DEFINE l == job[c].link
  <2>0. SameVias /\ UNCHANGED job
    BY <1>2 DEF SameVias
  <2>1. CASE l = 0
    <3>1. links' = links
      <4>1. l \notin DOMAIN links /\ links \in Seq(Link)
        BY <2>1 DEF SessionsTypeOK, AccountsTypeOK
      <4> QED BY <1>2, <4>1 DEF Consume
    <3> QED BY <2>0, <2>1, <3>1, OthersStay, LinksKept DEF Past, Spent, SpentStays
  <2>2. CASE l # 0
    <3>1. l \in DOMAIN links
      BY <2>2, JobTyped DEF SessionsTypeOK, AccountsTypeOK
    <3>2. ~Spent(l) /\ Spent(l)' /\ SpentStays
      BY <1>2, <3>1, ConsumeSpends
    <3>3. \A d \in Calls \ {c} : Past(d)' => Past(d) /\ job[d].link # l
      BY <3>2, OthersStay DEF Past, LinkInv, PastIsSpent
    <3>4. PastIsSpent'
      BY <2>0, <3>2, <3>3 DEF LinkInv, PastIsSpent, SpentStays
    <3>5. OpenedIsSpent'
      BY <2>0, <3>2 DEF LinkInv, OpenedIsSpent, SpentStays, SameVias
    <3>6. PastIsAlone'
      BY <2>0, <3>3 DEF LinkInv, PastIsAlone
    <3>7. PastIsUnused'
      <4>1. ASSUME NEW d \in Calls, Past(d)', NEW i \in DOMAIN sessions'
            PROVE  sessions'[i].via # job'[d].link
        <5>1. CASE d = c
          BY <2>0, <2>2, <3>2, <4>1, <5>1 DEF LinkInv, OpenedIsSpent, SameVias
        <5>2. CASE d # c
          BY <2>0, <3>3, <4>1, <5>2 DEF LinkInv, PastIsUnused, SameVias
        <5> QED BY <5>1, <5>2
      <4> QED BY <4>1 DEF PastIsUnused
    <3>8. LinkOpensOneSession'
      BY <2>0 DEF LinkInv, LinkOpensOneSession, SameVias
    <3> QED BY <3>4, <3>5, <3>6, <3>7, <3>8 DEF LinkInv
  <2> QED BY <2>1, <2>2
<1> QED BY <1>1, <1>2 DEF SpendLink

LEMMA StepKeepsLinks ==
  ASSUME SessionsTypeOK, Carried, LinkInv, [Next]_vars
  PROVE  LinkInv'
<1>1. CASE People
  <2>1. SpentStays /\ UNCHANGED <<sessions, pc, job>>
    BY <1>1, PeopleSpendNothing DEF People
  <2> QED BY <2>1, LinksKept DEF SameVias, Past
<1>2. CASE TimeStep
  <2>1. PICK t \in Held \ {0} : GraceEnds(t) \/ FallsDue(t)
    BY <1>2 DEF TimeStep
  <2>2. UNCHANGED <<links, pc, job>>
    BY <2>1 DEF GraceEnds, FallsDue, accounts
  <2>3. SameVias
    <3>1. CASE t \in DOMAIN sessions
      BY <2>1, <3>1, SessionTyped DEF GraceEnds, FallsDue, SameVias, Session
    <3>2. CASE t \notin DOMAIN sessions
      <4>1. sessions' = sessions
        BY <2>1, <3>2, Kept DEF GraceEnds, FallsDue
      <4> QED BY <4>1 DEF SameVias
    <3> QED BY <3>1, <3>2
  <2> QED BY <2>2, <2>3, LinksKept DEF Past, Spent, SpentStays
<1>3. CASE UNCHANGED vars
  <2>1. UNCHANGED <<links, sessions, pc, job>>
    BY <1>3 DEF vars, accounts
  <2> QED BY <2>1, LinksKept DEF SameVias, Past, Spent, SpentStays
<1>4. CASE \E c \in Calls : CallStep(c)
  <2>1. PICK c \in Calls : CallStep(c)
    BY <1>4
  <2>2. CASE SpendLink(c)
    BY <2>1, <2>2, LinkSpent
  <2>3. CASE OpenSession(c)
    <3>1. job[c].link = 0 \/ Past(c)
      BY <2>3, OpenSessionAdds DEF Past
    <3> QED BY <2>1, <2>3, <3>1, OpenSessionAdds, SessionAdded
  <2>4. CASE Rotate(c)
    <3>1. Added(0) /\ links' = links /\ pc'[c] = "answer"
      BY <2>1, <2>4, RotateAdds
    <3>2. PICK l : Added(l) /\ links' = links /\ pc'[c] = "answer" /\ l = 0
      BY <3>1
    <3> QED BY <2>1, <3>2, SessionAdded
  <2>5. CASE ~SpendLink(c) /\ ~OpenSession(c) /\ ~Rotate(c)
    <3>1. /\ Past(c)' => Past(c) /\ job'[c].link = job[c].link
          /\ links' = links /\ SameVias
      BY <2>1, <2>5, CallPast
    <3>2. \A d \in Calls : Past(d)' => Past(d) /\ job'[d].link = job[d].link
      BY <2>1, <3>1, OthersStay DEF Past
    <3> QED BY <3>1, <3>2, LinksKept DEF Spent, SpentStays
  <2> QED BY <2>2, <2>3, <2>4, <2>5
<1> QED BY <1>1, <1>2, <1>3, <1>4, StepsOfNext

LEMMA LinksStart ==
  ASSUME Init
  PROVE  LinkInv
<1>1. \A c \in Calls : ~Past(c)
  BY DEF Init, Past
<1>2. \A i \in DOMAIN sessions : sessions[i].via = 0
  BY DEF Init, NewSession
<1> QED BY <1>1, <1>2
    DEF LinkInv, PastIsSpent, OpenedIsSpent, PastIsAlone, PastIsUnused, LinkOpensOneSession

(* A one-time link signs one browser in, however often and in however many *)
(* tabs it is opened at once (LoginChallengeService.consume).              *)
THEOREM LinksOpenOneSession == Spec => []LinkOpensOneSession
<1> DEFINE Inv == SessionsTypeOK /\ Carried /\ LinkInv
<1>1. Init => Inv
  BY SessionsStart, LinksStart
<1>2. Inv /\ [Next]_vars => Inv'
  BY StepTypes, StepCarries, StepKeepsLinks
<1>3. Inv => LinkOpensOneSession
  BY DEF LinkInv
<1> HIDE DEF Inv
<1> QED BY <1>1, <1>2, <1>3, PTL DEF Spec
-----------------------------------------------------------------------------
(* Refused only when ended.  First, what a step does to a row of sessions: *)
(* age and a final end stay, a row is revoked with its grace period, and   *)
(* only a rotation marks it rotated.                                       *)
FinalEnds == {"unanswered", "logout", "reset"}

Sound(s) == (s.status = "expired" => s.overdue) /\ (s.status = "revoked" => s.ended # "no")

Ages(s, r) ==
  /\ s.overdue => r.overdue
  /\ s.ended \in FinalEnds => r.ended \in FinalEnds
  /\ Sound(s) => Sound(r)
  /\ r.status = "revoked" /\ ~r.grace => s.status = "revoked" /\ ~s.grace

Rotates(c, t) ==
  /\ pc[c] = "rotate" /\ job[c].token = t /\ sessions'[t].grace
  /\ pc'[c] = "answer" /\ job'[c].token = t /\ job'[c].kind = "refresh"

RowsAge(c) ==
  /\ \A t \in DOMAIN sessions :
       /\ t \in DOMAIN sessions' /\ Ages(sessions[t], sessions'[t])
       /\ sessions'[t].ended = "rotated" => sessions[t].ended = "rotated" \/ Rotates(c, t)
  /\ \A t \in DOMAIN sessions' \ DOMAIN sessions :
       sessions'[t].status = "active" /\ sessions'[t].ended = "no"

ExpireIsDue == \A c \in Calls : pc[c] = "expire" => sessions[job[c].token].overdue

LEMMA SameRowsAge ==
  ASSUME UNCHANGED sessions, NEW c
  PROVE  RowsAge(c)
BY DEF RowsAge, Ages

(* One row is updated, to one that ages it.                                *)
LEMMA RowUpdated ==
  ASSUME SessionsTypeOK, NEW c, NEW t, NEW r, sessions' = [sessions EXCEPT ![t] = r],
         t \in DOMAIN sessions =>
           /\ Ages(sessions[t], r)
           /\ r.ended = "rotated" => sessions[t].ended = "rotated"
  PROVE  RowsAge(c)
<1>1. \A i \in DOMAIN sessions \ {t} : sessions'[i] = sessions[i]
  BY DEF SessionsTypeOK
<1>2. DOMAIN sessions' = DOMAIN sessions
  BY DEF SessionsTypeOK
<1>3. t \in DOMAIN sessions => sessions'[t] = r
  BY DEF SessionsTypeOK
<1> QED BY <1>1, <1>2, <1>3 DEF RowsAge, Ages

LEMMA OpenSessionRows ==
  ASSUME SessionsTypeOK, NEW c \in Calls, OpenSession(c)
  PROVE  RowsAge(c)
<1> DEFINE r == NewSession(job[c].user, job[c].link)
<1>1. r \in Session /\ r.status = "active" /\ r.ended = "no"
  BY JobTyped, NewSessionTyped, Kept DEF NewSession
<1>2. sessions' = Append(sessions, r)
  BY DEF OpenSession
<1> HIDE DEF r
<1>3. /\ DOMAIN sessions' = DOMAIN sessions \cup {Len(sessions) + 1}
      /\ \A t \in DOMAIN sessions : sessions'[t] = sessions[t]
      /\ sessions'[Len(sessions) + 1] = r
  BY <1>1, <1>2, Kept
<1> QED BY <1>1, <1>3 DEF RowsAge, Ages

LEMMA RotateRows ==
  ASSUME SessionsTypeOK, Carried, NEW c \in Calls, Rotate(c)
  PROVE  RowsAge(c)
<1> DEFINE t == job[c].token
           ended == IF sessions[t].ended = "no" THEN "rotated" ELSE sessions[t].ended
           old == [sessions[t] EXCEPT !.status = "revoked", !.grace = TRUE, !.ended = ended]
           r == NewSession(sessions[t].user, 0)
<1>0. pc[c] = "rotate"
  BY DEF Rotate, Step
<1>1. t \in DOMAIN sessions /\ sessions[t] \in Session
  BY <1>0, TokenTyped DEF Carried, Carries
<1>2. /\ old \in Session /\ old.status = "revoked" /\ old.grace /\ old.ended = ended
      /\ old.overdue = sessions[t].overdue
      /\ r \in Session /\ r.status = "active" /\ r.ended = "no"
  BY <1>1, NewSessionTyped DEF Session, NewSession
<1>3. sessions' = Append([sessions EXCEPT ![t] = old], r)
  BY <1>1 DEF Rotate, Session
<1>4. Ages(sessions[t], old)
  BY <1>1, <1>2 DEF Ages, Sound, FinalEnds, Session
<1> HIDE DEF old, r, ended
<1> DEFINE s == [sessions EXCEPT ![t] = old]
<1>5. /\ s \in Seq(Session) /\ Len(s) = Len(sessions) /\ DOMAIN s = DOMAIN sessions
      /\ s[t] = old /\ \A i \in DOMAIN sessions \ {t} : s[i] = sessions[i]
  BY <1>1, <1>2, Kept, UpdateRow
<1> HIDE DEF s
<1>6. /\ DOMAIN sessions' = DOMAIN sessions \cup {Len(sessions) + 1}
      /\ \A i \in DOMAIN sessions : sessions'[i] = s[i]
      /\ sessions'[Len(sessions) + 1] = r
  BY <1>2, <1>3, <1>5, Kept DEF s
<1>7. \A i \in DOMAIN sessions :
        Ages(sessions[i], sessions'[i]) /\ (i # t => sessions'[i] = sessions[i])
  BY <1>4, <1>5, <1>6 DEF Ages
<1>8. Rotates(c, t)
  <2>1. job[c] \in Job /\ job'[c] = [job[c] EXCEPT !.issued = Len(sessions')]
    BY Kept DEF Rotate
  <2>2. job'[c].token = t /\ job'[c].kind = "refresh" /\ pc'[c] = "answer"
    BY <1>0, <2>1, AtStep DEF Job, Rotate, Carried, Carries
  <2> QED BY <1>0, <1>1, <1>2, <1>5, <1>6, <2>2 DEF Rotates
<1> QED BY <1>0, <1>1, <1>2, <1>5, <1>6, <1>7, <1>8 DEF RowsAge

LEMMA CallRows ==
  ASSUME SessionsTypeOK, Carried, ExpireIsDue, NEW c \in Calls, CallStep(c)
  PROVE  RowsAge(c)
<1> DEFINE t == job[c].token
<1>1. CASE UNCHANGED sessions
  BY <1>1, SameRowsAge
<1>2. CASE OpenSession(c) \/ Rotate(c)
  BY <1>2, OpenSessionRows, RotateRows
<1>3. CASE MarkExpired(c)
  <2> DEFINE r == [sessions[t] EXCEPT !.status = "expired"]
  <2>1. sessions' = [sessions EXCEPT ![t] = r] /\ sessions[t].overdue
    BY <1>3 DEF MarkExpired, Step, ExpireIsDue
  <2>2. t \in DOMAIN sessions =>
          Ages(sessions[t], r) /\ (r.ended = "rotated" => sessions[t].ended = "rotated")
    BY <2>1, SessionTyped DEF Ages, Sound, Session
  <2> HIDE DEF r
  <2> QED BY <2>1, <2>2, RowUpdated
<1>4. CASE Revoke(c) /\ sessions[t].status = "active"
  <2> DEFINE r == [sessions[t] EXCEPT !.status = "revoked", !.grace = TRUE, !.ended = "logout"]
  <2>1. t \in DOMAIN sessions => sessions' = [sessions EXCEPT ![t] = r]
    BY <1>4, SessionTyped DEF Revoke, Session
  <2>2. t \in DOMAIN sessions =>
          Ages(sessions[t], r) /\ (r.ended = "rotated" => sessions[t].ended = "rotated")
    BY SessionTyped DEF Ages, Sound, FinalEnds, Session
  <2>3. CASE t \notin DOMAIN sessions
    <3>1. sessions' = sessions
      BY <1>4, <2>3, Kept DEF Revoke
    <3> QED BY <3>1, SameRowsAge
  <2> HIDE DEF r
  <2> QED BY <2>1, <2>2, <2>3, RowUpdated
<1>5. CASE Stop(c) /\ sessions[t].ended = "rotated"
  <2> DEFINE r == [sessions[t] EXCEPT !.ended = "unanswered"]
  <2>1. sessions' = [sessions EXCEPT ![t] = r] \/ sessions' = sessions
    BY <1>5 DEF Stop
  <2>2. t \in DOMAIN sessions =>
          Ages(sessions[t], r) /\ (r.ended = "rotated" => sessions[t].ended = "rotated")
    BY SessionTyped DEF Ages, Sound, FinalEnds, Session
  <2> HIDE DEF r
  <2> QED BY <2>1, <2>2, SameRowsAge, RowUpdated
<1>6. CASE CommitReset(c)
  <2>1. ASSUME NEW i \in DOMAIN sessions
        PROVE  Ages(sessions[i], sessions'[i]) /\ (sessions'[i].ended = "rotated" => sessions[i].ended = "rotated")
    <3>1. sessions[i] \in Session
      BY SessionTyped
    <3>2. \/ sessions'[i] = sessions[i]
          \/ sessions'[i] = [sessions[i] EXCEPT !.status = "revoked", !.grace = TRUE, !.ended = "reset"]
      BY <1>6 DEF CommitReset
    <3> QED BY <3>1, <3>2 DEF Ages, Sound, FinalEnds, Session
  <2>2. DOMAIN sessions' = DOMAIN sessions
    BY <1>6 DEF CommitReset
  <2> QED BY <2>1, <2>2 DEF RowsAge
<1>7. CASE Revoke(c) \/ Stop(c)
  BY <1>1, <1>4, <1>5, <1>7 DEF Revoke, Stop
<1>8. CASE \/ \E q \in Requests : Ask(c, q) \/ \E l \in DOMAIN links : OpenLink(c, q, l)
           \/ \E b \in Browsers : Leave(c, b) \/ Navigate(c, b)
  BY <1>1, <1>8 DEF Ask, OpenLink, Leave, Navigate, Start
<1>9. CASE FindLink(c) \/ SpendLink(c) \/ ReadUser(c)
  BY <1>1, <1>9 DEF FindLink, SpendLink, ReadUser, Refuse
<1>10. CASE CommitVerified(c) \/ CommitRegistered(c) \/ CommitPassword(c)
  BY <1>1, <1>10 DEF CommitVerified, CommitRegistered, CommitPassword, Refuse
<1>11. CASE FindSession(c) \/ RevokeFails(c)
  BY <1>1, <1>11 DEF FindSession, RevokeFails
<1>12. CASE Fail(c) \/ SignedOut(c) \/ Answer(c) \/ DropCookies(c)
  BY <1>1, <1>12 DEF Fail, SignedOut, Answer, DropCookies
<1> QED BY <1>2, <1>3, <1>6, <1>7, <1>8, <1>9, <1>10, <1>11, <1>12 DEF CallStep, Handle

(* What a step does to its own call and to the jars: a call starts with no *)
(* token or with its browser's, keeps it, and may be issued the newest;    *)
(* its end leaves the jar alone, empties it or fills it with the one       *)
(* issued.  That no answer to a rotation is left is noted in the row.      *)
Starts(c) ==
  /\ pc[c] = "idle" /\ pc'[c] # "answer" /\ jar' = jar /\ job'[c].issued = 0
  /\ \/ job'[c].token = 0 /\ job'[c].kind # "refresh"
     \/ \E b \in Browsers : jar[b] # 0 /\ job'[c].token = jar[b] /\ job'[c].browser = b

Continues(c) ==
  /\ pc[c] # "answer" /\ jar' = jar
  /\ job'[c].token = job[c].token /\ job'[c].kind = job[c].kind /\ job'[c].browser = job[c].browser
  /\ \/ job'[c].issued = job[c].issued
     \/ /\ job'[c].issued = Len(sessions) + 1
        /\ Len(sessions) + 1 \in DOMAIN sessions' \ DOMAIN sessions

Drops(c) ==
  \/ jar' = [jar EXCEPT ![job[c].browser] = 0]
  \/ jar' = jar /\ (LastHope(c) => sessions'[job[c].token].ended # "rotated")

Answered(c) == jar' = [jar EXCEPT ![job[c].browser] = job[c].issued]

Ends(c) == job'[c].token = 0 /\ job'[c].issued = 0 /\ job'[c].kind = "none" /\ (Drops(c) \/ Answered(c))

LEMMA OpenSessionMoves ==
  ASSUME SessionsTypeOK, NEW c \in Calls, OpenSession(c)
  PROVE  Continues(c)
<1> DEFINE j == [NoJob EXCEPT !.kind = job[c].kind, !.browser = job[c].browser,
                   !.token = job[c].token, !.issued = Len(sessions')]
           r == NewSession(job[c].user, job[c].link)
<1>1. r \in Session
  BY JobTyped, NewSessionTyped, Kept
<1>2. sessions' = Append(sessions, r) /\ jar' = jar /\ job' = [job EXCEPT ![c] = j] /\ pc[c] = "open"
  BY DEF OpenSession, Step
<1> HIDE DEF r
<1>3. Len(sessions') = Len(sessions) + 1 /\ Len(sessions) + 1 \in DOMAIN sessions' \ DOMAIN sessions
  BY <1>1, <1>2, Kept
<1>4. /\ j.kind = job[c].kind /\ j.browser = job[c].browser
      /\ j.token = job[c].token /\ j.issued = Len(sessions')
  BY DEF NoJob
<1> HIDE DEF j
<1>5. job'[c] = j
  BY <1>2, Kept
<1> QED BY <1>2, <1>3, <1>4, <1>5 DEF Continues

LEMMA RotateMoves ==
  ASSUME SessionsTypeOK, Carried, NEW c \in Calls, Rotate(c)
  PROVE  Continues(c)
<1> DEFINE j == [job[c] EXCEPT !.issued = Len(sessions')]
<1>1. Added(0) /\ pc[c] = "rotate" /\ jar' = jar /\ job' = [job EXCEPT ![c] = j]
  BY RotateAdds DEF Rotate, Step
<1>2. job[c] \in Job
  BY Kept
<1>3. /\ j.kind = job[c].kind /\ j.browser = job[c].browser
      /\ j.token = job[c].token /\ j.issued = Len(sessions')
  BY <1>2 DEF Job
<1> HIDE DEF j
<1>4. job'[c] = j
  BY <1>1, Kept
<1>5. Len(sessions) + 1 \in DOMAIN sessions' \ DOMAIN sessions
  BY <1>1, Kept DEF Added
<1> QED BY <1>1, <1>3, <1>4, <1>5 DEF Continues, Added

LEMMA StopMoves ==
  ASSUME SessionsTypeOK, Carried, NEW c \in Calls, Stop(c)
  PROVE  Ends(c)
<1> DEFINE t == job[c].token
<1>1. /\ job'[c] = NoJob /\ jar' = jar
  BY AtStep DEF Stop
<1>2. ASSUME LastHope(c) PROVE sessions'[t].ended # "rotated"
  <2>1. t \in DOMAIN sessions /\ sessions[t] \in Session
    BY <1>2, TokenTyped DEF LastHope, Awaits
  <2>2. CASE sessions[t].ended = "rotated"
    <3>1. sessions' = [sessions EXCEPT ![t].ended = "unanswered"]
      BY <1>2, <2>2 DEF Stop
    <3>2. sessions'[t] = [sessions[t] EXCEPT !.ended = "unanswered"]
      BY <2>1, <3>1
    <3> QED BY <2>1, <3>2 DEF Session
  <2>3. CASE sessions[t].ended # "rotated"
    BY <2>3 DEF Stop
  <2> QED BY <2>2, <2>3
<1> QED BY <1>1, <1>2 DEF Ends, Drops, NoJob

LEMMA CallMoves ==
  ASSUME SessionsTypeOK, Carried, NEW c \in Calls, CallStep(c)
  PROVE  Starts(c) \/ Continues(c) \/ Ends(c)
<1>0. ASSUME End(c)
      PROVE  job'[c].token = 0 /\ job'[c].issued = 0 /\ job'[c].kind = "none"
  <2>1. job'[c] = NoJob
    BY <1>0, AtStep
  <2> QED BY <2>1 DEF NoJob
<1>1. ASSUME End(c), jar' = jar, pc[c] # "answer" PROVE Ends(c)
  BY <1>0, <1>1 DEF Ends, Drops, LastHope, Awaits
<1>2. ASSUME pc[c] # "answer", jar' = jar, UNCHANGED job PROVE Continues(c)
  BY <1>2 DEF Continues
<1>3. CASE \E q \in Requests : Ask(c, q) \/ \E l \in DOMAIN links : OpenLink(c, q, l)
  <2>1. PICK q \in Requests : Ask(c, q) \/ \E l \in DOMAIN links : OpenLink(c, q, l)
    BY <1>3
  <2>2. CASE Ask(c, q)
    <3> DEFINE j == [NoJob EXCEPT !.kind = q.kind, !.user = q.user, !.browser = q.browser,
                       !.password = q.password, !.current = q.current]
    <3>1. Start(c, "read", j) /\ j.token = 0 /\ j.issued = 0 /\ j.kind # "refresh"
      BY <2>2 DEF Ask, NoJob
    <3> HIDE DEF j
    <3>a. job'[c] = j /\ pc[c] = "idle" /\ pc'[c] \in {"read", "find"} /\ jar' = jar
      BY <3>1, AtStep DEF Start
    <3> QED BY <3>1, <3>a DEF Starts
  <2>3. CASE \E l \in DOMAIN links : OpenLink(c, q, l)
    <3>1. PICK l \in DOMAIN links : OpenLink(c, q, l)
      BY <2>3
    <3> DEFINE j == [NoJob EXCEPT !.kind = q.kind, !.user = q.user, !.browser = q.browser,
                       !.password = q.password, !.link = l]
    <3>2. Start(c, "find", j) /\ j.token = 0 /\ j.issued = 0 /\ j.kind # "refresh"
      BY <3>1 DEF OpenLink, NoJob
    <3> HIDE DEF j
    <3>a. job'[c] = j /\ pc[c] = "idle" /\ pc'[c] \in {"read", "find"} /\ jar' = jar
      BY <3>2, AtStep DEF Start
    <3> QED BY <3>2, <3>a DEF Starts
  <2> QED BY <2>1, <2>2, <2>3
<1>4. CASE \E b \in Browsers : Leave(c, b) \/ Navigate(c, b)
  <2>1. PICK b \in Browsers : Leave(c, b) \/ Navigate(c, b)
    BY <1>4
  <2> DEFINE j == [NoJob EXCEPT !.kind = "logout", !.browser = b, !.token = jar[b]]
             k == [NoJob EXCEPT !.kind = "refresh", !.browser = b,
                     !.token = jar[b], !.user = sessions[jar[b]].user]
  <2>2. jar[b] # 0 /\ (Start(c, "find", j) \/ Start(c, "find", k))
    BY <2>1 DEF Leave, Navigate
  <2>3. /\ j.token = jar[b] /\ j.issued = 0 /\ j.browser = b
        /\ k.token = jar[b] /\ k.issued = 0 /\ k.browser = b
    BY DEF NoJob
  <2> HIDE DEF j, k
  <2>4. PICK i : /\ Start(c, "find", i)
                 /\ i.token = jar[b] /\ i.issued = 0 /\ i.browser = b
    BY <2>2, <2>3
  <2>5. Start(c, "find", i) => pc[c] = "idle" /\ pc'[c] = "find" /\ job'[c] = i
    BY AtStep
  <2>6. jar' = jar
    BY <2>4 DEF Start
  <2> QED BY <2>2, <2>4, <2>5, <2>6 DEF Starts
<1>5. CASE FindLink(c) \/ SpendLink(c)
  BY <1>1, <1>2, <1>5 DEF FindLink, SpendLink, Refuse, Step
<1>6. CASE ReadUser(c)
  <2>1. CASE Refuse(c)
    BY <1>1, <1>6, <2>1 DEF Refuse, ReadUser, Step
  <2>2. CASE /\ Step(c, "read", IF job[c].kind = "login" THEN "open" ELSE "write")
             /\ job' = [job EXCEPT ![c].saw = account[job[c].user].status]
    <3>1. /\ job'[c].token = job[c].token /\ job'[c].kind = job[c].kind
          /\ job'[c].browser = job[c].browser /\ job'[c].issued = job[c].issued
      BY <2>2, Kept DEF Job
    <3> QED BY <2>2, <3>1 DEF Continues, Step
  <2> QED BY <1>6, <2>1, <2>2 DEF ReadUser
<1>7. CASE CommitVerified(c) \/ CommitRegistered(c) \/ CommitReset(c) \/ CommitPassword(c)
  BY <1>1, <1>2, <1>7
  DEF CommitVerified, CommitRegistered, CommitReset, CommitPassword, Refuse, Step
<1>8. CASE OpenSession(c) \/ Rotate(c) \/ Stop(c)
  BY <1>8, OpenSessionMoves, RotateMoves, StopMoves
<1>9. CASE FindSession(c) \/ MarkExpired(c) \/ Revoke(c) \/ RevokeFails(c)
  BY <1>2, <1>9 DEF FindSession, MarkExpired, Revoke, RevokeFails, Step
<1>10. CASE Fail(c) \/ SignedOut(c) \/ DropCookies(c)
  BY <1>0, <1>10 DEF Fail, SignedOut, DropCookies, Ends, Drops
<1>11. CASE Answer(c)
  BY <1>0, <1>11 DEF Answer, Ends, Answered
<1> QED BY <1>3, <1>4, <1>5, <1>6, <1>7, <1>8, <1>9, <1>10, <1>11 DEF CallStep, Handle

(* A token that was issued and not delivered is known to its call alone.   *)
(* A browser left with a rotated token has an answer coming, so that no    *)
(* refresh carries a rotated token past its grace period.                  *)
OneJar == \A a, b \in Browsers : jar[a] = jar[b] /\ jar[a] # 0 => a = b

JarOwner ==
  \A b \in Browsers, c \in Calls : job[c].token # 0 /\ job[c].token = jar[b] => job[c].browser = b

Fresh ==
  \A c \in Calls : job[c].issued # 0 =>
    /\ \A b \in Browsers : jar[b] # job[c].issued
    /\ \A d \in Calls : job[d].token # job[c].issued /\ (d # c => job[d].issued # job[c].issued)
    /\ sessions[job[c].issued].ended # "rotated"

Awaited ==
  \A b \in Browsers : jar[b] # 0 /\ sessions[jar[b]].ended = "rotated" =>
    \E c \in Calls : Awaits(c, jar[b])

GraceCovers ==
  \A c \in Calls : job[c].kind = "refresh" =>
    ~(/\ sessions[job[c].token].status = "revoked" /\ ~sessions[job[c].token].grace
      /\ sessions[job[c].token].ended = "rotated")

TokenInv == OneJar /\ JarOwner /\ Fresh /\ Awaited /\ GraceCovers

RowsSound == \A t \in DOMAIN sessions : Sound(sessions[t])

LEMMA TokensInRange ==
  ASSUME SessionsTypeOK
  PROVE  /\ \A c \in Calls : /\ job[c].token # 0 => job[c].token \in DOMAIN sessions
                             /\ job[c].issued # 0 => job[c].issued \in DOMAIN sessions
         /\ \A b \in Browsers : jar[b] # 0 => jar[b] \in DOMAIN sessions
         /\ Len(sessions) + 1 \notin DOMAIN sessions /\ Len(sessions) + 1 # 0
         /\ jar \in [Browsers -> 0..Len(sessions)] /\ 0 \notin DOMAIN sessions
<1>1. DOMAIN sessions = 1..Len(sessions) /\ Len(sessions) \in Nat
  BY Kept
<1> QED BY <1>1, JobTyped DEF SessionsTypeOK

LEMMA NewlyRotated ==
  ASSUME SessionsTypeOK, Fresh, NEW c \in Calls, RowsAge(c), NEW d \in Calls, job[d].issued # 0
  PROVE  sessions'[job[d].issued].ended # "rotated"
<1>1. job[d].issued \in DOMAIN sessions
  <2>1. job[d].issued \in 0..Len(sessions) /\ DOMAIN sessions = 1..Len(sessions) /\ Len(sessions) \in Nat
    BY JobTyped, Kept
  <2> QED BY <2>1
<1>2. sessions[job[d].issued].ended # "rotated" /\ job[c].token # job[d].issued
  BY DEF Fresh
<1>3. ~Rotates(c, job[d].issued)
  BY <1>2 DEF Rotates
<1> QED BY <1>1, <1>2, <1>3 DEF RowsAge

LEMMA StartTokens ==
  ASSUME SessionsTypeOK, Carried, TokenInv, NEW c \in Calls, CallStep(c), RowsAge(c), Starts(c)
  PROVE  TokenInv'
<1>1. \A d \in Calls \ {c} : pc'[d] = pc[d] /\ job'[d] = job[d]
  BY OthersStay
<1>2. jar' = jar /\ job'[c].issued = 0 /\ pc[c] = "idle" /\ pc'[c] # "answer"
  BY DEF Starts
<1>3. \/ job'[c].token = 0 /\ job'[c].kind # "refresh"
      \/ \E b \in Browsers : jar[b] # 0 /\ job'[c].token = jar[b] /\ job'[c].browser = b
  BY DEF Starts
<1>4. OneJar'
  BY <1>2 DEF TokenInv, OneJar
<1>5. JarOwner'
  BY <1>1, <1>2, <1>3 DEF TokenInv, JarOwner, OneJar
<1>6. Fresh'
  BY <1>1, <1>2, <1>3, NewlyRotated DEF TokenInv, Fresh
<1>7. Awaited'
  BY <1>1, <1>2, TokensInRange DEF TokenInv, Awaited, Awaits, RowsAge, Rotates
<1>8. ASSUME NEW d \in Calls, job'[d].kind = "refresh",
             sessions'[job'[d].token].status = "revoked", ~sessions'[job'[d].token].grace,
             sessions'[job'[d].token].ended = "rotated"
      PROVE  FALSE
  <2>1. job'[d].token \in DOMAIN sessions
    <3>1. CASE d = c
      BY <1>3, <1>8, <3>1, TokensInRange
    <3>2. CASE d # c
      BY <1>1, <1>8, <3>2, TokenTyped
    <3> QED BY <3>1, <3>2
  <2>2. /\ sessions[job'[d].token].status = "revoked" /\ ~sessions[job'[d].token].grace
        /\ sessions[job'[d].token].ended = "rotated"
    BY <1>8, <2>1 DEF RowsAge, Ages, Rotates
  <2>3. \E e \in Calls : job[e].kind = "refresh" /\ job[e].token = job'[d].token
    BY <1>1, <1>3, <1>8, <2>2 DEF TokenInv, Awaited, Awaits
  <2> QED BY <2>2, <2>3 DEF TokenInv, GraceCovers
<1>9. GraceCovers'
  BY <1>8 DEF GraceCovers
<1> QED BY <1>4, <1>5, <1>6, <1>7, <1>9 DEF TokenInv

LEMMA ContinueTokens ==
  ASSUME SessionsTypeOK, Carried, TokenInv, NEW c \in Calls, CallStep(c), RowsAge(c), Continues(c)
  PROVE  TokenInv'
<1>1. \A d \in Calls \ {c} : pc'[d] = pc[d] /\ job'[d] = job[d]
  BY OthersStay
<1>2. /\ jar' = jar /\ pc[c] # "answer"
      /\ job'[c].token = job[c].token /\ job'[c].kind = job[c].kind /\ job'[c].browser = job[c].browser
  BY DEF Continues
<1>3. OneJar' /\ JarOwner'
  BY <1>1, <1>2 DEF TokenInv, OneJar, JarOwner
<1>4. Fresh'
  <2>1. CASE job'[c].issued = job[c].issued
    <3>1. \A d \in Calls : job'[d].token = job[d].token /\ job'[d].issued = job[d].issued
      BY <1>1, <1>2, <2>1
    <3> QED BY <1>2, <3>1, NewlyRotated DEF TokenInv, Fresh
  <2>2. CASE /\ job'[c].issued = Len(sessions) + 1
             /\ Len(sessions) + 1 \in DOMAIN sessions' \ DOMAIN sessions
    <3> DEFINE n == Len(sessions) + 1
    <3>0. /\ n \notin DOMAIN sessions /\ n # 0 /\ n \in DOMAIN sessions' \ DOMAIN sessions
          /\ job'[c].issued = n
      BY <2>2, TokensInRange
    <3> HIDE DEF n
    <3>1. sessions'[n].ended # "rotated"
      BY <3>0 DEF RowsAge
    <3>2. ASSUME NEW d \in Calls PROVE job[d].issued # n /\ job[d].token # n
      <4>1. /\ job[d].issued \in 0..Len(sessions) /\ job[d].token \in 0..Len(sessions)
            /\ Len(sessions) \in Nat
        BY JobTyped, Kept
      <4> QED BY <4>1 DEF n
    <3>3. \A d \in Calls : job'[d].token # n /\ (d # c => job'[d].issued # n)
      BY <1>1, <1>2, <3>2
    <3>4. \A b \in Browsers : jar'[b] # n
      BY <1>2, <3>0, TokensInRange
    <3>5. \A d \in Calls \ {c} : job[d].issued # 0 => sessions'[job[d].issued].ended # "rotated"
      BY NewlyRotated DEF TokenInv
    <3>6. ASSUME NEW d \in Calls, d # c, job'[d].issued # 0
          PROVE  /\ \A b \in Browsers : jar'[b] # job'[d].issued
                 /\ \A e \in Calls : job'[e].token # job'[d].issued
                 /\ \A e \in Calls : e # d => job'[e].issued # job'[d].issued
                 /\ sessions'[job'[d].issued].ended # "rotated"
      BY <1>1, <1>2, <3>0, <3>2, <3>5, <3>6 DEF TokenInv, Fresh
    <3> QED BY <3>0, <3>1, <3>3, <3>4, <3>6 DEF Fresh
  <2> QED BY <2>1, <2>2 DEF Continues
<1>5. Awaited'
  BY <1>1, <1>2, TokensInRange DEF TokenInv, Awaited, Awaits, RowsAge, Rotates
<1>6. ASSUME NEW d \in Calls, job'[d].kind = "refresh"
      PROVE  ~(/\ sessions'[job'[d].token].status = "revoked" /\ ~sessions'[job'[d].token].grace
               /\ sessions'[job'[d].token].ended = "rotated")
  <2>1. job'[d].token = job[d].token /\ job[d].kind = "refresh" /\ job[d].token \in DOMAIN sessions
    BY <1>1, <1>2, <1>6, TokenTyped
  <2> QED BY <2>1 DEF TokenInv, GraceCovers, RowsAge, Ages, Rotates
<1>7. GraceCovers'
  BY <1>6 DEF GraceCovers
<1> QED BY <1>3, <1>4, <1>5, <1>7 DEF TokenInv

LEMMA EndTokens ==
  ASSUME SessionsTypeOK, Carried, TokenInv, NEW c \in Calls, CallStep(c), RowsAge(c), Ends(c)
  PROVE  TokenInv'
<1> DEFINE home == job[c].browser
<1>1. \A d \in Calls \ {c} : pc'[d] = pc[d] /\ job'[d] = job[d]
  BY OthersStay
<1>2. job'[c].token = 0 /\ job'[c].issued = 0 /\ job'[c].kind = "none"
  BY DEF Ends
<1>3. /\ \A b \in Browsers \ {home} : jar'[b] = jar[b]
      /\ jar'[home] \in {jar[home], 0, job[c].issued} /\ home \in Browsers
  BY JobTyped, TokensInRange DEF Ends, Drops, Answered
<1>4. OneJar'
  BY <1>3 DEF TokenInv, OneJar, Fresh
<1>5. JarOwner'
  BY <1>1, <1>2, <1>3 DEF TokenInv, JarOwner, Fresh
<1>6. Fresh'
  BY <1>1, <1>2, <1>3, NewlyRotated DEF TokenInv, Fresh
<1>7. \A t \in DOMAIN sessions : sessions'[t].ended = "rotated" => sessions[t].ended = "rotated"
  BY <1>2 DEF RowsAge, Rotates
<1>8. ASSUME NEW b \in Browsers, jar'[b] # 0, sessions'[jar'[b]].ended = "rotated"
      PROVE  \E d \in Calls : pc'[d] = "answer" /\ job'[d].kind = "refresh" /\ job'[d].token = jar'[b]
  <2>1. jar'[b] = jar[b] /\ (Drops(c) \/ b # home)
    <3>1. CASE jar'[b] = job[c].issued
      BY <1>8, <3>1, NewlyRotated DEF TokenInv
    <3>2. CASE jar'[b] # job[c].issued
      <4>1. Answered(c) => jar'[home] = job[c].issued
        BY <1>3, TokensInRange DEF Answered
      <4> QED BY <1>3, <1>8, <3>2, <4>1 DEF Ends
    <3> QED BY <3>1, <3>2
  <2>2. jar[b] \in DOMAIN sessions /\ sessions[jar[b]].ended = "rotated"
    BY <1>7, <1>8, <2>1, TokensInRange
  <2>3. PICK e \in Calls : Awaits(e, jar[b])
    BY <1>8, <2>1, <2>2 DEF TokenInv, Awaited
  <2>4. \E d \in Calls \ {c} : Awaits(d, jar[b])
    <3>1. CASE e # c
      BY <2>3, <3>1
    <3>2. CASE e = c
      <4>1. job[c].token = jar[b] /\ b = home
        BY <1>8, <2>1, <2>3, <3>2 DEF TokenInv, JarOwner, Awaits
      <4>2. jar'[home] # 0 /\ Drops(c)
        BY <1>8, <2>1, <4>1
      <4>3. ~LastHope(c)
        BY <1>3, <1>8, <2>1, <4>1, <4>2, TokensInRange DEF Drops
      <4> QED BY <2>3, <3>2, <4>1, <4>3 DEF LastHope
    <3> QED BY <3>1, <3>2
  <2> QED BY <1>1, <2>1, <2>4 DEF Awaits
<1>9. Awaited'
  BY <1>8 DEF Awaited, Awaits
<1>10. ASSUME NEW d \in Calls, job'[d].kind = "refresh"
       PROVE  ~(/\ sessions'[job'[d].token].status = "revoked" /\ ~sessions'[job'[d].token].grace
                /\ sessions'[job'[d].token].ended = "rotated")
  <2>1. d # c
    BY <1>2, <1>10
  <2>2. job'[d].token = job[d].token /\ job[d].kind = "refresh" /\ job[d].token \in DOMAIN sessions
    BY <1>1, <1>10, <2>1, TokenTyped
  <2> QED BY <1>7, <2>2 DEF TokenInv, GraceCovers, RowsAge, Ages
<1>11. GraceCovers'
  BY <1>10 DEF GraceCovers
<1> QED BY <1>4, <1>5, <1>6, <1>9, <1>11 DEF TokenInv

(* Where a decision against the browser is taken.                          *)
LEMMA CallDecides ==
  ASSUME SessionsTypeOK, NEW c \in Calls, CallStep(c), pc'[c] \in {"expire", "refused"}
  PROVE  FindSession(c) \/ MarkExpired(c)
<1>1. CASE \/ \E q \in Requests : Ask(c, q) \/ \E l \in DOMAIN links : OpenLink(c, q, l)
           \/ \E b \in Browsers : Leave(c, b) \/ Navigate(c, b)
  <2>1. ASSUME NEW step \in {"read", "find"}, NEW j, Start(c, step, j) PROVE FALSE
    <3>1. pc'[c] = step
      BY <2>1, AtStep
    <3> QED BY <3>1
  <2>2. CASE \E q \in Requests : Ask(c, q) \/ \E l \in DOMAIN links : OpenLink(c, q, l)
    BY <2>1, <2>2 DEF Ask, OpenLink
  <2>3. CASE \E b \in Browsers : Leave(c, b) \/ Navigate(c, b)
    BY <2>1, <2>3 DEF Leave, Navigate
  <2> QED BY <1>1, <2>2, <2>3
<1>2. CASE FindLink(c) \/ SpendLink(c) \/ ReadUser(c)
  BY <1>2, AtStep DEF FindLink, SpendLink, ReadUser, Refuse
<1>3. CASE CommitVerified(c) \/ CommitRegistered(c) \/ CommitReset(c) \/ CommitPassword(c)
  BY <1>3, AtStep DEF CommitVerified, CommitRegistered, CommitReset, CommitPassword, Refuse
<1>4. CASE OpenSession(c) \/ Rotate(c) \/ Revoke(c) \/ RevokeFails(c)
  BY <1>4, AtStep DEF OpenSession, Rotate, Revoke, RevokeFails
<1>5. CASE Fail(c) \/ Stop(c) \/ SignedOut(c) \/ Answer(c) \/ DropCookies(c)
  BY <1>5, AtStep DEF Fail, Stop, SignedOut, Answer, DropCookies
<1> QED BY <1>1, <1>2, <1>3, <1>4, <1>5 DEF CallStep, Handle

IsEnded(s) == s.overdue \/ s.ended \in FinalEnds

RefusalInv ==
  /\ RowsSound /\ ExpireIsDue
  /\ \A c \in Calls : pc[c] = "refused" => IsEnded(sessions[job[c].token])

LEMMA CallRefuses ==
  ASSUME SessionsTypeOK, Carried, TokenInv, RefusalInv, NEW c \in Calls, CallStep(c), RowsAge(c)
  PROVE  RefusalInv'
<1>1. RowsSound'
  BY DEF RefusalInv, RowsSound, RowsAge, Ages, Sound
<1>2. ASSUME NEW d \in Calls, pc'[d] \in {"expire", "refused"}
      PROVE  /\ pc'[d] = "expire" => sessions'[job'[d].token].overdue
             /\ pc'[d] = "refused" => IsEnded(sessions'[job'[d].token])
  <2>1. CASE d # c
    <3>1. pc'[d] = pc[d] /\ job'[d] = job[d]
      BY <2>1, OthersStay
    <3>2. job[d].token \in DOMAIN sessions
      BY <1>2, <3>1, TokenTyped DEF Carried, Carries
    <3>3. Ages(sessions[job[d].token], sessions'[job[d].token])
      BY <3>2 DEF RowsAge
    <3> QED BY <3>1, <3>3 DEF RefusalInv, ExpireIsDue, IsEnded, Ages
  <2>2. CASE d = c /\ FindSession(c)
    <3> DEFINE s == sessions[job[c].token]
    <3>1. /\ sessions' = sessions /\ job' = job /\ job[c].kind = "refresh"
          /\ pc'[c] = Decision(s)
      BY <2>2, AtStep DEF FindSession
    <3>2. job[c].token \in DOMAIN sessions /\ s \in Session
      BY <3>1, TokenTyped
    <3>3. Sound(s) /\ ~(s.status = "revoked" /\ ~s.grace /\ s.ended = "rotated")
      BY <3>1, <3>2 DEF RefusalInv, RowsSound, TokenInv, GraceCovers
    <3>4. /\ Decision(s) = "expire" => s.overdue
          /\ Decision(s) = "refused" => IsEnded(s)
      BY <3>2, <3>3 DEF Decision, Sound, IsEnded, FinalEnds, Session
    <3> QED BY <2>2, <3>1, <3>4
  <2>3. CASE d = c /\ MarkExpired(c)
    <3>1. pc[c] = "expire" /\ pc'[c] = "refused" /\ job' = job
      BY <2>3, AtStep DEF MarkExpired
    <3>2. job[c].token \in DOMAIN sessions
      BY <3>1, TokenTyped DEF Carried, Carries
    <3>3. Ages(sessions[job[c].token], sessions'[job[c].token])
      BY <3>2 DEF RowsAge
    <3> QED BY <2>3, <3>1, <3>3 DEF RefusalInv, ExpireIsDue, IsEnded, Ages
  <2> QED BY <1>2, <2>1, <2>2, <2>3, CallDecides
<1> QED BY <1>1, <1>2 DEF RefusalInv, ExpireIsDue

(* Time passes: a token leaves its grace period once nobody carries it.    *)
LEMMA TimeRefuses ==
  ASSUME SessionsTypeOK, Carried, TokenInv, RefusalInv, TimeStep
  PROVE  TokenInv' /\ RefusalInv'
<1>1. PICK t \in Held \ {0} : GraceEnds(t) \/ FallsDue(t)
  BY DEF TimeStep
<1>2. UNCHANGED <<jar, pc, job>>
  BY <1>1 DEF GraceEnds, FallsDue
<1>3. DOMAIN sessions' = DOMAIN sessions /\ sessions \in Seq(Session)
  BY <1>1 DEF GraceEnds, FallsDue, SessionsTypeOK
<1>4. ASSUME NEW i \in DOMAIN sessions
      PROVE  /\ sessions'[i].status = sessions[i].status /\ sessions'[i].ended = sessions[i].ended
             /\ sessions[i].overdue => sessions'[i].overdue
             /\ ~sessions'[i].grace => ~sessions[i].grace \/ (i = t /\ GraceEnds(t))
  <2>1. sessions[i] \in Session
    BY SessionTyped
  <2>2. \/ sessions'[i] = sessions[i]
        \/ sessions'[i] = [sessions[i] EXCEPT !.overdue = TRUE]
        \/ i = t /\ GraceEnds(t) /\ sessions'[i] = [sessions[i] EXCEPT !.grace = FALSE]
    BY <1>1, <1>3 DEF GraceEnds, FallsDue
  <2> QED BY <2>1, <2>2 DEF Session
<1>5. OneJar' /\ JarOwner'
  BY <1>2 DEF TokenInv, OneJar, JarOwner
<1>6. Fresh' /\ Awaited'
  <2>1. ASSUME NEW c \in Calls, job[c].issued # 0
        PROVE  sessions'[job[c].issued].ended = sessions[job[c].issued].ended
    <3>1. /\ job[c].issued \in 0..Len(sessions) /\ DOMAIN sessions = 1..Len(sessions)
          /\ Len(sessions) \in Nat
      BY JobTyped, Kept
    <3>2. job[c].issued \in DOMAIN sessions
      BY <2>1, <3>1
    <3> QED BY <1>4, <3>2
  <2>2. \A b \in Browsers : jar[b] # 0 => sessions'[jar[b]].ended = sessions[jar[b]].ended
    BY <1>4, TokensInRange
  <2> QED BY <1>2, <2>1, <2>2 DEF TokenInv, Fresh, Awaited, Awaits
<1>7. ASSUME NEW c \in Calls, job[c].kind = "refresh"
      PROVE  ~(/\ sessions'[job[c].token].status = "revoked" /\ ~sessions'[job[c].token].grace
               /\ sessions'[job[c].token].ended = "rotated")
  <2>1. job[c].token \in DOMAIN sessions
    BY <1>7, TokenTyped
  <2>2. ~(job[c].token = t /\ GraceEnds(t))
    BY <1>7 DEF GraceEnds
  <2> QED BY <1>4, <1>7, <2>1, <2>2 DEF TokenInv, GraceCovers
<1>8. GraceCovers'
  BY <1>2, <1>7 DEF GraceCovers
<1>9. RowsSound'
  BY <1>3, <1>4 DEF RefusalInv, RowsSound, Sound
<1>10. ASSUME NEW c \in Calls, pc[c] \in {"expire", "refused"}
       PROVE  /\ sessions[job[c].token].overdue => sessions'[job[c].token].overdue
              /\ IsEnded(sessions[job[c].token]) => IsEnded(sessions'[job[c].token])
  <2>1. job[c].token \in DOMAIN sessions
    BY <1>10, TokenTyped DEF Carried, Carries
  <2> QED BY <1>4, <2>1 DEF IsEnded
<1> QED BY <1>2, <1>5, <1>6, <1>8, <1>9, <1>10 DEF TokenInv, RefusalInv, ExpireIsDue

LEMMA StepRefuses ==
  ASSUME SessionsTypeOK, Carried, TokenInv, RefusalInv, [Next]_vars
  PROVE  TokenInv' /\ RefusalInv'
<1>1. CASE People \/ UNCHANGED vars
  <2>1. UNCHANGED <<sessions, jar, pc, job>>
    BY <1>1 DEF People, vars
  <2>2. TokenInv'
    BY <2>1 DEF TokenInv, OneJar, JarOwner, Fresh, Awaited, Awaits, GraceCovers
  <2>3. RefusalInv'
    BY <2>1 DEF RefusalInv, RowsSound, Sound, ExpireIsDue, IsEnded
  <2> QED BY <2>2, <2>3
<1>2. CASE TimeStep
  BY <1>2, TimeRefuses
<1>3. CASE \E c \in Calls : CallStep(c)
  <2>1. PICK c \in Calls : CallStep(c)
    BY <1>3
  <2>2. RowsAge(c)
    BY <2>1, CallRows DEF RefusalInv
  <2>3. TokenInv'
    BY <2>1, <2>2, CallMoves, StartTokens, ContinueTokens, EndTokens
  <2> QED BY <2>1, <2>2, <2>3, CallRefuses
<1> QED BY <1>1, <1>2, <1>3, StepsOfNext

LEMMA RefusalsStart ==
  ASSUME Init
  PROVE  TokenInv /\ RefusalInv
<1>1. NoJob.token = 0 /\ NoJob.issued = 0 /\ NoJob.kind = "none"
  BY DEF NoJob
<1>2. \A c \in Calls : pc[c] = "idle" /\ job[c] = NoJob
  BY DEF Init
<1>3. /\ DOMAIN sessions = DOMAIN SignedIn
      /\ \A i \in DOMAIN sessions : sessions[i].status = "active" /\ sessions[i].ended = "no"
  BY DEF Init, NewSession
<1>4. \A b \in Browsers : jar[b] # 0 => jar[b] \in DOMAIN SignedIn
  <2>1. SessionsTypeOK
    BY SessionsStart
  <2> QED BY <1>3, <2>1, TokensInRange
<1>5. OneJar
  BY <1>4 DEF Init, OneJar
<1>6. JarOwner /\ Fresh /\ GraceCovers
  BY <1>1, <1>2 DEF JarOwner, Fresh, GraceCovers
<1>7. Awaited
  BY <1>3, <1>4 DEF Awaited
<1>8. RefusalInv
  BY <1>2, <1>3 DEF RefusalInv, RowsSound, Sound, ExpireIsDue
<1> QED BY <1>5, <1>6, <1>7, <1>8 DEF TokenInv

(* A browser's own tabs do not sign it out: whoever is refused asked about *)
(* a session that a logout, a reset, its age or an answer that never came  *)
(* had ended (REFRESH_REUSE_GRACE_MS, AuthService.refresh).                *)
THEOREM RefusalsAreEnded == Spec => []RefusedOnlyIfEnded
<1> DEFINE Inv == SessionsTypeOK /\ Carried /\ TokenInv /\ RefusalInv
<1>1. Init => Inv
  BY SessionsStart, RefusalsStart
<1>2. Inv /\ [Next]_vars => Inv'
  BY StepTypes, StepCarries, StepRefuses
<1>3. Inv => RefusedOnlyIfEnded
  BY DEF RefusalInv, RefusedOnlyIfEnded, IsEnded, FinalEnds
<1> HIDE DEF Inv
<1> QED BY <1>1, <1>2, <1>3, PTL DEF Spec
=============================================================================
