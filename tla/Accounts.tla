------------------------------- MODULE Accounts -------------------------------
(***************************************************************************)
(* User rows and one-time links: UsersService and LoginChallengeService.   *)
(* A user is her e-mail address; the row of one who has none is "absent".  *)
(* An administrator's invitation leaves a pending shell with no password   *)
(* and no check-in code; a verified link or a registration activates it    *)
(* and posts the welcome bonus.                                            *)
(*                                                                         *)
(* A transaction here reads the row and later commits: the operators take  *)
(* what it saw.  At Read Committed an update waits for the row and then    *)
(* applies to its newest version, an insert of a taken e-mail fails.       *)
(***************************************************************************)
EXTENDS PointsTables

CONSTANTS
  Members,     \* users that have an account at the start
  Passwords,
  NoPassword,
  FirstPassword,  \* what the members chose when they registered
  Bonus,       \* WELCOME_BONUS_POINTS
  MaxLinks     \* bound on links sent

ASSUME AccountConstants ==
  /\ Members \subseteq Users /\ Users \subseteq Keys
  /\ NoPassword \notin Passwords /\ FirstPassword \in Passwords
  /\ Bonus \in Nat \ {0} /\ Bonus \in Amounts
  /\ MaxLinks \in Nat

VARIABLES
  account,  \* users: status, whether there is a check-in code, password
  links     \* login_challenges, in the order they were issued

accounts == <<tables, account, links>>

Account  == [status : {"absent", "pending", "active"}, coded : BOOLEAN,
             password : Passwords \cup {NoPassword}]
Purposes == {"login", "password_reset"}
Link     == [user : Users, purpose : Purposes, consumed : BOOLEAN, lapsed : BOOLEAN]

AccountsTypeOK ==
  /\ TablesTypeOK
  /\ account \in [Users -> Account]
  /\ links \in Seq(Link) /\ Len(links) <= MaxLinks

NoAccount == [status |-> "absent", coded |-> FALSE, password |-> NoPassword]

(* A member registered: she is active, has a code and a password, and was  *)
(* given the bonus.                                                        *)
AccountsInit ==
  /\ account = [u \in Users |->
                  IF u \in Members
                    THEN [status |-> "active", coded |-> TRUE, password |-> FirstPassword]
                    ELSE NoAccount]
  /\ balance = [u \in Users |-> IF u \in Members THEN Bonus ELSE 0]
  /\ ledger = [u \in Users |-> IF u \in Members
                                 THEN <<[key |-> u, delta |-> Bonus, after |-> Bonus]>>
                                 ELSE <<>>]
  /\ links = <<>>

-----------------------------------------------------------------------------
(* awardSignupBonus in the activating transaction: the key is the user.    *)
Welcome(u) == IF KeyUsed(u) THEN UNCHANGED tables ELSE PostEntry(u, u, Bonus)

Store(u, row) == account' = [account EXCEPT ![u] = row]

(* findUnique found no row and the insert finds one: a unique violation.   *)
Taken(u, saw) == saw = "absent" /\ account[u].status # "absent"

(* ensureFromVerifiedEmail: the bonus is decided by the row that was read, *)
(* the check-in code filled in on the row there is.                        *)
Ensure(u, saw) ==
  /\ ~Taken(u, saw)
  /\ Store(u, [account[u] EXCEPT !.status = "active", !.coded = TRUE])
  /\ IF saw = "active" THEN UNCHANGED tables ELSE Welcome(u)
  /\ UNCHANGED links

(* Registration leaves the bonus to the first verified login, which never  *)
(* sees the account pending again.                                         *)
MutantRegister(u, saw, p) ==
  /\ ~Taken(u, saw)
  /\ Store(u, [status |-> "active", coded |-> TRUE, password |-> p])
  /\ UNCHANGED <<tables, links>>

(* registerWithPassword, once it has read a row that is not active.        *)
Register(u, saw, p) ==
  /\ ~Taken(u, saw)
  /\ Store(u, [status |-> "active", coded |-> TRUE, password |-> p])
  /\ Welcome(u)
  /\ UNCHANGED links

(* findOrCreatePending: no code, no bonus.                                 *)
Invite(u) ==
  /\ account[u].status = "absent"
  /\ Store(u, [NoAccount EXCEPT !.status = "pending"])
  /\ UNCHANGED <<tables, links>>

(* findByIdWithRelations, on each read of /me: the code is filled in.      *)
BackfillCode(u) ==
  /\ account[u].status # "absent" /\ ~account[u].coded
  /\ Store(u, [account[u] EXCEPT !.coded = TRUE])
  /\ UNCHANGED <<tables, links>>

-----------------------------------------------------------------------------
(* issue: a login link to any address, a reset link only to one with an    *)
(* account.                                                                *)
Issue(u, purpose) ==
  /\ Len(links) < MaxLinks
  /\ purpose = "password_reset" => account[u].status # "absent"
  /\ links' = Append(links, [user |-> u, purpose |-> purpose, consumed |-> FALSE, lapsed |-> FALSE])
  /\ UNCHANGED <<tables, account>>

(* expiresAt passes. *)
Lapse(l) ==
  /\ ~links[l].lapsed
  /\ links' = [links EXCEPT ![l].lapsed = TRUE]
  /\ UNCHANGED <<tables, account>>

(* consume reads the challenge and checks it ...                           *)
Spendable(l, purpose) ==
  links[l].purpose = purpose /\ ~links[l].consumed /\ ~links[l].lapsed

(* An update by id: whoever read the link unspent spends it.               *)
MutantConsume(l) ==
  /\ links' = [links EXCEPT ![l].consumed = TRUE]
  /\ UNCHANGED <<tables, account>>

(* ... then updates it where consumedAt is still null.                     *)
Consume(l) ==
  /\ ~links[l].consumed
  /\ links' = [links EXCEPT ![l].consumed = TRUE]
  /\ UNCHANGED <<tables, account>>

-----------------------------------------------------------------------------
(* Whoever is active was welcomed: she has her bonus, once, and a code to  *)
(* check in with; nobody else has been paid one.  However registrations,   *)
(* verified links and invitations of one address overlap, one activation   *)
(* counts (UsersService, awardSignupBonus).                                *)
ActivatedIsWelcomed ==
  \A u \in Users :
    /\ account[u].status = "active" => account[u].coded
    /\ Len(ledger[u]) = (IF account[u].status = "active" THEN 1 ELSE 0)
=============================================================================
