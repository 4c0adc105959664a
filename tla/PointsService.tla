---------------------------- MODULE PointsService ----------------------------
(***************************************************************************)
(* Concurrent calls of PointsService.post.  A call runs either in a        *)
(* Serializable transaction of its own (the admin's adjustment, a signup   *)
(* bonus) or inside its caller's transaction (a redemption, an attendance).*)
(* Callers retry with the same parameters: a reply can be lost after the   *)
(* commit, the process can stop before it, and PostgreSQL can refuse it.   *)
(***************************************************************************)
EXTENDS PointsTables

CONSTANTS
  Calls,      \* slots for calls in flight
  Requests,   \* the parameters callers use
  NoReply

Isolations == {"own", "callers"}

ASSUME RequestsAreCalls ==
  /\ Requests # {}
  /\ Requests \subseteq [user : Users, key : Keys, delta : Amounts, isolation : Isolations]
ASSUME NoReplyIsNoEntry == NoReply \notin Entry

VARIABLES
  pc,        \* where each call stands
  params,    \* its PostParams
  seen,      \* how many postings of its user its snapshot holds
  reply      \* the posting it was answered with

vars == <<balance, ledger, pc, params, seen, reply>>

ServiceTypeOK ==
  /\ TablesTypeOK
  /\ pc \in [Calls -> {"idle", "called", "writing", "aborted", "answered", "rejected"}]
  /\ params \in [Calls -> Requests]
  /\ seen \in [Calls -> Nat]
  /\ reply \in [Calls -> Entry \cup {NoReply}]

Init ==
  /\ TablesInit
  /\ pc = [c \in Calls |-> "idle"]
  /\ params = [c \in Calls |-> CHOOSE r \in Requests : TRUE]    \* unread until Call
  /\ seen = [c \in Calls |-> 0]
  /\ reply = [c \in Calls |-> NoReply]

(* A caller comes with new parameters, whatever its slot did before.       *)
Call(c) ==
  /\ pc[c] \in {"idle", "answered", "rejected"}
  /\ \E r \in Requests : params' = [params EXCEPT ![c] = r]
  /\ pc' = [pc EXCEPT ![c] = "called"]
  /\ reply' = [reply EXCEPT ![c] = NoReply]
  /\ UNCHANGED <<balance, ledger, seen>>

(* What a Serializable snapshot remembers of the account: its row version, *)
(* which moves with every posting.  The mutant takes the balance for it.   *)
MutantSnapshotOf(u) == balance[u]

SnapshotOf(u) == Len(ledger[u])

(* post: the lookup by key answers a repeated call; an unusable amount or  *)
(* a blocked account is refused; otherwise the call goes on to write, in a *)
(* transaction whose snapshot, if it has one, is the one of this lookup.   *)
Lookup(c) ==
  /\ pc[c] = "called"
  /\ \/ /\ params[c].delta = 0
        /\ pc' = [pc EXCEPT ![c] = "rejected"]
        /\ UNCHANGED <<seen, reply>>
     \/ /\ params[c].delta # 0
        /\ \E e \in EntriesOf(params[c].key) : reply' = [reply EXCEPT ![c] = e]
        /\ pc' = [pc EXCEPT ![c] = "answered"]
        /\ UNCHANGED seen
     \/ /\ params[c].delta # 0
        /\ ~KeyUsed(params[c].key)
        /\ IF params[c].user \in Blocked
             THEN pc' = [pc EXCEPT ![c] = "rejected"] /\ UNCHANGED seen
             ELSE /\ pc' = [pc EXCEPT ![c] = "writing"]
                  /\ seen' = [seen EXCEPT ![c] = SnapshotOf(params[c].user)]
        /\ UNCHANGED reply
  /\ UNCHANGED <<balance, ledger, params>>

(* The commit of a Serializable transaction needs the account row to be    *)
(* the one of its snapshot; the unique key refuses the second insert in    *)
(* either isolation.                                                       *)
MutantMayCommit(c) ==
  params[c].isolation = "own" => SnapshotOf(params[c].user) = seen[c]

MayCommit(c) ==
  /\ ~KeyUsed(params[c].key)
  /\ params[c].isolation = "own" => SnapshotOf(params[c].user) = seen[c]

(* The winner's posting is re-read in the catch block, but the transaction *)
(* is already aborted there: the loser ends with an error.                 *)
Commit(c) ==
  /\ pc[c] = "writing"
  /\ MayCommit(c)
  /\ LET r == params[c] IN
       /\ PostEntry(r.user, r.key, r.delta)
       /\ \/ /\ pc' = [pc EXCEPT ![c] = "answered"]
             /\ reply' = [reply EXCEPT ![c] =
                            [key |-> r.key, delta |-> r.delta, after |-> balance[r.user] + r.delta]]
          \/ /\ pc' = [pc EXCEPT ![c] = "aborted"]    \* committed, the answer lost
             /\ UNCHANGED reply
  /\ seen' = [seen EXCEPT ![c] = 0]
  /\ UNCHANGED params

(* Refused by PostgreSQL (P2002, P2034), or the process stops: rolled back.*)
Abort(c) ==
  /\ pc[c] \in {"called", "writing"}
  /\ pc' = [pc EXCEPT ![c] = "aborted"]
  /\ seen' = [seen EXCEPT ![c] = 0]
  /\ UNCHANGED <<balance, ledger, params, reply>>

(* The caller tries again with the same parameters, hence the same key.    *)
Retry(c) ==
  /\ pc[c] = "aborted"
  /\ pc' = [pc EXCEPT ![c] = "called"]
  /\ UNCHANGED <<balance, ledger, params, seen, reply>>

Next == \E c \in Calls :
  \/ Call(c)
  \/ Lookup(c)
  \/ Commit(c)
  \/ Abort(c)
  \/ Retry(c)

Spec == Init /\ [][Next]_vars

-----------------------------------------------------------------------------
(* Two calls with one key are told of one and the same posting, and it is  *)
(* in the ledger: a caller who retries after a lost answer learns what its *)
(* first attempt did, never a second posting.                              *)
RepliesAreThePosting ==
  /\ \A c \in Calls : reply[c] # NoReply => reply[c] \in EntriesOf(params[c].key)
  /\ \A c, d \in Calls :
       reply[c] # NoReply /\ reply[d] # NoReply /\ params[c].key = params[d].key
         => reply[c] = reply[d]
=============================================================================
