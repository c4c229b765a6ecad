-------------------------- MODULE UsernameAnswers --------------------------
(***************************************************************************)
(* What callers of UsernameRegistry are told.  changeUsername of           *)
(* src/username/username.service.ts answers from rows it read before its   *)
(* transaction; after a conflict it reads the account again and answers    *)
(* with success if the account is already on the name (convergedResponse). *)
(*                                                                         *)
(* The registry's steps are unchanged; a request whose tables are done but *)
(* whose second read is not waits in pend, and cannot be reused.  A change *)
(* refused on what loadState read does not start.                          *)
(***************************************************************************)
EXTENDS UsernameRegistry

ASSUME AnswersAssumption == IsFiniteSet(Usernames)

VARIABLES pend,     \* requests before their second read
          since,    \* history: of each change, what loadState returned and
                    \* the names its account has been on from then on
          reply     \* the answer given in the last step, with that history

answerVars == <<vars, pend, since, reply>>

Errors == {"USERNAME_TAKEN", "CHANGE_IN_PROGRESS"}
None   == [error |-> "none"]
Pending == [error : Errors, user : Users, name : Usernames]
Replies == [code : {"OK"} \cup Errors, user : Users, name : Usernames,
            used : Nat, limit : Nat, been : SUBSET Usernames]
NoReply == [code |-> "none"]

AnswersTypeOK ==
  /\ TypeOK
  /\ pend \in [Requests -> Pending \cup {None}]
  /\ \A r \in Requests : /\ since[r].rows \in Nat /\ since[r].limit \in Nat
                         /\ since[r].been \subseteq Usernames
  /\ reply \in Replies \cup {NoReply}

NotSince == [rows |-> 0, limit |-> 0, been |-> {}]

AnswersInit == /\ Init
               /\ pend = [r \in Requests |-> None]
               /\ since = [r \in Requests |-> NotSince]
               /\ reply = NoReply

-----------------------------------------------------------------------------
(* The names u is on.                                                       *)
Active(u) == {n \in Owned(u) : names[n].active}

(* Mutant: the first name counts as a change.                               *)
UsedAll(rows) == rows

(* buildQuota of `rows' names.                                              *)
Used(rows) == IF rows = 0 THEN 0 ELSE rows - 1

(* The account of change r, in the registry or waiting.                     *)
AccountOf(r) == IF pend[r] # None THEN {pend[r].user}
                ELSE IF req[r].pc \in {"advisory", "change"} THEN {req[r].user} ELSE {}

(* Every change in flight goes on recording where its account is.           *)
Recorded == [r \in Requests |->
               [since[r] EXCEPT !.been = @ \cup UNION {Active(u)' : u \in AccountOf(r)}]]
Answer(r, code, u, n, rows, limit) ==
  [code |-> code, user |-> u, name |-> n, used |-> Used(rows), limit |-> limit,
   been |-> Recorded[r].been]

Keep == since' = Recorded
Forget(r) == since' = [Recorded EXCEPT ![r] = NotSince]

-----------------------------------------------------------------------------
Start(r, u, n) ==
  /\ pend[r] = None
  /\ ChangeStart(r, u, n)
  /\ since' = [Recorded EXCEPT ![r] = [rows |-> Cardinality(Owned(u)), limit |-> Limit(u),
                                       been |-> Active(u)]]
  /\ reply' = NoReply
  /\ UNCHANGED pend

(* The advisory look finds a row: of another account, or of this one, made  *)
(* by a concurrent request.                                                 *)
NameCheck(r) ==
  /\ ChangeNameCheck(r)
  /\ LET c == req[r]
         owner == names[c.name].user
     IN  \/ /\ owner = NoUser
            /\ UNCHANGED pend /\ Keep /\ reply' = NoReply
         \/ /\ owner = c.user
            /\ pend' = [pend EXCEPT ![r] = [error |-> "USERNAME_TAKEN", user |-> c.user,
                                            name |-> c.name]]
            /\ Keep /\ reply' = NoReply
         \/ /\ owner \notin {NoUser, c.user}
            /\ reply' = Answer(r, "USERNAME_TAKEN", c.user, c.name, 0, 0)
            /\ Forget(r) /\ UNCHANGED pend

(* Mutant: every conflict is taken for one on activePubKey.                 *)
ViolatedUntold(c) == IF c.owned \/ names[c.name] = Free THEN {} ELSE {"CHANGE_IN_PROGRESS"}

(* Mutant: the index itself is answered.                                    *)
ViolatedIndex(c) ==
  LET key == IF c.owned THEN names[c.name].key ELSE names[c.from].key
  IN  {i \in {"username", "activePubKey"} :
         IF i = "username" THEN ~c.owned /\ names[c.name] # Free
                           ELSE ~KeyAdmitted(Retired(c.from), c.name, key)}

(* The unique indexes a change may violate: the database names one of them. *)
Violated(c) ==
  LET key == IF c.owned THEN names[c.name].key ELSE names[c.from].key
  IN  {e \in Errors :
         IF e = "USERNAME_TAKEN" THEN ~c.owned /\ names[c.name] # Free
                                 ELSE ~KeyAdmitted(Retired(c.from), c.name, key)}

(* The transaction commits and the answer is made of the rows read before   *)
(* it, or it violates an index and the account is read again.               *)
Commit(r) ==
  /\ ChangeCommit(r)
  /\ LET c == req[r]
     IN  \/ /\ Violated(c) = {}
            /\ reply' = Answer(r, "OK", c.user, c.name,
                               since[r].rows + (IF c.owned THEN 0 ELSE 1), since[r].limit)
            /\ Forget(r) /\ UNCHANGED pend
         \/ \E e \in Violated(c) :
              /\ pend' = [pend EXCEPT ![r] = [error |-> e, user |-> c.user, name |-> c.name]]
              /\ Keep /\ reply' = NoReply

(* Mutant: owning the name is enough.                                       *)
ConvergedIfOwned(r) ==
  /\ pend[r] # None
  /\ UNCHANGED vars
  /\ LET u == pend[r].user
         n == pend[r].name
     IN  reply' = IF n \in Owned(u)
                  THEN Answer(r, "OK", u, n, Cardinality(Owned(u)), Limit(u))
                  ELSE Answer(r, pend[r].error, u, n, 0, 0)
  /\ pend' = [pend EXCEPT ![r] = None]
  /\ Forget(r)

(* convergedResponse, and the error the conflict stands for.                *)
ConvergedResponse(r) ==
  /\ pend[r] # None
  /\ UNCHANGED vars
  /\ LET u == pend[r].user
         n == pend[r].name
     IN  reply' = IF n \in Active(u)
                  THEN Answer(r, "OK", u, n, Cardinality(Owned(u)), Limit(u))
                  ELSE Answer(r, pend[r].error, u, n, 0, 0)
  /\ pend' = [pend EXCEPT ![r] = None]
  /\ Forget(r)

(* Everything else the registry does; a waiting request may die too.        *)
Other ==
  /\ \/ \E k1 \in Nonces : GenerateAuthChallenge(k1) \/ Expire(k1) \/ PurgeExpired(k1)
     \/ \E u \in Users, amount \in 1..MaxBonus : GrantExtraChanges(u, amount)
     \/ \E r \in Requests :
          \/ /\ pend[r] = None
             /\ \E k1 \in Nonces, key \in Keys, n \in Usernames : RegisterStart(r, k1, key, n)
          \/ RejectKeyWithActiveName(r) \/ RegisterNameCheck(r) \/ RegisterCommit(r)
  /\ Keep /\ reply' = NoReply
  /\ UNCHANGED pend

Die(r) ==
  /\ \/ Abort(r) /\ UNCHANGED pend
     \/ pend[r] # None /\ pend' = [pend EXCEPT ![r] = None] /\ UNCHANGED vars
  /\ Forget(r) /\ reply' = NoReply

AnswersNext ==
  \/ \E r \in Requests :
       \/ \E u \in Users, n \in Usernames : Start(r, u, n)
       \/ NameCheck(r) \/ Commit(r) \/ ConvergedResponse(r) \/ Die(r)
  \/ Other

AnswersSpec == AnswersInit /\ [][AnswersNext]_answerVars

-----------------------------------------------------------------------------
(* "if the winner made the change this request was asking for, the caller's *)
(* intent is satisfied and an error would be false": success means that the *)
(* account has been on the name since the request began, by whichever       *)
(* request, and USERNAME_TAKEN that the name is not free and the account is *)
(* not on it.                                                               *)
AnswersAreTrue ==
  /\ reply.code = "OK" => reply.name \in reply.been
  /\ reply.code = "USERNAME_TAKEN" => /\ names[reply.name] # Free
                                      /\ reply.name \notin Active(reply.user)

(* "Another username change for this account was processed first": whoever  *)
(* is told CHANGE_IN_PROGRESS lost to a change of the same account, never   *)
(* to another account or a registration.                                    *)
InProgressIsTrue ==
  reply.code = "CHANGE_IN_PROGRESS" => Cardinality(reply.been) > 1

(* The quota in an answer may be behind the tables but never ahead of them: *)
(* no account is told it has used more changes than it has, or been granted *)
(* more than it was.                                                        *)
QuotaNotOverstated ==
  reply.code = "OK" => /\ reply.used <= Cardinality(Owned(reply.user)) - 1
                       /\ reply.limit <= Limit(reply.user)
=============================================================================
