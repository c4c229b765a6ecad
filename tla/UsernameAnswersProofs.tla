----------------------- MODULE UsernameAnswersProofs -----------------------
(***************************************************************************)
(* Proofs about the answers of username changes, for any number of         *)
(* accounts, names and concurrent requests.  Answers change nothing in the *)
(* registry, so its invariant carries over; what is added relates each     *)
(* change in flight, and each one waiting for its second read, to the      *)
(* tables it read earlier.                                                 *)
(***************************************************************************)
EXTENDS UsernameAnswers, UsernameRegistryProofs, FiniteSetTheorems

Histories == [rows : Nat, limit : Nat, been : SUBSET Usernames]

InChange(r) == req[r].pc \in {"advisory", "change"}

(* What a change read is behind the tables, never ahead of them, and it     *)
(* remembers the name its account was on.                                   *)
ChangeFacts(r) == InChange(r) =>
  /\ since[r].rows <= Cardinality(Owned(req[r].user))
  /\ since[r].limit <= Limit(req[r].user)
  /\ req[r].from \in since[r].been

(* The conflict a waiting change met is still there; the request does       *)
(* nothing else.                                                            *)
PendFacts(r) == pend[r] # None =>
  /\ req[r] = Idle
  /\ pend[r].error = "USERNAME_TAKEN" => Taken(pend[r].name)
  /\ pend[r].error = "CHANGE_IN_PROGRESS" => \E a, b \in since[r].been : a # b

(* The last answer, with two different names for more than one.             *)
ReplyFacts ==
  /\ reply \in Replies \cup {NoReply}
  /\ AnswersAreTrue
  /\ reply.code = "CHANGE_IN_PROGRESS" => \E a, b \in reply.been : a # b
  /\ QuotaNotOverstated

(* The inductive invariant.                                                 *)
AnswersInv == /\ RegistryInv
              /\ pend \in [Requests -> Pending \cup {None}]
              /\ since \in [Requests -> Histories]
              /\ \A r \in Requests : ChangeFacts(r) /\ PendFacts(r)
              /\ ReplyFacts

-----------------------------------------------------------------------------
(* Every step of the answers is a step of the registry, or none.            *)
LEMMA AnswersStep ==
  ASSUME [AnswersNext]_answerVars
  PROVE  [Next]_vars
<1>1. CASE UNCHANGED answerVars
  BY <1>1 DEF answerVars
<1>2. ASSUME NEW r \in Requests, NEW u \in Users, NEW n \in Usernames, Start(r, u, n)
      PROVE  Next
  BY <1>2 DEF Start, Next
<1>3. ASSUME NEW r \in Requests, NameCheck(r) \/ Commit(r)
      PROVE  Next
  BY <1>3 DEF NameCheck, Commit, Next
<1>4. ASSUME NEW r \in Requests, ConvergedResponse(r) \/ Die(r)
      PROVE  [Next]_vars
  BY <1>4 DEF ConvergedResponse, Die, Next
<1>5. CASE Other
  BY <1>5 DEF Other, Next
<1> QED  BY <1>1, <1>2, <1>3, <1>4, <1>5 DEF AnswersNext

(* The tables only grow: names are kept, and so are grants.                 *)
LEMMA TablesGrow ==
  ASSUME RegistryInv, [Next]_vars
  PROVE  /\ \A n \in Usernames : Taken(n) => Taken(n)'
         /\ \A u \in Users : /\ Owned(u) \subseteq Owned(u)'
                             /\ IsFiniteSet(Owned(u)) /\ IsFiniteSet(Owned(u)')
                             /\ Cardinality(Owned(u)) \in Nat /\ Cardinality(Owned(u)') \in Nat
                             /\ Cardinality(Owned(u)) <= Cardinality(Owned(u)')
                             /\ Limit(u) \in Nat /\ Limit(u)' \in Nat
                             /\ Limit(u) <= Limit(u)'
<1>1. RegistryInv' /\ \A n \in Usernames : Taken(n) => names'[n].user = names[n].user
  BY NextRegistryInv
<1>2. \A n \in Usernames : Taken(n) => Taken(n)'
  BY <1>1 DEF Taken
<1>3. ASSUME NEW u \in Users PROVE Owned(u) \subseteq Owned(u)'
  BY <1>1, RegistryAssumption DEF Owned, Taken
<1>4. ASSUME NEW u \in Users
      PROVE  /\ IsFiniteSet(Owned(u)) /\ IsFiniteSet(Owned(u)')
             /\ Cardinality(Owned(u)) \in Nat /\ Cardinality(Owned(u)') \in Nat
             /\ Cardinality(Owned(u)) <= Cardinality(Owned(u)')
  <2>1. Owned(u) \subseteq Usernames /\ Owned(u)' \subseteq Usernames
    BY DEF Owned
  <2>2. IsFiniteSet(Owned(u)) /\ IsFiniteSet(Owned(u)')
    BY <2>1, AnswersAssumption, FS_Subset
  <2> QED  BY <1>3, <2>2, FS_Subset, FS_CardinalityType
<1>5. bonus \in [Users -> 0..MaxBonus] /\ bonus' \in [Users -> 0..MaxBonus]
  BY <1>1 DEF RegistryInv, TypeOK
<1>6. \A u \in Users : bonus[u] <= bonus'[u]
  <2>1. CASE UNCHANGED bonus
    BY <2>1, <1>5, RegistryAssumption
  <2>2. ASSUME NEW v \in Users, NEW amount \in 1..MaxBonus, GrantExtraChanges(v, amount)
        PROVE  \A u \in Users : bonus[u] <= bonus'[u]
    BY <2>2, <1>5, RegistryAssumption DEF GrantExtraChanges
  <2> QED
    BY <2>1, <2>2 DEF Next, vars, GenerateAuthChallenge, Expire, PurgeExpired, RegisterStart,
           ChangeStart, RejectKeyWithActiveName, RegisterNameCheck, RegisterCommit,
           ChangeNameCheck, ChangeCommit, Abort
<1>7. ASSUME NEW u \in Users
      PROVE  Limit(u) \in Nat /\ Limit(u)' \in Nat /\ Limit(u) <= Limit(u)'
  BY <1>5, <1>6, RegistryAssumption DEF Limit
<1> QED  BY <1>2, <1>3, <1>4, <1>7

(* What recording does to a history.                                        *)
LEMMA RecordedFacts ==
  ASSUME since \in [Requests -> Histories]
  PROVE  /\ Recorded \in [Requests -> Histories]
         /\ \A r \in Requests :
              /\ Recorded[r].rows = since[r].rows /\ Recorded[r].limit = since[r].limit
              /\ since[r].been \subseteq Recorded[r].been
              /\ \A u \in AccountOf(r) : Active(u)' \subseteq Recorded[r].been
<1>1. ASSUME NEW r \in Requests
      PROVE  /\ Recorded[r] \in Histories
             /\ Recorded[r].rows = since[r].rows /\ Recorded[r].limit = since[r].limit
             /\ since[r].been \subseteq Recorded[r].been
             /\ \A u \in AccountOf(r) : Active(u)' \subseteq Recorded[r].been
  <2> DEFINE add == UNION {Active(u)' : u \in AccountOf(r)}
  <2>1. add \subseteq Usernames
    BY DEF Active, Owned
  <2>2. \A u \in AccountOf(r) : Active(u)' \subseteq add
    OBVIOUS
  <2>3. Recorded[r] = [since[r] EXCEPT !.been = @ \cup add]
    BY DEF Recorded
  <2> HIDE DEF add
  <2> QED  BY <2>1, <2>2, <2>3 DEF Histories
<1>2. Recorded = [r \in Requests |-> Recorded[r]]
  BY DEF Recorded
<1> QED  BY <1>1, <1>2
-----------------------------------------------------------------------------
(* A request whose account and row stay the same keeps its facts, whoever   *)
(* else moves.                                                              *)
LEMMA FactsKept ==
  ASSUME AnswersInv, [Next]_vars, NEW q \in Requests,
         \/ req'[q] = req[q]
         \/ /\ InChange(q) /\ InChange(q)'
            /\ req'[q].user = req[q].user /\ req'[q].from = req[q].from,
         pend'[q] = pend[q], since'[q] = Recorded[q]
  PROVE  ChangeFacts(q)' /\ PendFacts(q)'
<1>1. /\ Recorded[q].rows = since[q].rows /\ Recorded[q].limit = since[q].limit
      /\ since[q].been \subseteq Recorded[q].been
  BY RecordedFacts DEF AnswersInv
<1>2. PendFacts(q)'
  <2> SUFFICES ASSUME pend[q] # None
               PROVE  /\ req'[q] = Idle
                      /\ pend[q].error = "USERNAME_TAKEN" => names'[pend[q].name].user # NoUser
                      /\ pend[q].error = "CHANGE_IN_PROGRESS" => \E a, b \in since'[q].been : a # b
    BY DEF PendFacts, Taken
  <2>1. PendFacts(q) /\ pend[q].name \in Usernames
    BY DEF AnswersInv, Pending
  <2>2. req'[q] = Idle
    BY <2>1 DEF PendFacts, InChange, Idle
  <2>3. PICK n \in Usernames : n = pend[q].name
    BY <2>1
  <2>4. Taken(n) => Taken(n)'
    BY TablesGrow DEF AnswersInv
  <2>5. pend[q].error = "USERNAME_TAKEN" => names'[pend[q].name].user # NoUser
    BY <2>1, <2>3, <2>4 DEF PendFacts, Taken
  <2> QED  BY <1>1, <2>1, <2>2, <2>5 DEF PendFacts
<1>3. ASSUME InChange(q), req'[q].user = req[q].user, req'[q].from = req[q].from
      PROVE  ChangeFacts(q)'
  <2>1. PICK u \in Users : u = req[q].user
    BY <1>3 DEF AnswersInv, RegistryInv, ReadRowsOwned, InChange, Changes
  <2>2. /\ req[q].from \in since[q].been
        /\ since[q].rows <= Cardinality(Owned(u)) /\ since[q].limit <= Limit(u)
    BY <1>3, <2>1 DEF AnswersInv, ChangeFacts
  <2>3. since[q].rows \in Nat /\ since[q].limit \in Nat
    BY DEF AnswersInv, Histories
  <2>4. /\ Cardinality(Owned(u)) \in Nat /\ Cardinality(Owned(u)') \in Nat
        /\ Cardinality(Owned(u)) <= Cardinality(Owned(u)')
        /\ Limit(u) \in Nat /\ Limit(u)' \in Nat /\ Limit(u) <= Limit(u)'
    BY TablesGrow DEF AnswersInv
  <2>5. Recorded[q].rows <= Cardinality(Owned(u)') /\ Recorded[q].limit <= Limit(u)'
    BY <1>1, <2>2, <2>3, <2>4
  <2>6. u = req'[q].user /\ req'[q].from \in Recorded[q].been
    BY <1>1, <1>3, <2>1, <2>2
  <2> QED  BY <2>5, <2>6 DEF ChangeFacts, Owned, Limit
<1>4. CASE ~InChange(q)
  BY <1>2, <1>4 DEF ChangeFacts, InChange
<1> QED  BY <1>2, <1>3, <1>4

(* A request that ends without a second read has nothing to keep.           *)
LEMMA EndedFacts ==
  ASSUME NEW q \in Requests, req'[q].pc \notin {"advisory", "change"}, pend'[q] = None
  PROVE  ChangeFacts(q)' /\ PendFacts(q)'
BY DEF ChangeFacts, PendFacts, InChange

(* Between answers nothing is claimed.                                      *)
LEMMA SilentReply ==
  ASSUME reply' = NoReply
  PROVE  ReplyFacts'
BY DEF ReplyFacts, NoReply, AnswersAreTrue, QuotaNotOverstated

(* A step of request r alone: what is left to show of the invariant.        *)
LEMMA OneMoves ==
  ASSUME AnswersInv, [Next]_vars, NEW r \in Requests,
         \A q \in Requests \ {r} : /\ req'[q] = req[q] /\ pend'[q] = pend[q]
                                    /\ since'[q] = Recorded[q],
         pend' \in [Requests -> Pending \cup {None}], since' \in [Requests -> Histories],
         ChangeFacts(r)', PendFacts(r)', ReplyFacts'
  PROVE  AnswersInv'
<1>1. RegistryInv'
  BY NextRegistryInv DEF AnswersInv
<1>2. ASSUME NEW q \in Requests PROVE ChangeFacts(q)' /\ PendFacts(q)'
  <2>1. CASE q = r
    BY <2>1
  <2>2. CASE q # r
    BY <2>2, FactsKept
  <2> QED  BY <2>1, <2>2
<1> QED  BY <1>1, <1>2 DEF AnswersInv

(* A successful answer is true when what it was made of is.                 *)
LEMMA OkReply ==
  ASSUME AnswersInv, [Next]_vars, NEW r \in Requests, NEW u \in Users, NEW n \in Usernames,
         NEW rows \in Nat, NEW limit \in Nat,
         reply' = Answer(r, "OK", u, n, rows, limit),
         u \in AccountOf(r), n \in Active(u)',
         rows <= Cardinality(Owned(u)'), limit <= Limit(u)'
  PROVE  ReplyFacts'
<1>1. Recorded[r].been \subseteq Usernames /\ n \in Recorded[r].been
  BY RecordedFacts DEF AnswersInv, Histories
<1>2. reply' = [code |-> "OK", user |-> u, name |-> n, used |-> Used(rows),
                limit |-> limit, been |-> Recorded[r].been]
  BY DEF Answer
<1>3. Used(rows) \in Nat /\ Used(rows) <= Cardinality(Owned(u)') - 1
  <2>1. IsFiniteSet(Owned(u)') /\ Cardinality(Owned(u)') \in Nat
    BY TablesGrow DEF AnswersInv
  <2>2. Owned(u)' # {}
    BY DEF Active
  <2>3. Cardinality(Owned(u)') # 0
    BY <2>1, <2>2, FS_EmptySet
  <2> QED  BY <2>1, <2>3 DEF Used
<1>4. reply' \in Replies
  BY <1>1, <1>2, <1>3 DEF Replies
<1>5. AnswersAreTrue'
  BY <1>1, <1>2 DEF AnswersAreTrue
<1>6. QuotaNotOverstated'
  BY <1>2, <1>3 DEF QuotaNotOverstated, Owned, Limit
<1> QED  BY <1>2, <1>4, <1>5, <1>6 DEF ReplyFacts

(* A refusal is true when the conflict it names is there.                   *)
LEMMA ErrorReply ==
  ASSUME AnswersInv, NEW r \in Requests, NEW u \in Users, NEW n \in Usernames,
         NEW code \in Errors, reply' = Answer(r, code, u, n, 0, 0),
         code = "USERNAME_TAKEN" => Taken(n)' /\ n \notin Active(u)',
         code = "CHANGE_IN_PROGRESS" => \E a, b \in Recorded[r].been : a # b
  PROVE  ReplyFacts'
<1>1. Recorded[r].been \subseteq Usernames
  BY RecordedFacts DEF AnswersInv, Histories
<1>2. reply' = [code |-> code, user |-> u, name |-> n, used |-> 0,
                limit |-> 0, been |-> Recorded[r].been]
  BY DEF Answer, Used
<1>3. reply' \in Replies
  BY <1>1, <1>2 DEF Replies
<1>4. AnswersAreTrue'
  BY <1>2 DEF AnswersAreTrue, Taken, Free, Active, Owned, Errors
<1>5. QuotaNotOverstated'
  BY <1>2 DEF QuotaNotOverstated, Errors
<1> QED  BY <1>2, <1>3, <1>4, <1>5 DEF ReplyFacts
-----------------------------------------------------------------------------
(* What the invariant says of the change and of the wait of one request.    *)
LEMMA RequestFacts ==
  ASSUME AnswersInv, NEW r \in Requests
  PROVE  /\ InChange(r) => /\ req[r] \in Changes /\ pend[r] = None
                           /\ names[req[r].from].user = req[r].user
                           /\ AccountOf(r) = {req[r].user}
         /\ pend[r] # None => pend[r] \in Pending /\ AccountOf(r) = {pend[r].user}
<1>1. InChange(r) => req[r] # Idle
  BY DEF InChange, Idle
<1>2. InChange(r) => pend[r] = None
  BY <1>1 DEF AnswersInv, PendFacts
<1>3. InChange(r) => req[r] \in Changes /\ names[req[r].from].user = req[r].user
  BY DEF AnswersInv, RegistryInv, ReadRowsOwned, InChange
<1>4. pend[r] # None => pend[r] \in Pending
  BY DEF AnswersInv
<1> QED  BY <1>2, <1>3, <1>4 DEF AccountOf, InChange

(* A change that has just read its rows is not behind them.                 *)
LEMMA StartKeepsInv ==
  ASSUME AnswersInv, NEW r \in Requests, NEW u \in Users, NEW n \in Usernames, Start(r, u, n)
  PROVE  AnswersInv'
<1>1. [Next]_vars
  BY DEF Start, Next
<1>2. pend' = pend /\ pend[r] = None /\ reply' = NoReply /\ UNCHANGED <<names, bonus>>
  BY DEF Start, ChangeStart
<1>3. PICK from \in Owned(u) :
        /\ names[from].active
        /\ Go(r, [pc |-> IF n \in Owned(u) THEN "change" ELSE "advisory",
                  user |-> u, from |-> from, name |-> n, owned |-> n \in Owned(u)])
  BY DEF Start, ChangeStart
<1>4. req \in [Requests -> AllRequests]
  BY DEF AnswersInv, RegistryInv, TypeOK, AllRequests
<1>5. /\ req'[r].user = u /\ req'[r].from = from
      /\ \A q \in Requests \ {r} : req'[q] = req[q]
  BY <1>3, <1>4 DEF Go
<1> DEFINE h == [rows |-> Cardinality(Owned(u)), limit |-> Limit(u), been |-> Active(u)]
<1>6. Cardinality(Owned(u)) \in Nat /\ Limit(u) \in Nat
  BY <1>1, TablesGrow DEF AnswersInv
<1>7. h \in Histories
  BY <1>6 DEF Histories, Active, Owned
<1>8. since' = [Recorded EXCEPT ![r] = h] /\ Recorded \in [Requests -> Histories]
  BY RecordedFacts DEF Start, AnswersInv
<1>9. from \in h.been
  BY <1>3 DEF Active
<1> HIDE DEF h
<1>10. /\ since' \in [Requests -> Histories] /\ since'[r] = h
       /\ \A q \in Requests \ {r} : since'[q] = Recorded[q]
  BY <1>7, <1>8
<1>11. ChangeFacts(r)'
  BY <1>2, <1>5, <1>6, <1>9, <1>10 DEF ChangeFacts, Owned, Limit, h
<1>12. PendFacts(r)'
  BY <1>2 DEF PendFacts
<1>13. ReplyFacts'
  BY <1>2, SilentReply
<1> QED  BY <1>1, <1>2, <1>5, <1>10, <1>11, <1>12, <1>13, OneMoves DEF AnswersInv

(* The history of r after Keep and after Forget(r).                         *)
LEMMA HistoryKept ==
  ASSUME AnswersInv, NEW r \in Requests, Keep \/ Forget(r)
  PROVE  /\ since' \in [Requests -> Histories]
         /\ \A q \in Requests \ {r} : since'[q] = Recorded[q]
         /\ Keep => since'[r] = Recorded[r]
<1>1. Recorded \in [Requests -> Histories] /\ NotSince \in Histories
  BY RecordedFacts DEF AnswersInv, Histories, NotSince
<1> QED  BY <1>1 DEF Keep, Forget

(* A change that fails says nothing and is forgotten.                       *)
LEMMA DieKeepsInv ==
  ASSUME AnswersInv, NEW r \in Requests, Die(r)
  PROVE  AnswersInv'
<1>1. [Next]_vars
  BY DEF Die, Next
<1>2. req \in [Requests -> AllRequests]
  BY DEF AnswersInv, RegistryInv, TypeOK, AllRequests
<1>3. pend \in [Requests -> Pending \cup {None}] /\ PendFacts(r)
  BY DEF AnswersInv
<1>4. Forget(r) /\ reply' = NoReply
  BY DEF Die
<1>5. \/ /\ req' = [req EXCEPT ![r] = Idle] /\ pend' = pend /\ pend[r] = None
      \/ /\ req' = req /\ pend' = [pend EXCEPT ![r] = None] /\ req[r] = Idle
  BY <1>3 DEF Die, Abort, Go, vars, PendFacts
<1>6. /\ req'[r] = Idle /\ pend'[r] = None
      /\ \A q \in Requests \ {r} : req'[q] = req[q] /\ pend'[q] = pend[q]
      /\ pend' \in [Requests -> Pending \cup {None}]
  BY <1>2, <1>3, <1>5
<1>7. ChangeFacts(r)' /\ PendFacts(r)'
  BY <1>6, EndedFacts DEF Idle
<1> QED  BY <1>1, <1>4, <1>6, <1>7, HistoryKept, SilentReply, OneMoves

(* Registrations, grants and purges keep what a change relies on.           *)
LEMMA OtherKeepsInv ==
  ASSUME AnswersInv, Other
  PROVE  AnswersInv'
<1>1. [Next]_vars
  BY DEF Other, Next
<1>2. RegistryInv'
  BY <1>1, NextRegistryInv DEF AnswersInv
<1>3. Keep /\ reply' = NoReply /\ pend' = pend
  BY DEF Other
<1>4. since' = Recorded /\ since' \in [Requests -> Histories]
  BY <1>3, RecordedFacts DEF Keep, AnswersInv
<1>5. req \in [Requests -> AllRequests] /\ \A q \in Requests : PendFacts(q)
  BY DEF AnswersInv, RegistryInv, TypeOK, AllRequests
<1>6. ASSUME NEW q \in Requests, req'[q] # req[q]
      PROVE  pend[q] = None /\ req'[q].pc \notin {"advisory", "change"}
  <2>1. CASE UNCHANGED req
    BY <2>1, <1>6
  <2>2. ASSUME NEW r \in Requests, NEW k1 \in Nonces, NEW key \in Keys, NEW n \in Usernames,
               pend[r] = None, RegisterStart(r, k1, key, n)
        PROVE  pend[q] = None /\ req'[q].pc \notin {"advisory", "change"}
    BY <2>2, <1>5, <1>6 DEF RegisterStart, Go
  <2>3. ASSUME NEW r \in Requests,
               RejectKeyWithActiveName(r) \/ RegisterNameCheck(r) \/ RegisterCommit(r)
        PROVE  pend[q] = None /\ req'[q].pc \notin {"advisory", "change"}
    <3>1. req[r].pc \in {"keycheck", "namecheck", "register"}
      BY <2>3 DEF RejectKeyWithActiveName, RegisterNameCheck, RegisterCommit
    <3>2. req[r] \in Registrations /\ pend[r] = None
      BY <3>1, <1>5 DEF AnswersInv, RegistryInv, RegistrationShape, PendFacts, Idle
    <3>3. Go(r, Idle) \/ Step(r, "namecheck") \/ Step(r, "register")
      BY <2>3 DEF RejectKeyWithActiveName, RegisterNameCheck, RegisterCommit
    <3> QED  BY <3>2, <3>3, <1>5, <1>6 DEF Go, Step, Idle, Registrations
  <2> QED
    BY <2>1, <2>2, <2>3
       DEF Other, GenerateAuthChallenge, Expire, PurgeExpired, GrantExtraChanges
<1>7. ASSUME NEW q \in Requests PROVE ChangeFacts(q)' /\ PendFacts(q)'
  <2>1. CASE req'[q] = req[q]
    BY <2>1, <1>1, <1>3, <1>4, FactsKept
  <2>2. CASE req'[q] # req[q]
    BY <2>2, <1>3, <1>6, EndedFacts
  <2> QED  BY <2>1, <2>2
<1> QED  BY <1>2, <1>3, <1>4, <1>7, SilentReply DEF AnswersInv

(* The second read: the conflict that was met is still there.               *)
LEMMA ConvergedKeepsInv ==
  ASSUME AnswersInv, NEW r \in Requests, ConvergedResponse(r)
  PROVE  AnswersInv'
<1>1. /\ pend[r] # None /\ UNCHANGED vars /\ Forget(r)
      /\ pend' = [pend EXCEPT ![r] = None]
  BY DEF ConvergedResponse
<1>2. pend[r] \in Pending /\ AccountOf(r) = {pend[r].user} /\ PendFacts(r)
  BY <1>1, RequestFacts DEF AnswersInv
<1>3. PICK u \in Users, n \in Usernames, e \in Errors :
        u = pend[r].user /\ n = pend[r].name /\ e = pend[r].error
  BY <1>2 DEF Pending
<1>4. reply' = IF n \in Active(u)
               THEN Answer(r, "OK", u, n, Cardinality(Owned(u)), Limit(u))
               ELSE Answer(r, e, u, n, 0, 0)
  BY <1>3 DEF ConvergedResponse
<1>5. /\ Active(u)' = Active(u) /\ Owned(u)' = Owned(u) /\ Limit(u)' = Limit(u)
      /\ Taken(n) => Taken(n)'
  BY <1>1 DEF vars, Active, Owned, Limit, Taken
<1>6. Cardinality(Owned(u)) \in Nat /\ Limit(u) \in Nat
  BY <1>1, TablesGrow DEF AnswersInv
<1>7. ASSUME n \in Active(u) PROVE ReplyFacts'
  <2>1. reply' = Answer(r, "OK", u, n, Cardinality(Owned(u)), Limit(u))
    BY <1>4, <1>7
  <2>2. u \in AccountOf(r) /\ n \in Active(u)'
    BY <1>2, <1>3, <1>5, <1>7
  <2>3. Cardinality(Owned(u)) <= Cardinality(Owned(u)') /\ Limit(u) <= Limit(u)'
    BY <1>1, TablesGrow DEF AnswersInv
  <2> QED  BY <1>1, <1>6, <2>1, <2>2, <2>3, OkReply
<1>8. ASSUME n \notin Active(u) PROVE ReplyFacts'
  <2>1. reply' = Answer(r, e, u, n, 0, 0)
    BY <1>4, <1>8
  <2>2. e = "USERNAME_TAKEN" => Taken(n)' /\ n \notin Active(u)'
    BY <1>1, <1>2, <1>3, <1>5, <1>8 DEF PendFacts
  <2>3. e = "CHANGE_IN_PROGRESS" => \E a, b \in Recorded[r].been : a # b
    BY <1>1, <1>2, <1>3, RecordedFacts DEF AnswersInv, PendFacts
  <2> QED  BY <2>1, <2>2, <2>3, ErrorReply
<1>9. ReplyFacts'
  BY <1>7, <1>8
<1>10. /\ pend' \in [Requests -> Pending \cup {None}] /\ pend'[r] = None
       /\ \A q \in Requests \ {r} : pend'[q] = pend[q]
  BY <1>1 DEF AnswersInv
<1>11. ChangeFacts(r)' /\ PendFacts(r)'
  BY <1>1, <1>2, <1>10, EndedFacts DEF PendFacts, Idle, vars
<1>12. [Next]_vars /\ req' = req
  BY <1>1 DEF vars
<1> QED  BY <1>1, <1>9, <1>10, <1>11, <1>12, HistoryKept, OneMoves

(* The advisory check answers from the row it just read.                    *)
LEMMA NameCheckKeepsInv ==
  ASSUME AnswersInv, NEW r \in Requests, NameCheck(r)
  PROVE  AnswersInv'
<1>1. /\ [Next]_vars /\ req[r].pc = "advisory" /\ InChange(r)
      /\ UNCHANGED <<names, bonus>>
      /\ IF names[req[r].name] # Free THEN Go(r, Idle) ELSE Step(r, "change")
  BY DEF NameCheck, ChangeNameCheck, Next, InChange
<1>2. req[r] \in Changes /\ pend[r] = None
  BY <1>1, RequestFacts
<1>3. PICK u \in Users, n \in Usernames : u = req[r].user /\ n = req[r].name
  BY <1>2 DEF Changes
<1>4. req \in [Requests -> AllRequests] /\ pend \in [Requests -> Pending \cup {None}]
  BY DEF AnswersInv, RegistryInv, TypeOK, AllRequests
<1>5. \A q \in Requests \ {r} : req'[q] = req[q]
  BY <1>1, <1>4 DEF Go, Step
<1>6. /\ names[n] = Free => ~Taken(n)
      /\ ~Taken(n) => names[n] = Free
      /\ Taken(n) => Taken(n)'
  <2>1. names[n] = Free => ~Taken(n)
    BY DEF Taken, Free
  <2>2. ~Taken(n) => names[n] = Free
    BY DEF AnswersInv, RegistryInv, NamesInv, Mirrored
  <2>3. Taken(n) => Taken(n)'
    BY <1>1 DEF Taken
  <2> QED  BY <2>1, <2>2, <2>3
<1>7. CASE names[n].user = NoUser
  <2>1. Step(r, "change")
    BY <1>1, <1>3, <1>6, <1>7 DEF Taken
  <2>2. req'[r] = [req[r] EXCEPT !.pc = "change"]
    BY <2>1, <1>4 DEF Step, Go
  <2>3. InChange(r)' /\ req'[r].user = req[r].user /\ req'[r].from = req[r].from
    BY <2>2, <1>2 DEF InChange, Changes
  <2>4. pend' = pend /\ Keep /\ reply' = NoReply
    BY <1>2, <1>3, <1>7, RegistryAssumption DEF NameCheck, Changes
  <2>5. ChangeFacts(r)' /\ PendFacts(r)'
    BY <1>1, <2>3, <2>4, HistoryKept, FactsKept
  <2> QED  BY <1>1, <1>4, <1>5, <2>4, <2>5, HistoryKept, SilentReply, OneMoves
<1>8. CASE names[n].user # NoUser
  <2>1. Go(r, Idle) /\ req'[r] = Idle /\ Taken(n)
    BY <1>1, <1>3, <1>4, <1>6, <1>8 DEF Go, Taken
  <2>2. CASE names[n].user = u
    <3> DEFINE w == [error |-> "USERNAME_TAKEN", user |-> u, name |-> n]
    <3>1. pend' = [pend EXCEPT ![r] = w] /\ Keep /\ reply' = NoReply
      BY <1>3, <1>8, <2>2 DEF NameCheck
    <3>2. w \in Pending /\ w.error = "USERNAME_TAKEN" /\ w.name = n
      BY DEF Pending, Errors
    <3> HIDE DEF w
    <3>3. /\ pend' \in [Requests -> Pending \cup {None}] /\ pend'[r] = w
          /\ \A q \in Requests \ {r} : pend'[q] = pend[q]
      BY <1>4, <3>1, <3>2
    <3>4. ChangeFacts(r)'
      BY <2>1 DEF ChangeFacts, InChange, Idle
    <3>5. PendFacts(r)'
      BY <1>1, <2>1, <3>2, <3>3 DEF PendFacts, Taken
    <3> QED  BY <1>1, <1>5, <3>1, <3>3, <3>4, <3>5, HistoryKept, SilentReply, OneMoves
  <2>3. CASE names[n].user # u
    <3>1. /\ reply' = Answer(r, "USERNAME_TAKEN", u, n, 0, 0)
          /\ Forget(r) /\ pend' = pend
      BY <1>3, <1>8, <2>3 DEF NameCheck
    <3>2. Taken(n)' /\ n \notin Active(u)'
      BY <1>1, <1>6, <2>1, <2>3 DEF Active, Owned
    <3>3. ReplyFacts'
      BY <3>1, <3>2, ErrorReply DEF Errors
    <3>4. ChangeFacts(r)' /\ PendFacts(r)'
      BY <1>2, <2>1, <3>1, EndedFacts DEF Idle
    <3> QED  BY <1>1, <1>4, <1>5, <3>1, <3>3, <3>4, HistoryKept, OneMoves
  <2> QED  BY <2>2, <2>3
<1> QED  BY <1>7, <1>8

(* The transaction: it commits and says so, or it met a conflict.           *)
LEMMA CommitKeepsInv ==
  ASSUME AnswersInv, NEW r \in Requests, Commit(r)
  PROVE  AnswersInv'
<1>1. /\ [Next]_vars /\ ChangeCommit(r) /\ req[r].pc = "change" /\ InChange(r)
      /\ Go(r, Idle) /\ UNCHANGED bonus
  BY DEF Commit, ChangeCommit, Next, InChange
<1>2. /\ req[r] \in Changes /\ pend[r] = None /\ names[req[r].from].user = req[r].user
      /\ AccountOf(r) = {req[r].user}
  BY <1>1, RequestFacts
<1>3. PICK u \in Users, n \in Usernames, from \in Usernames, owned \in BOOLEAN :
        u = req[r].user /\ n = req[r].name /\ from = req[r].from /\ owned = req[r].owned
  BY <1>2 DEF Changes
<1>4. req \in [Requests -> AllRequests] /\ pend \in [Requests -> Pending \cup {None}]
  BY DEF AnswersInv, RegistryInv, TypeOK, AllRequests
<1>5. req'[r] = Idle /\ \A q \in Requests \ {r} : req'[q] = req[q]
  BY <1>1, <1>4 DEF Go
<1> DEFINE key == IF owned THEN names[n].key ELSE names[from].key
<1>6. /\ names \in [Usernames -> NameRows] /\ from # n
      /\ names[from].user = u /\ u # NoUser
      /\ owned => names[n].user = u
  BY <1>1, <1>2, <1>3, RegistryAssumption DEF AnswersInv, RegistryInv, TypeOK, ReadRowsOwned
<1>7. /\ since[r].rows \in Nat /\ since[r].limit \in Nat /\ since[r].been \subseteq Usernames
      /\ since[r].rows <= Cardinality(Owned(u)) /\ since[r].limit <= Limit(u)
      /\ from \in since[r].been
  BY <1>1, <1>3 DEF AnswersInv, Histories, ChangeFacts
<1>8. ASSUME Violated(req[r]) = {},
             reply' = Answer(r, "OK", u, n, since[r].rows + (IF owned THEN 0 ELSE 1), since[r].limit),
             Forget(r), pend' = pend
      PROVE  AnswersInv'
  <2>1. (owned \/ names[n] = Free) /\ KeyAdmitted(Retired(from), n, key)
    BY <1>3, <1>8 DEF Violated, Errors
  <2>2. names' = [Retired(from) EXCEPT ![n] = ActiveRow(u, key)]
    BY <1>1, <1>3, <2>1 DEF ChangeCommit
  <2>3. names'[n].user = u /\ names'[n].active
    BY <1>6, <2>2 DEF Retired, ActiveRow
  <2>4. n \in Active(u)'
    BY <2>3 DEF Active, Owned
  <2>5. /\ Owned(u) \subseteq Owned(u)' /\ IsFiniteSet(Owned(u)) /\ IsFiniteSet(Owned(u)')
        /\ Cardinality(Owned(u)) \in Nat /\ Cardinality(Owned(u)') \in Nat
        /\ Cardinality(Owned(u)) <= Cardinality(Owned(u)')
        /\ Limit(u) \in Nat /\ Limit(u)' \in Nat /\ Limit(u) <= Limit(u)'
    BY <1>1, TablesGrow DEF AnswersInv
  <2>6. ~owned => Cardinality(Owned(u)) + 1 <= Cardinality(Owned(u)')
    <3> SUFFICES ASSUME ~owned PROVE Cardinality(Owned(u)) + 1 <= Cardinality(Owned(u)')
      OBVIOUS
    <3>1. n \notin Owned(u)
      BY <1>6, <2>1 DEF Owned, Free
    <3>2. Owned(u) \cup {n} \subseteq Owned(u)'
      BY <2>4, <2>5 DEF Active
    <3>3. Cardinality(Owned(u) \cup {n}) = Cardinality(Owned(u)) + 1
      BY <2>5, <3>1, FS_AddElement
    <3>4. Cardinality(Owned(u) \cup {n}) <= Cardinality(Owned(u)')
      BY <2>5, <3>2, FS_Subset
    <3> QED  BY <3>3, <3>4
  <2> DEFINE rows == since[r].rows + (IF owned THEN 0 ELSE 1)
  <2>7. rows \in Nat /\ rows <= Cardinality(Owned(u)')
    BY <1>7, <2>5, <2>6
  <2>8. since[r].limit <= Limit(u)'
    BY <1>7, <2>5
  <2>9. reply' = Answer(r, "OK", u, n, rows, since[r].limit) /\ u \in AccountOf(r)
    BY <1>2, <1>3, <1>8
  <2> HIDE DEF rows
  <2>10. ReplyFacts'
    BY <1>1, <1>7, <2>4, <2>7, <2>8, <2>9, OkReply
  <2>11. ChangeFacts(r)' /\ PendFacts(r)'
    BY <1>2, <1>5, <1>8, EndedFacts DEF Idle
  <2> QED  BY <1>1, <1>4, <1>5, <1>8, <2>10, <2>11, HistoryKept, OneMoves
<1>9. ASSUME NEW e \in Violated(req[r]),
             pend' = [pend EXCEPT ![r] = [error |-> e, user |-> u, name |-> n]],
             Keep, reply' = NoReply
      PROVE  AnswersInv'
  <2>1. /\ e \in Errors
        /\ e = "USERNAME_TAKEN" => ~owned /\ names[n] # Free
        /\ e = "CHANGE_IN_PROGRESS" => ~KeyAdmitted(Retired(from), n, key)
    BY <1>3, <1>9 DEF Violated, Errors
  <2>2. names' = names
    BY <1>1, <1>3, <2>1 DEF ChangeCommit, Errors
  <2>3. e = "USERNAME_TAKEN" => Taken(n)
    BY <2>1 DEF AnswersInv, RegistryInv, NamesInv, Mirrored
  <2>4. ASSUME e = "CHANGE_IN_PROGRESS" PROVE \E a, b \in Recorded[r].been : a # b
    <3>1. PICK m \in Usernames : m # n /\ Retired(from)[m].activeKey = key
      BY <2>1, <2>4 DEF KeyAdmitted
    <3>2. key \in Keys /\ key = names[from].key
      BY <1>3, <1>6 DEF AnswersInv, RegistryInv, NamesInv, Mirrored, OneKeyPerAccount, Taken
    <3>3. m # from /\ names[m].activeKey = key
      BY <1>6, <3>1, <3>2, RegistryAssumption DEF Retired
    <3>4. names[m].active /\ names[m].key = key
      BY <3>2, <3>3, RegistryAssumption DEF AnswersInv, RegistryInv, NamesInv, Mirrored
    <3>5. names[m].user = u
      BY <1>6, <3>2, <3>4 DEF AnswersInv, RegistryInv, NamesInv, KeyNamesOneAccount
    <3>6. m \in Active(u)'
      BY <2>2, <3>4, <3>5 DEF Active, Owned
    <3>7. m \in Recorded[r].been /\ from \in Recorded[r].been
      BY <1>2, <1>3, <1>7, <3>6, RecordedFacts DEF AnswersInv
    <3> QED  BY <3>3, <3>7
  <2> DEFINE w == [error |-> e, user |-> u, name |-> n]
  <2>5. w \in Pending /\ w.error = e /\ w.name = n
    BY <2>1 DEF Pending
  <2>6. pend' = [pend EXCEPT ![r] = w]
    BY <1>9
  <2> HIDE DEF w
  <2>7. /\ pend' \in [Requests -> Pending \cup {None}] /\ pend'[r] = w
        /\ \A q \in Requests \ {r} : pend'[q] = pend[q]
    BY <1>4, <2>5, <2>6
  <2>8. since'[r] = Recorded[r]
    BY <1>9, HistoryKept
  <2>9. ChangeFacts(r)'
    BY <1>5 DEF ChangeFacts, InChange, Idle
  <2>10. PendFacts(r)'
    BY <1>5, <2>2, <2>3, <2>4, <2>5, <2>7, <2>8 DEF PendFacts, Taken
  <2> QED  BY <1>1, <1>5, <1>9, <2>7, <2>9, <2>10, HistoryKept, SilentReply, OneMoves
<1> QED  BY <1>3, <1>8, <1>9 DEF Commit
-----------------------------------------------------------------------------
(* At the start nothing is in flight and nothing was said.                  *)
LEMMA InitAnswersInv ==
  ASSUME AnswersInit
  PROVE  AnswersInv
<1>1. RegistryInv
  BY InitRegistryInv DEF AnswersInit
<1>2. /\ pend \in [Requests -> Pending \cup {None}] /\ since \in [Requests -> Histories]
      /\ \A r \in Requests : pend[r] = None /\ ~InChange(r)
  BY DEF AnswersInit, Init, NotSince, Histories, InChange, Idle
<1>3. ReplyFacts
  BY DEF AnswersInit, ReplyFacts, NoReply, AnswersAreTrue, QuotaNotOverstated
<1> QED  BY <1>1, <1>2, <1>3 DEF AnswersInv, ChangeFacts, PendFacts

(* One step per way in which a request moves.                               *)
LEMMA NextAnswersInv ==
  ASSUME AnswersInv, [AnswersNext]_answerVars
  PROVE  AnswersInv'
<1>1. CASE UNCHANGED answerVars
  <2>1. RegistryInv'
    BY AnswersStep, NextRegistryInv DEF AnswersInv
  <2> QED
    BY <1>1, <2>1
       DEF AnswersInv, answerVars, vars, ChangeFacts, PendFacts, InChange, Owned, Limit, Taken,
           ReplyFacts, AnswersAreTrue, QuotaNotOverstated, Active
<1> QED
  BY <1>1, StartKeepsInv, NameCheckKeepsInv, CommitKeepsInv, ConvergedKeepsInv, DieKeepsInv,
     OtherKeepsInv DEF AnswersNext

(* The invariant holds in every reachable state.                            *)
THEOREM AnswersInvariant == AnswersSpec => []AnswersInv
<1>1. AnswersInit => AnswersInv
  BY InitAnswersInv
<1>2. AnswersInv /\ [AnswersNext]_answerVars => AnswersInv'
  BY NextAnswersInv
<1> QED  BY <1>1, <1>2, PTL DEF AnswersSpec

(* The registry with its answers is the registry: answering changes none of *)
(* its tables, and every theorem about it holds here.                       *)
THEOREM AnswersImplementRegistry == AnswersSpec => Spec
<1>1. AnswersInit => Init
  BY DEF AnswersInit
<1>2. [AnswersNext]_answerVars => [Next]_vars
  BY AnswersStep
<1> QED  BY <1>1, <1>2, PTL DEF AnswersSpec, Spec

(* Every state has the types the answers declare.                           *)
THEOREM AnswersTyped == AnswersSpec => []AnswersTypeOK
<1>1. AnswersInv => AnswersTypeOK
  BY DEF AnswersInv, RegistryInv, AnswersTypeOK, Histories, ReplyFacts
<1> QED  BY <1>1, AnswersInvariant, PTL

(* Success and USERNAME_TAKEN are true when they are said.                  *)
THEOREM AnswersTrue == AnswersSpec => []AnswersAreTrue
<1>1. AnswersInv => AnswersAreTrue
  BY DEF AnswersInv, ReplyFacts
<1> QED  BY <1>1, AnswersInvariant, PTL

(* Whoever is told CHANGE_IN_PROGRESS lost to a change of the same account. *)
THEOREM InProgressTrue == AnswersSpec => []InProgressIsTrue
<1>1. ASSUME AnswersInv, reply.code = "CHANGE_IN_PROGRESS"
      PROVE  Cardinality(reply.been) > 1
  <2>1. reply.been \subseteq Usernames
    BY <1>1 DEF AnswersInv, ReplyFacts, Replies, NoReply
  <2>2. PICK a, b \in reply.been : a # b
    BY <1>1 DEF AnswersInv, ReplyFacts
  <2>3. IsFiniteSet(reply.been) /\ Cardinality(reply.been) \in Nat
    BY <2>1, AnswersAssumption, FS_Subset, FS_CardinalityType
  <2>4. IsFiniteSet({a}) /\ Cardinality({a}) = 1
    BY FS_Singleton
  <2>5. Cardinality({a} \cup {b}) = 2
    BY <2>2, <2>4, FS_AddElement
  <2>6. {a} \cup {b} \subseteq reply.been
    BY <2>2
  <2>7. Cardinality({a} \cup {b}) <= Cardinality(reply.been)
    BY <2>3, <2>6, FS_Subset
  <2> QED  BY <2>3, <2>5, <2>7
<1>2. AnswersInv => InProgressIsTrue
  BY <1>1 DEF InProgressIsTrue
<1> QED  BY <1>2, AnswersInvariant, PTL

(* The quota of an answer is never ahead of the tables.                     *)
THEOREM QuotaTrue == AnswersSpec => []QuotaNotOverstated
<1>1. AnswersInv => QuotaNotOverstated
  BY DEF AnswersInv, ReplyFacts
<1> QED  BY <1>1, AnswersInvariant, PTL
=============================================================================
