-------------------------- MODULE UsernameRegistry --------------------------
(***************************************************************************)
(* Accounts, their Lightning names and the LNURL-auth nonces:              *)
(* src/auth/auth.service.ts (challenge, registration),                     *)
(* src/username/username.service.ts (change, grant) and                    *)
(* src/auth/auth-nonce-purge.service.ts.                                   *)
(*                                                                         *)
(* A request is a process; it takes one step per awaited read and one for  *)
(* its transaction, and everything may happen between two steps.  The      *)
(* checks before the transaction are advisory; what the transaction        *)
(* guards itself with are the unique indexes on username and activePubKey  *)
(* and the conditional update of the nonce.  A request that is rejected,   *)
(* at any point, changes no table.                                         *)
(*                                                                         *)
(* A key is a public key as it is stored and compared (case-folded hex);   *)
(* one curve point has two of them, compressed and uncompressed.  Rejected *)
(* inputs (malformed hex, bad signature, reserved or malformed names) are  *)
(* requests that do not start.  Time is the nondeterministic ageing of     *)
(* nonces.                                                                 *)
(***************************************************************************)
EXTENDS Naturals, FiniteSets

CONSTANTS Users, Usernames, Keys, Nonces, Requests,
          PointOf,          \* the curve point of each key
          NoUser, NoKey,
          NoNonce,
          Allowance,        \* DEFAULT_NEW_NAME_ALLOWANCE
          MaxBonus          \* bound: changes granted to one user

ASSUME RegistryAssumption == /\ NoUser \notin Users
                             /\ NoKey \notin Keys
                             /\ NoNonce \notin Nonces
                             /\ Allowance \in Nat
                             /\ MaxBonus \in Nat

VARIABLES names,    \* lightning_names, by username
          bonus,    \* users.bonusUsernameChanges
          nonces,   \* auth_nonces
          req,      \* the requests in flight
          via       \* history: the nonce each account was registered with

vars == <<names, bonus, nonces, req, via>>

NameRows == [user : Users \cup {NoUser}, key : Keys \cup {NoKey},
             active : BOOLEAN, activeKey : Keys \cup {NoKey}]
Free     == [user |-> NoUser, key |-> NoKey, active |-> FALSE, activeKey |-> NoKey]

NonceStates == {"unissued", "fresh", "used", "expired", "purged"}

Idle == [pc |-> "idle"]
Registrations == [pc : {"keycheck", "namecheck", "register"},
                  nonce : Nonces, key : Keys, name : Usernames]
Changes == [pc : {"advisory", "change"}, user : Users,
            from : Usernames, name : Usernames, owned : BOOLEAN]

TypeOK == /\ names \in [Usernames -> NameRows]
          /\ bonus \in [Users -> 0..MaxBonus]
          /\ nonces \in [Nonces -> NonceStates]
          /\ req \in [Requests -> {Idle} \cup Registrations \cup Changes]
          /\ via \in [Users -> Nonces \cup {NoNonce}]

Init == /\ names = [n \in Usernames |-> Free]
        /\ bonus = [u \in Users |-> 0]
        /\ nonces = [k1 \in Nonces |-> "unissued"]
        /\ req = [r \in Requests |-> Idle]
        /\ via = [u \in Users |-> NoNonce]

-----------------------------------------------------------------------------
Owned(u)    == {n \in Usernames : names[n].user = u}
Accounts    == {u \in Users : Owned(u) # {}}
Limit(u)    == Allowance + bonus[u]
ActiveRow(u, key) == [user |-> u, key |-> key, active |-> TRUE, activeKey |-> key]

Go(r, state) == req' = [req EXCEPT ![r] = state]
Step(r, pc)  == Go(r, [req[r] EXCEPT !.pc = pc])

(* Mutant: there is no unique index on activePubKey.                        *)
AnyKeyAdmitted(t, n, key) == TRUE

(* The unique index on activePubKey admits key on row n of table t.         *)
KeyAdmitted(t, n, key) == \A m \in Usernames : m # n => t[m].activeKey # key

-----------------------------------------------------------------------------
(* generateAuthChallenge.                                                   *)
GenerateAuthChallenge(k1) ==
  /\ nonces[k1] = "unissued"
  /\ nonces' = [nonces EXCEPT ![k1] = "fresh"]
  /\ UNCHANGED <<names, bonus, req, via>>

(* Five minutes pass for an unused nonce.                                   *)
Expire(k1) ==
  /\ nonces[k1] = "fresh"
  /\ nonces' = [nonces EXCEPT ![k1] = "expired"]
  /\ UNCHANGED <<names, bonus, req, via>>

(* purgeExpired deletes a row an hour after its expiry, used or not.        *)
PurgeExpired(k1) ==
  /\ nonces[k1] \in {"used", "expired"}
  /\ nonces' = [nonces EXCEPT ![k1] = "purged"]
  /\ UNCHANGED <<names, bonus, req, via>>

-----------------------------------------------------------------------------
(* verifyAndBindUsername.  It starts with the read of the nonce.            *)
RegisterStart(r, k1, key, n) ==
  /\ req[r] = Idle
  /\ nonces[k1] = "fresh"
  /\ Go(r, [pc |-> "keycheck", nonce |-> k1, key |-> key, name |-> n])
  /\ UNCHANGED <<names, bonus, nonces, via>>

(* The encodings of one key, compressed and not.                            *)
EquivalentPubKeyForms(key) == {k \in Keys : PointOf[k] = PointOf[key]}

(* rejectKeyWithActiveName, on both encodings of the key.                   *)
RejectKeyWithActiveName(r) ==
  /\ req[r].pc = "keycheck"
  /\ IF \E n \in Usernames : names[n].activeKey \in EquivalentPubKeyForms(req[r].key)
     THEN Go(r, Idle) ELSE Step(r, "namecheck")
  /\ UNCHANGED <<names, bonus, nonces, via>>

(* The advisory look at the name, retired names included.                   *)
RegisterNameCheck(r) ==
  /\ req[r].pc = "namecheck"
  /\ IF names[req[r].name] # Free THEN Go(r, Idle) ELSE Step(r, "register")
  /\ UNCHANGED <<names, bonus, nonces, via>>

(* Mutant: k1 is consumed by an unconditional update.                       *)
RegisterCommitAnyNonce(r) ==
  /\ req[r].pc = "register"
  /\ IF names[req[r].name] = Free /\ KeyAdmitted(names, req[r].name, req[r].key)
     THEN \E u \in Users \ Accounts :
            /\ names' = [names EXCEPT ![req[r].name] = ActiveRow(u, req[r].key)]
            /\ nonces' = [nonces EXCEPT ![req[r].nonce] = "used"]
            /\ via' = [via EXCEPT ![u] = req[r].nonce]
     ELSE UNCHANGED <<names, nonces, via>>
  /\ Go(r, Idle)
  /\ UNCHANGED bonus

(* The transaction: consume k1, create the user, bind the name; a consumed  *)
(* or expired k1, a taken name or a key already active rolls all of it back.*)
RegisterCommit(r) ==
  /\ req[r].pc = "register"
  /\ LET k1  == req[r].nonce
         key == req[r].key
         n   == req[r].name
     IN  IF /\ nonces[k1] = "fresh"
            /\ names[n] = Free
            /\ KeyAdmitted(names, n, key)
         THEN \E u \in Users \ Accounts :
                /\ names' = [names EXCEPT ![n] = ActiveRow(u, key)]
                /\ nonces' = [nonces EXCEPT ![k1] = "used"]
                /\ via' = [via EXCEPT ![u] = k1]
         ELSE UNCHANGED <<names, nonces, via>>
  /\ Go(r, Idle)
  /\ UNCHANGED bonus

-----------------------------------------------------------------------------
(* changeUsername up to its first write decision: loadState and the checks  *)
(* on what it read.  `from' is the active row it saw.                       *)
ChangeStart(r, u, n) ==
  /\ req[r] = Idle
  /\ \E from \in Owned(u) :
       /\ names[from].active
       /\ from # n
       /\ n \notin Owned(u) => Cardinality(Owned(u)) - 1 < Limit(u)
       /\ Go(r, [pc |-> IF n \in Owned(u) THEN "change" ELSE "advisory",
                 user |-> u, from |-> from, name |-> n, owned |-> n \in Owned(u)])
  /\ UNCHANGED <<names, bonus, nonces, via>>

(* The advisory look at a name that is not owned; a taken one ends the      *)
(* request, with success if the account is already on it.                   *)
ChangeNameCheck(r) ==
  /\ req[r].pc = "advisory"
  /\ IF names[req[r].name] # Free THEN Go(r, Idle) ELSE Step(r, "change")
  /\ UNCHANGED <<names, bonus, nonces, via>>

(* Mutant: retiring clears activePubKey alone.                              *)
RetiredStillOn(from) == [names EXCEPT ![from].activeKey = NoKey]

(* The transaction: retire the row that was active when it was read, then   *)
(* activate the owned row or create the new one; a unique violation rolls   *)
(* the retirement back too.                                                 *)
Retired(from) ==
  [names EXCEPT ![from] = [user   |-> names[from].user, key       |-> names[from].key,
                           active |-> FALSE,            activeKey |-> NoKey]]

(* Mutant: the new name is upserted, taken or not.                          *)
ChangeCommitUpsert(r) ==
  /\ req[r].pc = "change"
  /\ LET key == names[req[r].from].key
     IN  names' = [Retired(req[r].from)
                     EXCEPT ![req[r].name] = ActiveRow(req[r].user, key)]
  /\ Go(r, Idle)
  /\ UNCHANGED <<bonus, nonces, via>>

ChangeCommit(r) ==
  /\ req[r].pc = "change"
  /\ LET c   == req[r]
         key == IF c.owned THEN names[c.name].key ELSE names[c.from].key
         t   == Retired(c.from)
     IN  IF /\ c.owned \/ names[c.name] = Free
            /\ KeyAdmitted(t, c.name, key)
         THEN names' = [t EXCEPT ![c.name] = ActiveRow(c.user, key)]
         ELSE UNCHANGED names
  /\ Go(r, Idle)
  /\ UNCHANGED <<bonus, nonces, via>>

(* grantExtraChanges.                                                       *)
GrantExtraChanges(u, amount) ==
  /\ u \in Accounts
  /\ bonus[u] + amount <= MaxBonus
  /\ bonus' = [bonus EXCEPT ![u] = @ + amount]
  /\ UNCHANGED <<names, nonces, req, via>>

(* A request dies between two awaits: a lock timeout, a deadlock or a       *)
(* restart of the process.                                                  *)
Abort(r) == req[r] # Idle /\ Go(r, Idle) /\ UNCHANGED <<names, bonus, nonces, via>>

-----------------------------------------------------------------------------
Next ==
  \/ \E k1 \in Nonces : GenerateAuthChallenge(k1) \/ Expire(k1) \/ PurgeExpired(k1)
  \/ \E u \in Users, amount \in 1..MaxBonus : GrantExtraChanges(u, amount)
  \/ \E r \in Requests :
       \/ \E k1 \in Nonces, key \in Keys, n \in Usernames : RegisterStart(r, k1, key, n)
       \/ \E u \in Users, n \in Usernames : ChangeStart(r, u, n)
       \/ RejectKeyWithActiveName(r) \/ RegisterNameCheck(r) \/ RegisterCommit(r)
       \/ ChangeNameCheck(r) \/ ChangeCommit(r)
       \/ Abort(r)

Spec == Init /\ [][Next]_vars

-----------------------------------------------------------------------------
(* "Exactly one of a user's names is active at any moment": no interleaving *)
(* of changes, with rows read long before they are written, leaves an       *)
(* account with two active names or with none.                              *)
ExactlyOneActive ==
  \A u \in Accounts : \E n \in Owned(u) :
    names[n].active /\ \A m \in Owned(u) : names[m].active => m = n

KeepsOwners ==
  \A n \in Usernames : names[n] # Free => /\ names'[n].user = names[n].user
                                          /\ names'[n].key = names[n].key

(* "Once a name has been owned by a user it belongs to that user forever":  *)
(* owner and key of a name never change, in no interleaving of requests.    *)
NamesArePermanent == [][KeepsOwners]_vars

(* "exactly one request per k1 can succeed", and a registration that fails  *)
(* gives its k1 back: a k1 is used up exactly when an account came of it.   *)
OneAccountPerNonce ==
  /\ \A u, v \in Accounts : via[u] = via[v] => u = v
  /\ \A k1 \in Nonces : nonces[k1] = "used" => \E u \in Accounts : via[u] = k1
  /\ \A u \in Accounts : via[u] \in Nonces /\ nonces[via[u]] \in {"used", "purged"}

(* Two accounts never share a stored key, so a signature by it names one    *)
(* account.                                                                 *)
KeyNamesOneAccount ==
  \A n, m \in Usernames : names[n].user # NoUser /\ names[n].key = names[m].key
                          => names[n].user = names[m].user

(* "Claiming a name nobody has ever owned consumes one unit of quota and is *)
(* rejected once the ceiling is reached".                                   *)
QuotaRespected ==
  \A u \in Accounts : Cardinality(Owned(u)) - 1 <= Limit(u)

(* "One active name per key", whatever its encoding.                        *)
OneActiveNamePerKey ==
  \A n, m \in Usernames : /\ names[n].active /\ names[m].active
                          /\ PointOf[names[n].key] = PointOf[names[m].key]
                          => n = m
=============================================================================
