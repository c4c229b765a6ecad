----------------------- MODULE UsernameRegistryProofs -----------------------
(***************************************************************************)
(* Proofs about the name registry, for every set of users, names, keys,    *)
(* nonces and concurrent requests; then how far the races that break the   *)
(* quota and the uniqueness of active keys can go.                         *)
(***************************************************************************)
EXTENDS UsernameRegistry, FiniteSetTheorems, TLAPS

Taken(n) == names[n].user # NoUser

(* activePubKey mirrors the key of an active row and is NULL otherwise.     *)
Mirrored == \A n \in Usernames :
  /\ ~Taken(n) => names[n] = Free
  /\ Taken(n) => names[n].key \in Keys
  /\ names[n].activeKey = IF names[n].active THEN names[n].key ELSE NoKey

(* The unique index on activePubKey.                                        *)
IndexUnique == \A n, m \in Usernames :
  names[n].active /\ names[m].active /\ names[n].key = names[m].key => n = m

(* All names of an account carry the key it registered with.                *)
OneKeyPerAccount == \A n, m \in Usernames :
  Taken(n) /\ names[n].user = names[m].user => names[n].key = names[m].key

(* Every account has an active name.                                        *)
HasActive == \A n \in Usernames :
  Taken(n) => \E m \in Usernames : names[m].user = names[n].user /\ names[m].active

(* What a change read may be stale, but names never change hands.           *)
ReadRowsOwned == \A r \in Requests : req[r].pc \in {"advisory", "change"} =>
  /\ req[r] \in Changes
  /\ names[req[r].from].user = req[r].user
  /\ req[r].from # req[r].name
  /\ req[r].owned => names[req[r].name].user = req[r].user

RegistrationShape == \A r \in Requests :
  req[r].pc \in {"keycheck", "namecheck", "register"} => req[r] \in Registrations

(* The part of the invariant that is about the table of names.              *)
NamesInv == Mirrored /\ IndexUnique /\ OneKeyPerAccount /\ KeyNamesOneAccount /\ HasActive

(* The inductive invariant.                                                 *)
RegistryInv == /\ TypeOK
               /\ NamesInv
               /\ ReadRowsOwned
               /\ RegistrationShape
               /\ OneAccountPerNonce

-----------------------------------------------------------------------------
(* Exactly one active name is what the table's invariant amounts to: at     *)
(* most one by the index, as an account has one key; at least one by        *)
(* HasActive.                                                               *)
LEMMA OneActiveFollows ==
  ASSUME TypeOK, NamesInv
  PROVE  ExactlyOneActive
<1> SUFFICES ASSUME NEW u \in Accounts
             PROVE  \E n \in Owned(u) :
                      names[n].active /\ \A m \in Owned(u) : names[m].active => m = n
  BY DEF ExactlyOneActive
<1>1. u \in Users /\ u # NoUser
  BY RegistryAssumption DEF Accounts
<1>2. PICK n \in Usernames : names[n].user = u
  BY DEF Accounts, Owned
<1>3. PICK m \in Usernames : names[m].user = u /\ names[m].active
  BY <1>1, <1>2 DEF NamesInv, HasActive, Taken
<1>4. \A k \in Owned(u) : names[k].active => k = m
  BY <1>1, <1>3 DEF NamesInv, IndexUnique, OneKeyPerAccount, Owned, Taken
<1> QED  BY <1>3, <1>4 DEF Owned

(* The committed change, on the table of names: `from' retires and n        *)
(* becomes active, both of account u and its key.                           *)
Switched(from, n, u, key) ==
  /\ from # n
  /\ names[from].user = u /\ names[from].key = key
  /\ names[n] = Free \/ (names[n].user = u /\ names[n].key = key)
  /\ \A m \in Usernames : m # n /\ m # from => names[m].activeKey # key
  /\ names' = [names EXCEPT ![from] = [user |-> u, key |-> key, active |-> FALSE,
                                       activeKey |-> NoKey],
                            ![n] = ActiveRow(u, key)]

(* A change that commits and changes the table does exactly that.           *)
LEMMA ChangeEffect ==
  ASSUME RegistryInv, NEW r \in Requests, ChangeCommit(r), names' # names
  PROVE  \E from \in Usernames, n \in Usernames, u \in Users, key \in Keys :
           /\ Switched(from, n, u, key)
           /\ from = req[r].from /\ n = req[r].name /\ u = req[r].user
<1> DEFINE c == req[r]
           from == c.from
           n == c.name
           u == c.user
           key == names[from].key
<1>1. c.pc = "change" /\ c \in Changes
  BY DEF ChangeCommit, RegistryInv, ReadRowsOwned
<1>2. from \in Usernames /\ n \in Usernames /\ u \in Users /\ c.owned \in BOOLEAN
  BY <1>1 DEF Changes
<1>3. /\ from # n /\ names[from].user = u /\ (c.owned => names[n].user = u)
  BY <1>1 DEF RegistryInv, ReadRowsOwned
<1>4. u # NoUser /\ key \in Keys
  BY <1>2, <1>3, RegistryAssumption DEF RegistryInv, NamesInv, Mirrored, Taken
<1>5. c.owned => names[n].key = key
  BY <1>2, <1>3, <1>4 DEF RegistryInv, NamesInv, OneKeyPerAccount, Taken
<1>6. (IF c.owned THEN names[n].key ELSE names[from].key) = key
  BY <1>5
<1>7. /\ c.owned \/ names[n] = Free
      /\ KeyAdmitted(Retired(from), n, key)
      /\ names' = [Retired(from) EXCEPT ![n] = ActiveRow(u, key)]
  BY <1>6 DEF ChangeCommit
<1>8. names \in [Usernames -> NameRows]
  BY DEF RegistryInv, TypeOK
<1>9. \A m \in Usernames : m # n /\ m # from => names[m].activeKey # key
  BY <1>2, <1>7, <1>8 DEF KeyAdmitted, Retired
<1>10. names' = [names EXCEPT ![from] = [user |-> u, key |-> key, active |-> FALSE,
                                         activeKey |-> NoKey],
                              ![n] = ActiveRow(u, key)]
  BY <1>3, <1>7 DEF Retired
<1>11. names[n] = Free \/ (names[n].user = u /\ names[n].key = key)
  BY <1>3, <1>5, <1>7
<1>12. Switched(from, n, u, key)
  BY <1>3, <1>9, <1>10, <1>11 DEF Switched
<1> QED  BY <1>2, <1>4, <1>12

(* A committed change keeps the table's invariant and its owners.           *)
LEMMA ChangeKeepsNames ==
  ASSUME RegistryInv, NEW r \in Requests, ChangeCommit(r)
  PROVE  /\ names' \in [Usernames -> NameRows]
         /\ NamesInv'
         /\ \A m \in Usernames : Taken(m) => /\ names'[m].user = names[m].user
                                             /\ names'[m].key = names[m].key
         /\ Accounts' = Accounts
<1> USE DEF RegistryInv, TypeOK
<1>1. CASE names' = names
  BY <1>1 DEF NamesInv, Mirrored, IndexUnique, OneKeyPerAccount, KeyNamesOneAccount,
              HasActive, Taken, Accounts, Owned
<1>2. CASE names' # names
  <2>1. PICK from \in Usernames, n \in Usernames, u \in Users, key \in Keys :
           Switched(from, n, u, key)
    BY <1>2, ChangeEffect
  <2> USE DEF Switched
  <2>2. /\ names'[n] = ActiveRow(u, key)
        /\ names'[from] = [user |-> u, key |-> key, active |-> FALSE, activeKey |-> NoKey]
        /\ \A m \in Usernames : m # n /\ m # from => names'[m] = names[m]
    BY <2>1
  <2>3. ActiveRow(u, key) \in NameRows
    BY DEF ActiveRow, NameRows
  <2>4. names' \in [Usernames -> NameRows]
    BY <2>1, <2>3 DEF NameRows
  <2>5. /\ names'[n].user = u /\ names'[n].key = key
        /\ names'[n].active = TRUE /\ names'[n].activeKey = key
        /\ names'[from].user = u /\ names'[from].key = key
        /\ names'[from].active = FALSE /\ names'[from].activeKey = NoKey
    BY <2>2 DEF ActiveRow
  <2>6. u # NoUser
    BY RegistryAssumption
  <2>7. /\ Free.user = NoUser /\ Free.key = NoKey /\ NoKey \notin Keys
    BY RegistryAssumption DEF Free
  <2>8. Mirrored'
    BY <2>1, <2>2, <2>5, <2>6 DEF NamesInv, Mirrored, Taken
  <2>9. IndexUnique'
    <3>1. \A m \in Usernames : m # n /\ m # from /\ names[m].active => names[m].key # key
      BY <2>1 DEF NamesInv, Mirrored
    <3> QED  BY <2>2, <2>5, <3>1 DEF NamesInv, IndexUnique
  <2>10. OneKeyPerAccount'
    <3>1. \A m \in Usernames : names[m].user = u => names[m].key = key
      BY <2>1, <2>6 DEF NamesInv, OneKeyPerAccount, Taken
    <3> QED  BY <2>2, <2>5, <3>1 DEF NamesInv, OneKeyPerAccount, Taken
  <2>11. KeyNamesOneAccount'
    <3>1. \A m \in Usernames : names[m].key = key => names[m].user = u
      BY <2>1, <2>6 DEF NamesInv, KeyNamesOneAccount
    <3> QED  BY <2>2, <2>5, <3>1 DEF NamesInv, KeyNamesOneAccount
  <2>12. HasActive'
    <3> SUFFICES ASSUME NEW m \in Usernames, Taken(m)'
                 PROVE  \E k \in Usernames : names'[k].user = names'[m].user /\ names'[k].active
      BY DEF HasActive
    <3>1. CASE names'[m].user = u
      BY <2>5, <3>1
    <3>2. CASE names'[m].user # u
      <4>1. names'[m] = names[m] /\ Taken(m)
        BY <2>2, <2>5, <3>2 DEF Taken
      <4>2. PICK k \in Usernames : names[k].user = names[m].user /\ names[k].active
        BY <4>1 DEF NamesInv, HasActive
      <4>3. k # n /\ k # from
        BY <2>1, <2>7, <3>2, <4>1, <4>2 DEF Taken
      <4> QED  BY <2>2, <4>1, <4>2, <4>3
    <3> QED  BY <3>1, <3>2
  <2>13. \A m \in Usernames : Taken(m) => /\ names'[m].user = names[m].user
                                          /\ names'[m].key = names[m].key
    BY <2>1, <2>2, <2>5, <2>7 DEF Taken
  <2>14. Accounts' = Accounts
    <3>1. \A v \in Users : (\E m \in Usernames : names'[m].user = v)
                           <=> (\E m \in Usernames : names[m].user = v)
      <4> TAKE v \in Users
      <4>1. v # NoUser
        BY RegistryAssumption
      <4>2. \A m \in Usernames : names[m].user = v => names'[m].user = v
        BY <2>1, <2>2, <2>5, <2>7, <4>1
      <4>3. \A m \in Usernames : names'[m].user = v
                                 => names[m].user = v \/ names[from].user = v
        BY <2>1, <2>2, <2>5
      <4> QED  BY <4>2, <4>3
    <3>2. Accounts = {v \in Users : \E m \in Usernames : names[m].user = v}
      BY DEF Accounts, Owned
    <3>3. Accounts' = {v \in Users : \E m \in Usernames : names'[m].user = v}
      BY DEF Accounts, Owned
    <3> QED  BY <3>1, <3>2, <3>3
  <2> QED  BY <2>4, <2>8, <2>9, <2>10, <2>11, <2>12, <2>13, <2>14 DEF NamesInv
<1> QED  BY <1>1, <1>2

(* A registration that commits binds a free name, a key active nowhere, a   *)
(* new user and a fresh nonce, all in one step.                             *)
Registered(k1, key, n, u) ==
  /\ nonces[k1] = "fresh" /\ names[n] = Free /\ u \notin Accounts
  /\ \A m \in Usernames : m # n => names[m].activeKey # key
  /\ names' = [names EXCEPT ![n] = ActiveRow(u, key)]
  /\ nonces' = [nonces EXCEPT ![k1] = "used"]
  /\ via' = [via EXCEPT ![u] = k1]

(* A registration's transaction does that or nothing.                       *)
LEMMA RegisterEffect ==
  ASSUME RegistryInv, NEW r \in Requests, RegisterCommit(r)
  PROVE  \/ UNCHANGED <<names, nonces, via>>
         \/ \E k1 \in Nonces, key \in Keys, n \in Usernames, u \in Users :
              Registered(k1, key, n, u)
<1> DEFINE k1 == req[r].nonce
           key == req[r].key
           n == req[r].name
<1>1. k1 \in Nonces /\ key \in Keys /\ n \in Usernames
  BY DEF RegisterCommit, RegistryInv, RegistrationShape, Registrations
<1>2. CASE nonces[k1] = "fresh" /\ names[n] = Free /\ KeyAdmitted(names, n, key)
  <2>1. PICK u \in Users \ Accounts :
          /\ names' = [names EXCEPT ![n] = ActiveRow(u, key)]
          /\ nonces' = [nonces EXCEPT ![k1] = "used"]
          /\ via' = [via EXCEPT ![u] = k1]
    BY <1>2 DEF RegisterCommit
  <2>2. Registered(k1, key, n, u)
    BY <1>2, <2>1 DEF Registered, KeyAdmitted
  <2> QED  BY <1>1, <2>1, <2>2
<1>3. CASE ~(nonces[k1] = "fresh" /\ names[n] = Free /\ KeyAdmitted(names, n, key))
  BY <1>3 DEF RegisterCommit
<1> QED  BY <1>2, <1>3

(* A committed registration keeps the invariants of names and nonces.       *)
LEMMA RegisterKeepsTables ==
  ASSUME RegistryInv, NEW k1 \in Nonces, NEW key \in Keys, NEW n \in Usernames,
         NEW u \in Users, Registered(k1, key, n, u)
  PROVE  /\ names' \in [Usernames -> NameRows]
         /\ nonces' \in [Nonces -> NonceStates]
         /\ via' \in [Users -> Nonces \cup {NoNonce}]
         /\ NamesInv'
         /\ \A m \in Usernames : Taken(m) => names'[m] = names[m]
         /\ OneAccountPerNonce'
<1> USE DEF RegistryInv, TypeOK, Registered
<1>1. ActiveRow(u, key) \in NameRows
  BY DEF ActiveRow, NameRows
<1>2. /\ names' \in [Usernames -> NameRows]
      /\ nonces' \in [Nonces -> NonceStates]
      /\ via' \in [Users -> Nonces \cup {NoNonce}]
  BY <1>1 DEF NonceStates
<1>3. /\ names'[n].user = u /\ names'[n].key = key
      /\ names'[n].active = TRUE /\ names'[n].activeKey = key
      /\ \A m \in Usernames : m # n => names'[m] = names[m]
  BY DEF ActiveRow
<1>4. u # NoUser /\ NoKey \notin Keys /\ Free.user = NoUser /\ ~Taken(n)
  BY RegistryAssumption DEF Free, Taken
<1>5. \A m \in Usernames : names[m].user # u
  BY DEF Accounts, Owned
<1>6. \A m \in Usernames : Taken(m) => names[m].key # key
  <2> SUFFICES ASSUME NEW m \in Usernames, Taken(m), names[m].key = key  PROVE FALSE
    OBVIOUS
  <2>1. PICK k \in Usernames : names[k].user = names[m].user /\ names[k].active
    BY DEF NamesInv, HasActive
  <2>2. names[k].key = key /\ k # n
    BY <1>4, <2>1 DEF NamesInv, OneKeyPerAccount, Taken
  <2>3. names[k].activeKey = key
    BY <2>1, <2>2 DEF NamesInv, Mirrored
  <2> QED  BY <2>2, <2>3
<1>7. Mirrored'
  BY <1>3, <1>4 DEF NamesInv, Mirrored, Taken
<1>8. \A m \in Usernames : m # n /\ names[m].active => names[m].key # key
  BY DEF NamesInv, Mirrored
<1>9. IndexUnique'
  BY <1>3, <1>8 DEF NamesInv, IndexUnique
<1>10. OneKeyPerAccount'
  BY <1>3, <1>5 DEF NamesInv, OneKeyPerAccount, Taken
<1>11. KeyNamesOneAccount'
  <2>1. \A m \in Usernames : ~Taken(m) => names[m].key = NoKey
    BY DEF NamesInv, Mirrored, Free
  <2> QED  BY <1>3, <1>4, <1>6, <2>1 DEF NamesInv, KeyNamesOneAccount, Taken
<1>12. HasActive'
  <2> SUFFICES ASSUME NEW m \in Usernames, Taken(m)'
               PROVE  \E k \in Usernames : names'[k].user = names'[m].user /\ names'[k].active
    BY DEF HasActive
  <2>1. CASE m = n
    BY <1>3, <2>1
  <2>2. CASE m # n
    <3>1. names'[m] = names[m] /\ Taken(m)
      BY <1>3, <2>2 DEF Taken
    <3>2. PICK k \in Usernames : names[k].user = names[m].user /\ names[k].active
      BY <3>1 DEF NamesInv, HasActive
    <3>3. k # n
      BY <1>4, <3>1, <3>2 DEF Taken
    <3> QED  BY <1>3, <3>1, <3>2, <3>3
  <2> QED  BY <2>1, <2>2
<1>13. \A m \in Usernames : Taken(m) => names'[m] = names[m]
  BY <1>3, <1>4
<1>14. Accounts' = Accounts \cup {u}
  <2>1. Accounts = {v \in Users : \E m \in Usernames : names[m].user = v}
    BY DEF Accounts, Owned
  <2>2. Accounts' = {v \in Users : \E m \in Usernames : names'[m].user = v}
    BY DEF Accounts, Owned
  <2>3. \A v \in Users : (\E m \in Usernames : names'[m].user = v)
                         <=> v = u \/ (\E m \in Usernames : names[m].user = v)
    <3> TAKE v \in Users
    <3>1. v # NoUser
      BY RegistryAssumption
    <3> QED  BY <1>3, <1>4, <3>1 DEF Taken
  <2> QED  BY <2>1, <2>2, <2>3
<1>15. OneAccountPerNonce'
  <2>1. /\ \A v \in Accounts : via[v] \in Nonces /\ nonces[via[v]] \in {"used", "purged"}
        /\ \A v, w \in Accounts : via[v] = via[w] => v = w
        /\ \A c \in Nonces : nonces[c] = "used" => \E v \in Accounts : via[v] = c
    BY DEF OneAccountPerNonce
  <2>2. Accounts \subseteq Users /\ u \notin Accounts
    BY DEF Accounts
  <2>3. \A v \in Accounts : via[v] # k1 /\ via'[v] = via[v] /\ nonces'[via[v]] = nonces[via[v]]
    BY <2>1, <2>2
  <2>4. via'[u] = k1 /\ nonces'[k1] = "used"
    OBVIOUS
  <2>5. \A v, w \in Accounts' : via'[v] = via'[w] => v = w
    BY <1>14, <2>1, <2>3, <2>4
  <2>6. \A c \in Nonces : nonces'[c] = "used" => \E v \in Accounts' : via'[v] = c
    BY <1>14, <2>1, <2>3, <2>4
  <2>7. \A v \in Accounts' : via'[v] \in Nonces /\ nonces'[via'[v]] \in {"used", "purged"}
    BY <1>14, <2>1, <2>3, <2>4
  <2> QED  BY <2>5, <2>6, <2>7 DEF OneAccountPerNonce
<1> QED  BY <1>2, <1>7, <1>9, <1>10, <1>11, <1>12, <1>13, <1>15 DEF NamesInv

-----------------------------------------------------------------------------
AllRequests == {Idle} \cup Registrations \cup Changes

(* The shape of a request record follows from its pc, and a change in       *)
(* flight holds rows of its own account.                                    *)
ReadOwned(c) == /\ c \in Changes
                /\ names[c.from].user = c.user
                /\ c.from # c.name
                /\ c.owned => names[c.name].user = c.user

SoundRequest(c) == \/ c = Idle
                   \/ c \in Registrations
                   \/ ReadOwned(c)

(* Moving one request to a sound state keeps every request sound, as long   *)
(* as no name changes hands.                                                *)
LEMMA RequestsKept ==
  ASSUME RegistryInv, NEW r \in Requests, NEW st, SoundRequest(st), Go(r, st),
         \A m \in Usernames : Taken(m) => names'[m].user = names[m].user
  PROVE  req' \in [Requests -> AllRequests] /\ ReadRowsOwned' /\ RegistrationShape'
<1>1. st \in AllRequests
  BY DEF SoundRequest, ReadOwned, AllRequests
<1>2. req \in [Requests -> AllRequests]
  BY DEF RegistryInv, TypeOK, AllRequests
<1>3. req' \in [Requests -> AllRequests]
  BY <1>1, <1>2 DEF Go
<1>4. ASSUME NEW c, ReadOwned(c)
      PROVE  /\ names'[c.from].user = c.user
             /\ c.owned => names'[c.name].user = c.user
  <2>1. c.from \in Usernames /\ c.name \in Usernames /\ c.user # NoUser
    BY <1>4, RegistryAssumption DEF ReadOwned, Changes
  <2> QED  BY <1>4, <2>1 DEF ReadOwned, Taken
<1>5. ReadRowsOwned'
  <2> SUFFICES ASSUME NEW x \in Requests, req'[x].pc \in {"advisory", "change"}
               PROVE  /\ req'[x] \in Changes
                      /\ names'[req'[x].from].user = req'[x].user
                      /\ req'[x].from # req'[x].name
                      /\ req'[x].owned => names'[req'[x].name].user = req'[x].user
    BY DEF ReadRowsOwned
  <2>1. ReadOwned(req'[x])
    <3>1. CASE x = r
      <4>1. req'[x] = st
        BY <1>2, <3>1 DEF Go
      <4>2. st # Idle /\ st \notin Registrations
        BY <4>1 DEF Idle, Registrations
      <4> QED  BY <4>1, <4>2 DEF SoundRequest
    <3>2. CASE x # r
      <4>1. req'[x] = req[x]
        BY <1>2, <3>2 DEF Go
      <4> QED  BY <4>1 DEF RegistryInv, ReadRowsOwned, ReadOwned
    <3> QED  BY <3>1, <3>2
  <2> QED  BY <1>4, <2>1 DEF ReadOwned
<1>6. RegistrationShape'
  <2> SUFFICES ASSUME NEW x \in Requests,
                      req'[x].pc \in {"keycheck", "namecheck", "register"}
               PROVE  req'[x] \in Registrations
    BY DEF RegistrationShape
  <2> QED  BY <1>3 DEF AllRequests, Idle, Changes
<1> QED  BY <1>3, <1>5, <1>6

(* A request that advances its pc and keeps what it holds stays sound.      *)
LEMMA StepIsSound ==
  ASSUME RegistryInv, NEW r \in Requests
  PROVE  /\ SoundRequest(Idle)
         /\ req[r].pc = "keycheck" => SoundRequest([req[r] EXCEPT !.pc = "namecheck"])
         /\ req[r].pc = "namecheck" => SoundRequest([req[r] EXCEPT !.pc = "register"])
         /\ req[r].pc = "advisory" => SoundRequest([req[r] EXCEPT !.pc = "change"])
<1>1. ASSUME NEW c \in Registrations, NEW p \in {"namecheck", "register"}
      PROVE  [c EXCEPT !.pc = p] \in Registrations
  BY DEF Registrations
<1>2. ASSUME NEW c, ReadOwned(c)
      PROVE  ReadOwned([c EXCEPT !.pc = "change"])
  <2> DEFINE d == [c EXCEPT !.pc = "change"]
  <2>1. c \in Changes
    BY <1>2 DEF ReadOwned
  <2>2. /\ d \in Changes /\ d.from = c.from /\ d.user = c.user
        /\ d.name = c.name /\ d.owned = c.owned
    BY <2>1 DEF Changes
  <2> HIDE DEF d
  <2>3. ReadOwned(d)
    BY <1>2, <2>2 DEF ReadOwned
  <2> QED  BY <2>3 DEF d
<1>3. req[r].pc \in {"keycheck", "namecheck"} => req[r] \in Registrations
  BY DEF RegistryInv, RegistrationShape
<1>4. req[r].pc = "advisory" => ReadOwned(req[r])
  BY DEF RegistryInv, ReadRowsOwned, ReadOwned
<1> QED  BY <1>1, <1>2, <1>3, <1>4 DEF SoundRequest

(* Steps that touch only the requests keep the invariant.                   *)
LEMMA RequestOnly ==
  ASSUME RegistryInv, NEW r \in Requests, NEW st, SoundRequest(st), Go(r, st),
         UNCHANGED <<names, bonus, nonces, via>>
  PROVE  RegistryInv'
<1>1. req' \in [Requests -> AllRequests] /\ ReadRowsOwned' /\ RegistrationShape'
  BY RequestsKept
<1>2. TypeOK'
  BY <1>1 DEF RegistryInv, TypeOK, AllRequests
<1>3. NamesInv'
  BY DEF RegistryInv, NamesInv, Mirrored, IndexUnique, OneKeyPerAccount,
         KeyNamesOneAccount, HasActive, Taken
<1>4. OneAccountPerNonce'
  BY DEF RegistryInv, OneAccountPerNonce, Accounts, Owned
<1> QED  BY <1>1, <1>2, <1>3, <1>4 DEF RegistryInv

(* Issuing, ageing and purging a nonce: a used one stays used up.           *)
LEMMA NonceStep ==
  ASSUME RegistryInv, NEW k1 \in Nonces,
         GenerateAuthChallenge(k1) \/ Expire(k1) \/ PurgeExpired(k1)
  PROVE  RegistryInv'
<1>1. UNCHANGED <<names, bonus, req, via>>
  BY DEF GenerateAuthChallenge, Expire, PurgeExpired
<1>2. PICK st \in NonceStates : /\ nonces' = [nonces EXCEPT ![k1] = st]
                                /\ st # "used"
                                /\ nonces[k1] = "used" => st = "purged"
                                /\ nonces[k1] # "purged"
  BY DEF GenerateAuthChallenge, Expire, PurgeExpired, NonceStates
<1>3. TypeOK'
  BY <1>1, <1>2 DEF RegistryInv, TypeOK
<1>4. NamesInv' /\ ReadRowsOwned' /\ RegistrationShape' /\ Accounts' = Accounts
  BY <1>1 DEF RegistryInv, NamesInv, Mirrored, IndexUnique, OneKeyPerAccount,
         KeyNamesOneAccount, HasActive, Taken, ReadRowsOwned, RegistrationShape,
         Accounts, Owned
<1>5. OneAccountPerNonce'
  BY <1>1, <1>2, <1>4 DEF RegistryInv, TypeOK, OneAccountPerNonce
<1> QED  BY <1>3, <1>4, <1>5 DEF RegistryInv

(* A grant only moves a ceiling.                                            *)
LEMMA GrantStep ==
  ASSUME RegistryInv, NEW u \in Users, NEW amount \in 1..MaxBonus,
         GrantExtraChanges(u, amount)
  PROVE  RegistryInv'
<1>1. /\ UNCHANGED <<names, nonces, req, via>>
      /\ bonus' = [bonus EXCEPT ![u] = bonus[u] + amount]
      /\ bonus[u] + amount <= MaxBonus
  BY DEF GrantExtraChanges
<1>2. bonus[u] + amount \in 0..MaxBonus
  BY <1>1, RegistryAssumption DEF RegistryInv, TypeOK
<1>3. TypeOK'
  BY <1>1, <1>2 DEF RegistryInv, TypeOK
<1>4. NamesInv' /\ ReadRowsOwned' /\ RegistrationShape' /\ OneAccountPerNonce'
  BY <1>1 DEF RegistryInv, NamesInv, Mirrored, IndexUnique, OneKeyPerAccount,
         KeyNamesOneAccount, HasActive, Taken, ReadRowsOwned, RegistrationShape,
         OneAccountPerNonce, Accounts, Owned
<1> QED  BY <1>3, <1>4 DEF RegistryInv

-----------------------------------------------------------------------------
(* The empty registry satisfies the invariant.                              *)
LEMMA InitRegistryInv ==
  ASSUME Init
  PROVE  RegistryInv
<1>1. TypeOK
  BY RegistryAssumption DEF Init, TypeOK, NameRows, Free, NonceStates
<1>2. NamesInv
  BY DEF Init, NamesInv, Mirrored, IndexUnique, OneKeyPerAccount,
         KeyNamesOneAccount, HasActive, Taken, Free
<1>3. ReadRowsOwned /\ RegistrationShape
  BY DEF Init, ReadRowsOwned, RegistrationShape, Idle
<1>4. Accounts = {}
  BY RegistryAssumption DEF Init, Accounts, Owned, Free
<1>5. OneAccountPerNonce
  BY <1>4 DEF Init, OneAccountPerNonce
<1> QED  BY <1>1, <1>2, <1>3, <1>5 DEF RegistryInv

(* Every action keeps the invariant, and no name changes hands.             *)
LEMMA NextRegistryInv ==
  ASSUME RegistryInv, [Next]_vars
  PROVE  /\ RegistryInv'
         /\ \A m \in Usernames : Taken(m) => /\ names'[m].user = names[m].user
                                             /\ names'[m].key = names[m].key
<1> DEFINE Kept == \A m \in Usernames : Taken(m) => /\ names'[m].user = names[m].user
                                                    /\ names'[m].key = names[m].key
<1>0. ASSUME UNCHANGED names PROVE Kept
  BY <1>0
<1>1. ASSUME NEW k1 \in Nonces,
             GenerateAuthChallenge(k1) \/ Expire(k1) \/ PurgeExpired(k1)
      PROVE  RegistryInv' /\ Kept
  BY <1>0, <1>1, NonceStep DEF GenerateAuthChallenge, Expire, PurgeExpired
<1>2. ASSUME NEW u \in Users, NEW amount \in 1..MaxBonus, GrantExtraChanges(u, amount)
      PROVE  RegistryInv' /\ Kept
  BY <1>0, <1>2, GrantStep DEF GrantExtraChanges
<1>3. ASSUME NEW r \in Requests, NEW k1 \in Nonces, NEW key \in Keys, NEW n \in Usernames,
             RegisterStart(r, k1, key, n)
      PROVE  RegistryInv' /\ Kept
  <2> DEFINE st == [pc |-> "keycheck", nonce |-> k1, key |-> key, name |-> n]
  <2>1. SoundRequest(st)
    BY DEF SoundRequest, Registrations
  <2>2. Go(r, st) /\ UNCHANGED <<names, bonus, nonces, via>>
    BY <1>3 DEF RegisterStart
  <2> HIDE DEF st
  <2> QED  BY <1>0, <2>1, <2>2, RequestOnly
<1>4. ASSUME NEW r \in Requests, NEW u \in Users, NEW n \in Usernames, ChangeStart(r, u, n)
      PROVE  RegistryInv' /\ Kept
  <2>1. PICK from \in Owned(u) :
          /\ from # n
          /\ Go(r, [pc |-> IF n \in Owned(u) THEN "change" ELSE "advisory",
                    user |-> u, from |-> from, name |-> n, owned |-> n \in Owned(u)])
    BY <1>4 DEF ChangeStart
  <2> DEFINE st == [pc |-> IF n \in Owned(u) THEN "change" ELSE "advisory",
                    user |-> u, from |-> from, name |-> n, owned |-> n \in Owned(u)]
  <2>2. /\ st \in Changes /\ st.from = from /\ st.user = u /\ st.name = n
        /\ st.owned = (n \in Owned(u))
    BY DEF Changes, Owned
  <2>3. Go(r, st)
    BY <2>1
  <2> HIDE DEF st
  <2>4. SoundRequest(st)
    BY <2>1, <2>2 DEF SoundRequest, ReadOwned, Owned
  <2> QED  BY <1>0, <1>4, <2>3, <2>4, RequestOnly DEF ChangeStart
<1>5. ASSUME NEW r \in Requests,
             RejectKeyWithActiveName(r) \/ RegisterNameCheck(r) \/ ChangeNameCheck(r) \/ Abort(r)
      PROVE  RegistryInv' /\ Kept
  <2>1. UNCHANGED <<names, bonus, nonces, via>>
    BY <1>5 DEF RejectKeyWithActiveName, RegisterNameCheck, ChangeNameCheck, Abort
  <2>2. \E st : SoundRequest(st) /\ Go(r, st)
    BY <1>5, StepIsSound
       DEF RejectKeyWithActiveName, RegisterNameCheck, ChangeNameCheck, Abort, Step
  <2> QED  BY <1>0, <2>1, <2>2, RequestOnly
<1>6. ASSUME NEW r \in Requests, ChangeCommit(r)
      PROVE  RegistryInv' /\ Kept
  <2>1. /\ names' \in [Usernames -> NameRows] /\ NamesInv' /\ Kept /\ Accounts' = Accounts
    BY <1>6, ChangeKeepsNames
  <2>2. UNCHANGED <<bonus, nonces, via>> /\ Go(r, Idle)
    BY <1>6 DEF ChangeCommit
  <2>3. req' \in [Requests -> AllRequests] /\ ReadRowsOwned' /\ RegistrationShape'
    BY <2>1, <2>2, RequestsKept, StepIsSound
  <2>4. TypeOK'
    BY <2>1, <2>2, <2>3 DEF RegistryInv, TypeOK, AllRequests
  <2>5. OneAccountPerNonce'
    BY <2>1, <2>2 DEF RegistryInv, OneAccountPerNonce
  <2> QED  BY <2>1, <2>3, <2>4, <2>5 DEF RegistryInv
<1>7. ASSUME NEW r \in Requests, RegisterCommit(r)
      PROVE  RegistryInv' /\ Kept
  <2>1. UNCHANGED bonus /\ Go(r, Idle)
    BY <1>7 DEF RegisterCommit
  <2>2. CASE UNCHANGED <<names, nonces, via>>
    BY <1>0, <2>1, <2>2, RequestOnly, StepIsSound
  <2>3. ASSUME NEW k1 \in Nonces, NEW key \in Keys, NEW n \in Usernames, NEW u \in Users,
               Registered(k1, key, n, u)
        PROVE  RegistryInv' /\ Kept
    <3>1. /\ names' \in [Usernames -> NameRows]
          /\ nonces' \in [Nonces -> NonceStates]
          /\ via' \in [Users -> Nonces \cup {NoNonce}]
          /\ NamesInv'
          /\ Kept
          /\ OneAccountPerNonce'
      BY <2>3, RegisterKeepsTables
    <3>2. req' \in [Requests -> AllRequests] /\ ReadRowsOwned' /\ RegistrationShape'
      BY <2>1, <3>1, RequestsKept, StepIsSound
    <3>3. TypeOK'
      BY <2>1, <3>1, <3>2 DEF RegistryInv, TypeOK, AllRequests
    <3> QED  BY <3>1, <3>2, <3>3 DEF RegistryInv
  <2> QED  BY <1>7, <2>2, <2>3, RegisterEffect
<1>8. ASSUME UNCHANGED vars
      PROVE  RegistryInv' /\ Kept
  BY <1>0, <1>8 DEF vars, RegistryInv, TypeOK, NamesInv, Mirrored, IndexUnique,
         OneKeyPerAccount, KeyNamesOneAccount, HasActive, Taken, ReadRowsOwned,
         RegistrationShape, OneAccountPerNonce, Accounts, Owned
<1> QED  BY <1>1, <1>2, <1>3, <1>4, <1>5, <1>6, <1>7, <1>8 DEF Next

(* The invariant holds in every reachable state.                            *)
THEOREM RegistryInvariant == Spec => []RegistryInv
<1>1. Init => RegistryInv
  BY InitRegistryInv
<1>2. RegistryInv /\ [Next]_vars => RegistryInv'
  BY NextRegistryInv
<1> QED  BY <1>1, <1>2, PTL DEF Spec

(* Under any interleaving of registrations and changes, every account has   *)
(* exactly one active name.                                                 *)
THEOREM ActiveNameUnique == Spec => []ExactlyOneActive
<1>1. RegistryInv => ExactlyOneActive
  BY OneActiveFollows DEF RegistryInv
<1> QED  BY <1>1, RegistryInvariant, PTL

(* Every state has the types the tables declare.                            *)
THEOREM TypeCorrect == Spec => []TypeOK
<1>1. RegistryInv => TypeOK
  BY DEF RegistryInv
<1> QED  BY <1>1, RegistryInvariant, PTL

(* A k1 registers at most one account and is used up only by one.           *)
THEOREM SingleUseNonce == Spec => []OneAccountPerNonce
<1>1. RegistryInv => OneAccountPerNonce
  BY DEF RegistryInv
<1> QED  BY <1>1, RegistryInvariant, PTL

(* A stored key belongs to one account.                                     *)
THEOREM KeyOwner == Spec => []KeyNamesOneAccount
<1>1. RegistryInv => KeyNamesOneAccount
  BY DEF RegistryInv, NamesInv
<1> QED  BY <1>1, RegistryInvariant, PTL

(* A name, once owned, keeps its owner and its key for good.                *)
THEOREM NamePermanence == Spec => NamesArePermanent
<1>1. ASSUME RegistryInv, [Next]_vars, NEW n \in Usernames, names[n] # Free
      PROVE  names'[n].user = names[n].user /\ names'[n].key = names[n].key
  <2>1. Taken(n)
    BY <1>1 DEF RegistryInv, NamesInv, Mirrored
  <2> QED  BY <1>1, <2>1, NextRegistryInv
<1>2. RegistryInv /\ [Next]_vars => [KeepsOwners]_vars
  BY <1>1 DEF KeepsOwners
<1> QED  BY <1>2, RegistryInvariant, PTL DEF Spec, NamesArePermanent

-----------------------------------------------------------------------------
(* The quota.  A claim that has passed the check of the ceiling and has not *)
(* ended counts as much as a name: names and claims together never exceed   *)
(* the ceiling by more than the number of requests in flight.               *)
Claims(u) == {r \in Requests : req[r].pc \in {"advisory", "change"} /\ req[r].user = u
                               /\ ~req[r].owned}

QuotaInv == \A u \in Users :
  /\ IsFiniteSet(Owned(u))
  /\ Cardinality(Owned(u)) + Cardinality(Claims(u)) <= Limit(u) + Cardinality(Requests)

(* The bound on what an account can own, beyond its first name.             *)
QuotaExceededByRacesOnly == \A u \in Accounts :
  Cardinality(Owned(u)) - 1 <= Limit(u) + (Cardinality(Requests) - 1)

(* Claims are finitely many, and fewer claims with the same names are fine. *)
LEMMA ClaimsCount ==
  ASSUME IsFiniteSet(Requests), NEW u
  PROVE  /\ IsFiniteSet(Claims(u)) /\ Cardinality(Claims(u)) \in Nat
         /\ Cardinality(Claims(u)) <= Cardinality(Requests)
         /\ IsFiniteSet(Claims(u)') /\ Cardinality(Claims(u)') \in Nat
         /\ Cardinality(Claims(u)') <= Cardinality(Requests)
         /\ Claims(u)' \subseteq Claims(u)
            => Cardinality(Claims(u)') <= Cardinality(Claims(u))
<1>1. Claims(u) \in SUBSET Requests /\ Claims(u)' \in SUBSET Requests
  BY DEF Claims
<1>2. /\ IsFiniteSet(Claims(u)) /\ Cardinality(Claims(u)) <= Cardinality(Requests)
      /\ IsFiniteSet(Claims(u)') /\ Cardinality(Claims(u)') <= Cardinality(Requests)
  BY <1>1, FS_Subset
<1>3. Claims(u)' \subseteq Claims(u) => Cardinality(Claims(u)') <= Cardinality(Claims(u))
  BY <1>2, FS_Subset
<1> QED  BY <1>2, <1>3, FS_CardinalityType

(* A request that moves to a state that is no new claim adds none.          *)
LEMMA ClaimDropped ==
  ASSUME RegistryInv, NEW r \in Requests, NEW st, Go(r, st), NEW u,
         st.pc \in {"advisory", "change"} /\ st.user = u /\ ~st.owned => r \in Claims(u)
  PROVE  Claims(u)' \subseteq Claims(u)
<1>1. req \in [Requests -> AllRequests]
  BY DEF RegistryInv, TypeOK, AllRequests
<1>2. req'[r] = st /\ \A x \in Requests : x # r => req'[x] = req[x]
  BY <1>1 DEF Go
<1> QED  BY <1>2 DEF Claims

(* Same names, same ceilings or higher ones, no new claim.                  *)
LEMMA QuotaSame ==
  ASSUME IsFiniteSet(Requests), RegistryInv, RegistryInv', QuotaInv, NEW u \in Users,
         UNCHANGED names, bonus'[u] >= bonus[u], Claims(u)' \subseteq Claims(u)
  PROVE  /\ IsFiniteSet(Owned(u)')
         /\ Cardinality(Owned(u)') + Cardinality(Claims(u)')
            <= Limit(u)' + Cardinality(Requests)
<1>1. Owned(u)' = Owned(u)
  BY DEF Owned
<1>2. /\ IsFiniteSet(Owned(u))
      /\ Cardinality(Owned(u)) + Cardinality(Claims(u)) <= Limit(u) + Cardinality(Requests)
  BY DEF QuotaInv
<1>3. /\ Cardinality(Owned(u)) \in Nat /\ Cardinality(Requests) \in Nat
      /\ Cardinality(Claims(u)) \in Nat /\ Cardinality(Claims(u)') \in Nat
      /\ Cardinality(Claims(u)') <= Cardinality(Claims(u))
  BY <1>2, ClaimsCount, FS_CardinalityType
<1>4. /\ Limit(u) \in Nat /\ Limit(u)' \in Nat /\ Limit(u)' >= Limit(u)
  BY RegistryAssumption DEF Limit, RegistryInv, TypeOK
<1> QED  BY <1>1, <1>2, <1>3, <1>4

(* A change starts: the ceiling was not reached by the names the account    *)
(* has, so one more claim is within the bound.                              *)
LEMMA QuotaStart ==
  ASSUME IsFiniteSet(Requests), RegistryInv, RegistryInv', QuotaInv,
         NEW r \in Requests, NEW u \in Users, NEW n \in Usernames, ChangeStart(r, u, n)
  PROVE  QuotaInv'
<1> SUFFICES ASSUME NEW v \in Users
             PROVE  /\ IsFiniteSet(Owned(v)')
                    /\ Cardinality(Owned(v)') + Cardinality(Claims(v)')
                       <= Limit(v)' + Cardinality(Requests)
  BY DEF QuotaInv
<1>1. UNCHANGED <<names, bonus>>
  BY DEF ChangeStart
<1>2. Owned(v)' = Owned(v) /\ Limit(v)' = Limit(v) /\ Limit(v) \in Nat
      /\ bonus[v] \in Nat /\ bonus'[v] = bonus[v]
  BY <1>1, RegistryAssumption DEF Owned, Limit, RegistryInv, TypeOK
<1>3. PICK st : /\ Go(r, st) /\ st.user = u /\ st.owned = (n \in Owned(u))
                /\ n \notin Owned(u) => Cardinality(Owned(u)) - 1 < Limit(u)
  BY DEF ChangeStart
<1>4. CASE v # u \/ n \in Owned(u)
  <2>1. ~(st.user = v /\ ~st.owned)
    BY <1>3, <1>4
  <2>2. Claims(v)' \subseteq Claims(v)
    BY <1>3, <2>1, ClaimDropped
  <2>3. UNCHANGED names /\ bonus'[v] >= bonus[v]
    BY <1>1, <1>2
  <2> QED  BY <2>2, <2>3, QuotaSame
<1>5. CASE v = u /\ n \notin Owned(u)
  <2>1. IsFiniteSet(Owned(u)) /\ Cardinality(Owned(u)) \in Nat
    BY FS_CardinalityType DEF QuotaInv
  <2>2. /\ Cardinality(Claims(u)') \in Nat /\ Cardinality(Requests) \in Nat
        /\ Cardinality(Claims(u)') <= Cardinality(Requests)
    BY ClaimsCount, FS_CardinalityType
  <2> QED  BY <1>2, <1>3, <1>5, <2>1, <2>2
<1> QED  BY <1>4, <1>5

(* A change commits: a claim becomes a name.                                *)
LEMMA QuotaCommit ==
  ASSUME IsFiniteSet(Requests), RegistryInv, RegistryInv', QuotaInv,
         NEW r \in Requests, ChangeCommit(r)
  PROVE  QuotaInv'
<1> SUFFICES ASSUME NEW v \in Users
             PROVE  /\ IsFiniteSet(Owned(v)')
                    /\ Cardinality(Owned(v)') + Cardinality(Claims(v)')
                       <= Limit(v)' + Cardinality(Requests)
  BY DEF QuotaInv
<1>1. UNCHANGED bonus /\ Go(r, Idle) /\ req[r].pc = "change"
  BY DEF ChangeCommit
<1>2. Limit(v)' = Limit(v) /\ Limit(v) \in Nat /\ bonus[v] \in Nat /\ bonus'[v] = bonus[v]
  BY <1>1, RegistryAssumption DEF Limit, RegistryInv, TypeOK
<1>3. Claims(v)' \subseteq Claims(v)
  BY <1>1, ClaimDropped DEF Idle
<1>4. CASE UNCHANGED names
  BY <1>2, <1>3, <1>4, QuotaSame
<1>5. CASE names' # names
  <2>1. PICK from \in Usernames, n \in Usernames, u \in Users, key \in Keys :
          /\ Switched(from, n, u, key)
          /\ from = req[r].from /\ n = req[r].name /\ u = req[r].user
    BY <1>5, ChangeEffect
  <2>2. /\ names'[n].user = u
        /\ \A m \in Usernames : m # n => names'[m].user = names[m].user
    BY <2>1 DEF Switched, ActiveRow, RegistryInv, TypeOK
  <2>3. IsFiniteSet(Owned(v)) /\ Cardinality(Owned(v)) \in Nat
    BY FS_CardinalityType DEF QuotaInv
  <2>4. /\ Cardinality(Claims(v)) \in Nat /\ Cardinality(Claims(v)') \in Nat
        /\ Cardinality(Claims(v)') <= Cardinality(Claims(v))
        /\ IsFiniteSet(Claims(v)) /\ Cardinality(Requests) \in Nat
    BY <1>3, ClaimsCount, FS_CardinalityType
  <2>5. Cardinality(Owned(v)) + Cardinality(Claims(v)) <= Limit(v) + Cardinality(Requests)
    BY DEF QuotaInv
  <2>6. CASE Owned(v)' = Owned(v)
    BY <1>2, <2>3, <2>4, <2>5, <2>6
  <2>7. CASE Owned(v)' # Owned(v)
    <3>1. v = u /\ names[n] = Free
      <4>1. \/ names[n] = Free
            \/ names[n].user = u
        BY <2>1 DEF Switched
      <4>2. Free.user = NoUser /\ NoUser \notin Users
        BY RegistryAssumption DEF Free
      <4>3. names[n].user = u => Owned(v)' = Owned(v)
        BY <2>2 DEF Owned
      <4>4. names[n] = Free /\ v # u => Owned(v)' = Owned(v)
        BY <2>2, <4>2 DEF Owned
      <4> QED  BY <2>7, <4>1, <4>3, <4>4
    <3>2. Owned(u)' = Owned(u) \cup {n} /\ n \notin Owned(u)
      BY <2>2, <3>1, RegistryAssumption DEF Owned, Free
    <3>3. IsFiniteSet(Owned(u)') /\ Cardinality(Owned(u)') = Cardinality(Owned(u)) + 1
      BY <2>3, <3>1, <3>2, FS_AddElement
    <3>4. r \in Claims(u)
      <4>1. req[r].owned => names[n].user = u
        BY <1>1, <2>1 DEF RegistryInv, ReadRowsOwned
      <4>2. ~req[r].owned
        BY <3>1, <4>1, RegistryAssumption DEF Free
      <4> QED  BY <1>1, <2>1, <4>2 DEF Claims
    <3>5. Claims(u)' \subseteq Claims(u) \ {r}
      <4>1. req'[r] = Idle
        BY <1>1 DEF Go, RegistryInv, TypeOK
      <4>2. r \notin Claims(u)'
        BY <4>1 DEF Claims, Idle
      <4> QED  BY <1>3, <3>1, <4>2
    <3>6. /\ IsFiniteSet(Claims(u) \ {r})
          /\ Cardinality(Claims(u) \ {r}) = Cardinality(Claims(u)) - 1
      BY <2>4, <3>1, <3>4, FS_RemoveElement
    <3>7. Cardinality(Claims(u)') <= Cardinality(Claims(u)) - 1
      BY <3>5, <3>6, FS_Subset
    <3> QED  BY <1>2, <2>3, <2>4, <2>5, <3>1, <3>3, <3>7
  <2> QED  BY <2>6, <2>7
<1> QED  BY <1>4, <1>5

(* A registration commits: its account is new, and has no claim.            *)
LEMMA QuotaRegister ==
  ASSUME IsFiniteSet(Requests), RegistryInv, RegistryInv', QuotaInv,
         NEW r \in Requests, RegisterCommit(r)
  PROVE  QuotaInv'
<1> SUFFICES ASSUME NEW v \in Users
             PROVE  /\ IsFiniteSet(Owned(v)')
                    /\ Cardinality(Owned(v)') + Cardinality(Claims(v)')
                       <= Limit(v)' + Cardinality(Requests)
  BY DEF QuotaInv
<1>1. UNCHANGED bonus /\ Go(r, Idle)
  BY DEF RegisterCommit
<1>2. Limit(v)' = Limit(v) /\ Limit(v) \in Nat /\ bonus[v] \in Nat /\ bonus'[v] = bonus[v]
  BY <1>1, RegistryAssumption DEF Limit, RegistryInv, TypeOK
<1>3. Claims(v)' \subseteq Claims(v)
  BY <1>1, ClaimDropped DEF Idle
<1>4. CASE UNCHANGED names
  BY <1>2, <1>3, <1>4, QuotaSame
<1>5. ASSUME NEW k1 \in Nonces, NEW key \in Keys, NEW n \in Usernames, NEW u \in Users,
             Registered(k1, key, n, u)
      PROVE  /\ IsFiniteSet(Owned(v)')
             /\ Cardinality(Owned(v)') + Cardinality(Claims(v)')
                <= Limit(v)' + Cardinality(Requests)
  <2>1. /\ names'[n].user = u /\ names[n].user = NoUser /\ NoUser \notin Users
        /\ \A m \in Usernames : m # n => names'[m].user = names[m].user
    BY <1>5, RegistryAssumption DEF Registered, ActiveRow, Free, RegistryInv, TypeOK
  <2>2. /\ Cardinality(Claims(v)) \in Nat /\ Cardinality(Claims(v)') \in Nat
        /\ Cardinality(Claims(v)') <= Cardinality(Claims(v))
        /\ IsFiniteSet(Claims(v)) /\ Cardinality(Requests) \in Nat
    BY <1>3, ClaimsCount, FS_CardinalityType
  <2>3. CASE v # u
    <3>1. Owned(v)' = Owned(v)
      BY <2>1, <2>3 DEF Owned
    <3>2. IsFiniteSet(Owned(v)) /\ Cardinality(Owned(v)) \in Nat
      BY FS_CardinalityType DEF QuotaInv
    <3>3. Cardinality(Owned(v)) + Cardinality(Claims(v)) <= Limit(v) + Cardinality(Requests)
      BY DEF QuotaInv
    <3> QED  BY <1>2, <2>2, <3>1, <3>2, <3>3
  <2>4. CASE v = u
    <3>1. Owned(u) = {}
      BY <1>5 DEF Registered, Accounts
    <3>2. Owned(u)' = {n}
      BY <2>1, <3>1 DEF Owned
    <3>3. IsFiniteSet(Owned(u)') /\ Cardinality(Owned(u)') = 1
      BY <3>2, FS_Singleton
    <3>4. Claims(u) = {}
      BY <3>1 DEF Claims, Owned, RegistryInv, ReadRowsOwned, Changes
    <3>5. Cardinality(Claims(u)') = 0
      BY <1>3, <2>4, <3>4, FS_EmptySet
    <3>6. Cardinality(Requests) # 0
      BY FS_EmptySet
    <3> QED  BY <1>2, <2>2, <2>4, <3>3, <3>5, <3>6
  <2> QED  BY <2>3, <2>4
<1> QED  BY <1>4, <1>5, RegisterEffect

(* QuotaInv is inductive.                                                   *)
LEMMA QuotaKept ==
  ASSUME IsFiniteSet(Requests), RegistryInv, RegistryInv', QuotaInv, [Next]_vars
  PROVE  QuotaInv'
<1>1. ASSUME UNCHANGED names, \A u \in Users : bonus'[u] >= bonus[u],
             \A u \in Users : Claims(u)' \subseteq Claims(u)
      PROVE  QuotaInv'
  BY <1>1, QuotaSame DEF QuotaInv
<1>2. ASSUME UNCHANGED <<names, req>>, \A u \in Users : bonus'[u] >= bonus[u]
      PROVE  QuotaInv'
  BY <1>1, <1>2 DEF Claims
<1>3. UNCHANGED bonus => \A u \in Users : bonus'[u] >= bonus[u]
  BY RegistryAssumption DEF RegistryInv, TypeOK
<1>4. ASSUME NEW u \in Users, NEW amount \in 1..MaxBonus, GrantExtraChanges(u, amount)
      PROVE  QuotaInv'
  <2>1. \A v \in Users : bonus'[v] >= bonus[v]
    BY <1>4, RegistryAssumption DEF GrantExtraChanges, RegistryInv, TypeOK
  <2> QED  BY <1>2, <1>4, <2>1 DEF GrantExtraChanges
<1>5. ASSUME NEW r \in Requests, NEW k1 \in Nonces, NEW key \in Keys, NEW n \in Usernames,
             RegisterStart(r, k1, key, n)
      PROVE  QuotaInv'
  <2>1. PICK st : Go(r, st) /\ st.pc = "keycheck"
    BY <1>5 DEF RegisterStart
  <2>2. \A u \in Users : Claims(u)' \subseteq Claims(u)
    BY <2>1, ClaimDropped
  <2> QED  BY <1>1, <1>3, <1>5, <2>2 DEF RegisterStart
<1>6. ASSUME NEW r \in Requests,
             RejectKeyWithActiveName(r) \/ RegisterNameCheck(r) \/ ChangeNameCheck(r) \/ Abort(r)
      PROVE  QuotaInv'
  <2>1. UNCHANGED <<names, bonus>>
    BY <1>6 DEF RejectKeyWithActiveName, RegisterNameCheck, ChangeNameCheck, Abort
  <2>2. CASE Go(r, Idle)
    BY <1>1, <1>3, <2>1, <2>2, ClaimDropped DEF Idle
  <2>3. CASE Step(r, "namecheck") \/ Step(r, "register")
    <3>1. req[r].pc \in {"keycheck", "namecheck"} => req[r] \in Registrations
      BY DEF RegistryInv, RegistrationShape
    <3>2. req[r].pc \in {"keycheck", "namecheck"}
      BY <1>6, <2>3 DEF RejectKeyWithActiveName, RegisterNameCheck, ChangeNameCheck, Abort,
                        Step, Go, Idle, RegistryInv, TypeOK, ReadRowsOwned, Changes
    <3>3. PICK st : Go(r, st) /\ st.pc \in {"namecheck", "register"}
      BY <2>3, <3>1, <3>2 DEF Step, Registrations
    <3> QED  BY <1>1, <1>3, <2>1, <3>3, ClaimDropped
  <2>4. CASE req[r].pc = "advisory" /\ Step(r, "change")
    <3>1. req[r] \in Changes
      BY <2>4 DEF RegistryInv, ReadRowsOwned
    <3>2. PICK st : Go(r, st) /\ st.user = req[r].user /\ st.owned = req[r].owned
      BY <2>4, <3>1 DEF Step, Changes
    <3>3. \A u \in Users : Claims(u)' \subseteq Claims(u)
      <4> SUFFICES ASSUME NEW u \in Users PROVE Claims(u)' \subseteq Claims(u)
        OBVIOUS
      <4>1. st.user = u /\ ~st.owned => r \in Claims(u)
        BY <2>4, <3>2 DEF Claims
      <4> QED  BY <3>2, <4>1, ClaimDropped
    <3> QED  BY <1>1, <1>3, <2>1, <3>3
  <2> QED  BY <1>6, <2>2, <2>3, <2>4
           DEF RejectKeyWithActiveName, RegisterNameCheck, ChangeNameCheck, Abort
<1>7. ASSUME NEW k1 \in Nonces,
             GenerateAuthChallenge(k1) \/ Expire(k1) \/ PurgeExpired(k1)
      PROVE  QuotaInv'
  BY <1>2, <1>3, <1>7 DEF GenerateAuthChallenge, Expire, PurgeExpired
<1>8. UNCHANGED vars => QuotaInv'
  BY <1>2, <1>3 DEF vars
<1> QED  BY <1>4, <1>5, <1>6, <1>7, <1>8, QuotaStart, QuotaCommit, QuotaRegister DEF Next

(* Every reachable state.                                                   *)
LEMMA QuotaInvariant ==
  ASSUME IsFiniteSet(Requests)
  PROVE  Spec => [](RegistryInv /\ QuotaInv)
<1>1. Init => QuotaInv
  <2> SUFFICES ASSUME Init, NEW u \in Users
               PROVE  /\ IsFiniteSet(Owned(u))
                      /\ Cardinality(Owned(u)) + Cardinality(Claims(u))
                         <= Limit(u) + Cardinality(Requests)
    BY DEF QuotaInv
  <2>1. Owned(u) = {} /\ Claims(u) = {}
    BY RegistryAssumption DEF Init, Owned, Free, Claims, Idle
  <2>2. Limit(u) \in Nat /\ Cardinality(Requests) \in Nat
    BY RegistryAssumption, FS_CardinalityType DEF Init, Limit
  <2> QED  BY <2>1, <2>2, FS_EmptySet
<1>2. RegistryInv /\ RegistryInv' /\ QuotaInv /\ [Next]_vars => QuotaInv'
  BY QuotaKept
<1> QED  BY <1>1, <1>2, RegistryInvariant, PTL DEF Spec

(* However changes race past the ceiling of changeUsername, an account      *)
(* exceeds it by less than the number of requests in flight at once; so     *)
(* with one request at a time it is respected.                              *)
THEOREM QuotaExcessBounded ==
  ASSUME IsFiniteSet(Requests)
  PROVE  Spec => []QuotaExceededByRacesOnly
<1>1. RegistryInv /\ QuotaInv => QuotaExceededByRacesOnly
  <2> SUFFICES ASSUME RegistryInv, QuotaInv, NEW u \in Accounts
               PROVE  Cardinality(Owned(u)) - 1 <= Limit(u) + (Cardinality(Requests) - 1)
    BY DEF QuotaExceededByRacesOnly
  <2>1. /\ u \in Users /\ Cardinality(Owned(u)) \in Nat /\ Cardinality(Requests) \in Nat
        /\ Cardinality(Claims(u)) \in Nat /\ Limit(u) \in Nat
    BY ClaimsCount, FS_CardinalityType, RegistryAssumption
       DEF Accounts, QuotaInv, Limit, RegistryInv, TypeOK
  <2> QED  BY <2>1 DEF QuotaInv
<1> QED  BY <1>1, QuotaInvariant, PTL

-----------------------------------------------------------------------------
(* One request at a time.                                                   *)
OneAtATime == \A r, s \in Requests : r = s

(* With one request at a time the ceiling of changeUsername is respected.   *)
THEOREM QuotaHoldsSerially ==
  ASSUME OneAtATime
  PROVE  Spec => []QuotaRespected
<1>1. IsFiniteSet(Requests) /\ Cardinality(Requests) \in {0, 1}
  <2>1. CASE Requests = {}
    BY <2>1, FS_EmptySet
  <2>2. CASE \E r \in Requests : Requests = {r}
    BY <2>2, FS_Singleton
  <2> QED  BY <2>1, <2>2 DEF OneAtATime
<1>2. RegistryInv /\ QuotaInv => QuotaRespected
  <2> SUFFICES ASSUME RegistryInv, QuotaInv, NEW u \in Accounts
               PROVE  Cardinality(Owned(u)) - 1 <= Limit(u)
    BY DEF QuotaRespected
  <2>1. /\ u \in Users /\ Cardinality(Owned(u)) \in Nat
        /\ Cardinality(Claims(u)) \in Nat /\ Limit(u) \in Nat
    BY <1>1, ClaimsCount, FS_CardinalityType, RegistryAssumption
       DEF Accounts, QuotaInv, Limit, RegistryInv, TypeOK
  <2> QED  BY <1>1, <2>1 DEF QuotaInv
<1> QED  BY <1>1, <1>2, QuotaInvariant, PTL

(* What one request at a time knows: past rejectKeyWithActiveName no name   *)
(* of its key is active in either encoding, and the name a change is to     *)
(* retire is still active.                                                  *)
SerialInv ==
  /\ OneActiveNamePerKey
  /\ \A r \in Requests :
       /\ req[r].pc \in {"namecheck", "register"} =>
            \A n \in Usernames : names[n].active => PointOf[names[n].key] # PointOf[req[r].key]
       /\ req[r].pc \in {"advisory", "change"} => names[req[r].from].active

(* A table that has the same active names keeps what SerialInv says of it,  *)
(* and the only request is the one that moves.                              *)
LEMMA SerialRequest ==
  ASSUME OneAtATime, RegistryInv, SerialInv, NEW r \in Requests, NEW st, Go(r, st),
         UNCHANGED names,
         st.pc \in {"namecheck", "register"} =>
           \A n \in Usernames : names[n].active => PointOf[names[n].key] # PointOf[st.key],
         st.pc \in {"advisory", "change"} => names[st.from].active
  PROVE  SerialInv'
<1>1. req'[r] = st /\ \A x \in Requests : x = r
  BY DEF Go, RegistryInv, TypeOK, OneAtATime
<1> QED  BY <1>1 DEF SerialInv, OneActiveNamePerKey

(* A request that has ended holds nothing; here it may have written.        *)
LEMMA SerialEnd ==
  ASSUME OneAtATime, RegistryInv, NEW r \in Requests, Go(r, Idle), OneActiveNamePerKey'
  PROVE  SerialInv'
<1>1. req'[r] = Idle /\ \A x \in Requests : x = r
  BY DEF Go, RegistryInv, TypeOK, OneAtATime
<1> QED  BY <1>1 DEF SerialInv, Idle

(* SerialInv is inductive when there is one request at a time.              *)
LEMMA SerialKept ==
  ASSUME OneAtATime, RegistryInv, RegistryInv', SerialInv, [Next]_vars
  PROVE  SerialInv'
<1>1. ASSUME UNCHANGED <<names, req>>  PROVE SerialInv'
  BY <1>1 DEF SerialInv, OneActiveNamePerKey
<1>2. UNCHANGED names => OneActiveNamePerKey'
  BY DEF SerialInv, OneActiveNamePerKey
<1>3. ASSUME NEW r \in Requests, NEW k1 \in Nonces, NEW key \in Keys, NEW n \in Usernames,
             RegisterStart(r, k1, key, n)
      PROVE  SerialInv'
  <2>1. PICK st : Go(r, st) /\ st.pc = "keycheck"
    BY <1>3 DEF RegisterStart
  <2> QED  BY <1>3, <2>1, SerialRequest DEF RegisterStart
<1>4. ASSUME NEW r \in Requests, RejectKeyWithActiveName(r)  PROVE SerialInv'
  <2>1. req[r] \in Registrations /\ UNCHANGED names
    BY <1>4 DEF RejectKeyWithActiveName, RegistryInv, RegistrationShape
  <2>2. CASE \E n \in Usernames : names[n].activeKey \in EquivalentPubKeyForms(req[r].key)
    BY <1>2, <1>4, <2>1, <2>2, SerialEnd DEF RejectKeyWithActiveName
  <2>3. CASE ~\E n \in Usernames : names[n].activeKey \in EquivalentPubKeyForms(req[r].key)
    <3>1. PICK st : Go(r, st) /\ st.pc = "namecheck" /\ st.key = req[r].key
      BY <1>4, <2>1, <2>3 DEF RejectKeyWithActiveName, Step, Registrations
    <3>2. \A n \in Usernames : names[n].active => PointOf[names[n].key] # PointOf[req[r].key]
      <4> SUFFICES ASSUME NEW n \in Usernames, names[n].active
                   PROVE  PointOf[names[n].key] # PointOf[req[r].key]
        OBVIOUS
      <4>1. names[n].key \in Keys /\ names[n].activeKey = names[n].key
        BY DEF RegistryInv, NamesInv, Mirrored, Free
      <4> QED  BY <2>3, <4>1 DEF EquivalentPubKeyForms
    <3> QED  BY <2>1, <3>1, <3>2, SerialRequest
  <2> QED  BY <2>2, <2>3
<1>5. ASSUME NEW r \in Requests, RegisterNameCheck(r)  PROVE SerialInv'
  <2>1. req[r] \in Registrations /\ UNCHANGED names
    BY <1>5 DEF RegisterNameCheck, RegistryInv, RegistrationShape
  <2>2. CASE Go(r, Idle)
    BY <1>2, <2>1, <2>2, SerialEnd
  <2>3. CASE Step(r, "register")
    <3>1. PICK st : Go(r, st) /\ st.pc = "register" /\ st.key = req[r].key
      BY <2>1, <2>3 DEF Step, Registrations
    <3>2. \A n \in Usernames : names[n].active => PointOf[names[n].key] # PointOf[req[r].key]
      BY <1>5 DEF RegisterNameCheck, SerialInv
    <3> QED  BY <2>1, <3>1, <3>2, SerialRequest
  <2> QED  BY <1>5, <2>2, <2>3 DEF RegisterNameCheck
<1>6. ASSUME NEW r \in Requests, RegisterCommit(r)  PROVE SerialInv'
  <2>1. Go(r, Idle) /\ req[r].pc = "register"
    BY <1>6 DEF RegisterCommit
  <2>2. CASE UNCHANGED names
    BY <1>2, <2>1, <2>2, SerialEnd
  <2>3. CASE names' # names
    <3> DEFINE n == req[r].name
               key == req[r].key
    <3>1. PICK u \in Users : names' = [names EXCEPT ![n] = ActiveRow(u, key)]
      BY <1>6, <2>3 DEF RegisterCommit
    <3>2. n \in Usernames /\ names \in [Usernames -> NameRows]
      BY <2>1 DEF RegistryInv, RegistrationShape, Registrations, TypeOK
    <3>3. /\ names'[n].key = key
          /\ \A m \in Usernames : m # n => names'[m] = names[m]
      BY <3>1, <3>2 DEF ActiveRow
    <3>4. \A m \in Usernames : names[m].active => PointOf[names[m].key] # PointOf[key]
      BY <2>1 DEF SerialInv
    <3> HIDE DEF n, key
    <3>5. OneActiveNamePerKey'
      BY <3>2, <3>3, <3>4 DEF SerialInv, OneActiveNamePerKey
    <3> QED  BY <2>1, <3>5, SerialEnd
  <2> QED  BY <2>2, <2>3
<1>7. ASSUME NEW r \in Requests, NEW u \in Users, NEW n \in Usernames, ChangeStart(r, u, n)
      PROVE  SerialInv'
  <2>1. PICK st : Go(r, st) /\ st.pc \in {"advisory", "change"} /\ names[st.from].active
    BY <1>7 DEF ChangeStart
  <2> QED  BY <1>7, <2>1, SerialRequest DEF ChangeStart
<1>8. ASSUME NEW r \in Requests, ChangeNameCheck(r)  PROVE SerialInv'
  <2>1. req[r] \in Changes /\ UNCHANGED names /\ names[req[r].from].active
    BY <1>8 DEF ChangeNameCheck, RegistryInv, ReadRowsOwned, SerialInv
  <2>2. CASE Go(r, Idle)
    BY <1>2, <2>1, <2>2, SerialEnd
  <2>3. CASE Step(r, "change")
    <3>1. PICK st : Go(r, st) /\ st.pc = "change" /\ st.from = req[r].from
      BY <2>1, <2>3 DEF Step, Changes
    <3> QED  BY <2>1, <3>1, SerialRequest
  <2> QED  BY <1>8, <2>2, <2>3 DEF ChangeNameCheck
<1>9. ASSUME NEW r \in Requests, ChangeCommit(r)  PROVE SerialInv'
  <2>1. Go(r, Idle) /\ names[req[r].from].active
    BY <1>9 DEF ChangeCommit, SerialInv
  <2>2. CASE UNCHANGED names
    BY <1>2, <2>1, <2>2, SerialEnd
  <2>3. CASE names' # names
    <3>1. PICK from \in Usernames, n \in Usernames, u \in Users, key \in Keys :
            Switched(from, n, u, key) /\ from = req[r].from
      BY <1>9, <2>3, ChangeEffect
    <3>2. /\ names[from].key = key /\ names[from].active
          /\ names'[n].key = key /\ names'[from].active = FALSE /\ from # n
          /\ \A m \in Usernames : m # n /\ m # from => names'[m] = names[m]
      BY <2>1, <3>1 DEF Switched, ActiveRow, RegistryInv, TypeOK
    <3>3. \A m \in Usernames : m # from /\ names[m].active => PointOf[names[m].key] # PointOf[key]
      BY <3>2 DEF SerialInv, OneActiveNamePerKey
    <3>4. OneActiveNamePerKey'
      BY <3>2, <3>3 DEF SerialInv, OneActiveNamePerKey
    <3> QED  BY <2>1, <3>4, SerialEnd
  <2> QED  BY <2>2, <2>3
<1>10. ASSUME NEW r \in Requests, Abort(r)  PROVE SerialInv'
  BY <1>2, <1>10, SerialEnd DEF Abort
<1> QED  BY <1>1, <1>3, <1>4, <1>5, <1>6, <1>7, <1>8, <1>9, <1>10
         DEF Next, GenerateAuthChallenge, Expire, PurgeExpired, GrantExtraChanges, vars

(* With one request at a time no curve point has two active names, in       *)
(* whatever encodings its keys are stored.                                  *)
THEOREM KeysUniqueSerially ==
  ASSUME OneAtATime
  PROVE  Spec => []OneActiveNamePerKey
<1>1. Init => SerialInv
  BY DEF Init, SerialInv, OneActiveNamePerKey, Free, Idle
<1>2. RegistryInv /\ RegistryInv' /\ SerialInv /\ [Next]_vars => SerialInv'
  BY SerialKept
<1>3. SerialInv => OneActiveNamePerKey
  BY DEF SerialInv
<1> QED  BY <1>1, <1>2, <1>3, RegistryInvariant, PTL DEF Spec

(* However registrations race, names that are active for one curve point    *)
(* are stored with different encodings of it; where clients keep to one     *)
(* encoding, the unique index alone makes active names one per key.         *)
THEOREM KeysUniqueInOneEncoding ==
  ASSUME \A k, l \in Keys : PointOf[k] = PointOf[l] => k = l
  PROVE  Spec => []OneActiveNamePerKey
<1>1. RegistryInv => OneActiveNamePerKey
  <2>1. RegistryInv => \A n \in Usernames : names[n].active => names[n].key \in Keys
    BY DEF RegistryInv, NamesInv, Mirrored, Free
  <2> QED  BY <2>1 DEF RegistryInv, NamesInv, IndexUnique, OneActiveNamePerKey
<1> QED  BY <1>1, RegistryInvariant, PTL
=============================================================================
