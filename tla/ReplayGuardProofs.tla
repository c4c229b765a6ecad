------------------------- MODULE ReplayGuardProofs -------------------------
(***************************************************************************)
(* Proofs about the replay cache, for every clock, skew, cap and sweep     *)
(* threshold, and any number of keys, messages and requests.               *)
(***************************************************************************)
EXTENDS ReplayGuard, TLAPS, FiniteSetTheorems

BucketsFinite == \A k \in Pubkeys : IsFiniteSet(cache[k])

GuardInv == TypeOK /\ CacheExact /\ BucketsFinite /\ BucketBounded

(* What rejectReplay keeps of a bucket: everything that has not expired,    *)
(* and nothing it did not hold.                                             *)
LEMMA CurrentFacts ==
  ASSUME TypeOK, NEW k \in Pubkeys
  PROVE  /\ Swept[k] \subseteq cache[k]
         /\ Current(k) \subseteq cache[k]
         /\ \A m \in Messages : now <= Expiry(m) =>
              (m \in Swept[k] <=> m \in cache[k]) /\ (m \in Current(k) <=> m \in cache[k])
<1> USE GuardAssumption
<1>1. cache[k] \subseteq Messages
  BY DEF TypeOK
<1>2. Swept[k] \in {cache[k], Pruned(cache[k])}
  BY DEF Swept, TypeOK
<1>3. \A S : Pruned(S) \subseteq S
  BY DEF Pruned
<1>4. \A S, m : m \in S /\ m \in Messages /\ now <= Expiry(m) => m \in Pruned(S)
  BY DEF Pruned, Expiry, TypeOK
<1> QED
  BY <1>1, <1>2, <1>3, <1>4 DEF Current

(* A bucket that grows by one stays finite and within the cap.              *)
LEMMA BucketGrowth ==
  ASSUME NEW S, IsFiniteSet(S), NEW m, NEW T, IsFiniteSet(T), S \subseteq T,
         Cardinality(T) <= MaxPerPubkey
  PROVE  /\ IsFiniteSet(S)
         /\ Cardinality(S) <= MaxPerPubkey
         /\ IsFiniteSet(S \cup {m})
         /\ Cardinality(S) < MaxPerPubkey => Cardinality(S \cup {m}) <= MaxPerPubkey
<1> USE GuardAssumption
<1>1. Cardinality(S) \in Nat /\ Cardinality(T) \in Nat /\ Cardinality(S) <= Cardinality(T)
  BY FS_CardinalityType, FS_Subset
<1>2. /\ IsFiniteSet(S \cup {m})
      /\ Cardinality(S \cup {m}) = IF m \in S THEN Cardinality(S) ELSE Cardinality(S) + 1
  BY FS_AddElement
<1> QED
  BY <1>1, <1>2

(* The empty cache satisfies the invariant.                                 *)
LEMMA InitGuardInv == Init => GuardInv
<1> USE GuardAssumption
<1> SUFFICES ASSUME Init PROVE GuardInv
  OBVIOUS
<1>1. TypeOK
  BY DEF Init, TypeOK, Idle
<1>2. CacheExact
  BY DEF Init, CacheExact
<1>3. BucketsFinite /\ BucketBounded
  BY FS_EmptySet DEF Init, BucketsFinite, BucketBounded
<1> QED
  BY <1>1, <1>2, <1>3 DEF GuardInv

(* rejectReplay keeps the cache exact and bounded.                          *)
LEMMA RejectReplayKeepsInv ==
  ASSUME GuardInv, NEW r \in Requests, RejectReplay(r)
  PROVE  GuardInv'
<1> USE GuardAssumption
<1> DEFINE k == req[r].key
           m == req[r].msg
<1>1. TypeOK /\ CacheExact /\ BucketsFinite /\ BucketBounded
  BY DEF GuardInv
<1>2. /\ req[r] \in Calls
      /\ k \in Pubkeys /\ m \in Messages
      /\ now' = now
      /\ req' = [req EXCEPT ![r] = Idle]
      /\ buckets' = SweptBuckets \cup {k}
  BY <1>1 DEF RejectReplay, TypeOK, Calls
<1>3. \/ /\ Admits(k, m)
         /\ cache' = [Swept EXCEPT ![k] = Current(k) \cup {m}]
         /\ granted' = granted \cup {<<k, m>>}
      \/ /\ cache' = [Swept EXCEPT ![k] = Current(k)]
         /\ granted' = granted
  BY DEF RejectReplay
<1>4. /\ DOMAIN Swept = Pubkeys
      /\ Swept = [x \in Pubkeys |-> Swept[x]]
  BY <1>1 DEF Swept, TypeOK
<1>5. \A x \in Pubkeys :
        /\ Swept[x] \subseteq cache[x]
        /\ Current(x) \subseteq cache[x]
        /\ \A y \in Messages : now <= Expiry(y) =>
             (y \in Swept[x] <=> y \in cache[x]) /\ (y \in Current(x) <=> y \in cache[x])
  BY <1>1, CurrentFacts
<1> HIDE DEF k, m
<1>6. \A x \in Pubkeys : cache'[x] \in {Swept[x], Current(x), Current(x) \cup {m}}
  BY <1>2, <1>3, <1>4
<1>7. TypeOK'
  <2>1. buckets' \in SUBSET Pubkeys
    BY <1>1, <1>2 DEF TypeOK, SweptBuckets
  <2>2. cache' \in [Pubkeys -> SUBSET Messages]
    <3>1. DOMAIN cache' = Pubkeys /\ cache' = [x \in Pubkeys |-> cache'[x]]
      BY <1>3, <1>4
    <3>2. \A x \in Pubkeys : cache'[x] \subseteq Messages
      BY <1>1, <1>2, <1>5, <1>6 DEF TypeOK
    <3> QED
      BY <3>1, <3>2
  <2>3. req' \in [Requests -> Calls \cup {Idle}]
    BY <1>1, <1>2 DEF TypeOK
  <2>4. granted' \in SUBSET (Pubkeys \X Messages)
    BY <1>1, <1>2, <1>3 DEF TypeOK
  <2> QED
    BY <1>1, <1>2, <2>1, <2>2, <2>3, <2>4 DEF TypeOK
<1>8. CacheExact'
  <2> SUFFICES ASSUME NEW x \in Pubkeys, NEW y \in Messages, now <= Expiry(y)
               PROVE  y \in cache'[x] <=> <<x, y>> \in granted'
    BY <1>2 DEF CacheExact, Expiry
  <2>1. y \in cache[x] <=> <<x, y>> \in granted
    BY <1>1 DEF CacheExact
  <2>2. CASE x # k
    <3>1. cache'[x] = Swept[x] /\ (<<x, y>> \in granted' <=> <<x, y>> \in granted)
      BY <1>2, <1>3, <1>4, <2>2
    <3> QED
      BY <1>5, <2>1, <3>1
  <2>3. CASE x = k
    BY <1>2, <1>3, <1>4, <1>5, <2>1, <2>3
  <2> QED
    BY <2>2, <2>3
<1>9. BucketsFinite' /\ BucketBounded'
  <2> SUFFICES ASSUME NEW x \in Pubkeys
               PROVE  IsFiniteSet(cache'[x]) /\ Cardinality(cache'[x]) <= MaxPerPubkey
    BY DEF BucketsFinite, BucketBounded
  <2>1. IsFiniteSet(cache[x]) /\ Cardinality(cache[x]) <= MaxPerPubkey
    BY <1>1 DEF BucketsFinite, BucketBounded
  <2>2. IsFiniteSet(Swept[x]) /\ IsFiniteSet(Current(x))
    BY <1>5, <2>1, FS_Subset
  <2>3. Cardinality(Swept[x]) <= MaxPerPubkey
    BY <1>5, <2>1, <2>2, BucketGrowth
  <2>4. Cardinality(Current(x)) <= MaxPerPubkey
    BY <1>5, <2>1, <2>2, BucketGrowth
  <2>5. /\ IsFiniteSet(Current(x) \cup {m})
        /\ Cardinality(Current(x)) < MaxPerPubkey
             => Cardinality(Current(x) \cup {m}) <= MaxPerPubkey
    BY <1>5, <2>1, <2>2, BucketGrowth
  <2>6. \/ cache'[x] \in {Swept[x], Current(x)}
        \/ cache'[x] = Current(x) \cup {m} /\ Cardinality(Current(x)) < MaxPerPubkey
    BY <1>2, <1>3, <1>4 DEF Admits
  <2> QED
    BY <2>2, <2>3, <2>4, <2>5, <2>6
<1> QED
  BY <1>7, <1>8, <1>9 DEF GuardInv

(* Every step preserves the invariant.                                      *)
LEMMA NextGuardInv == GuardInv /\ [Next]_vars => GuardInv'
<1> USE GuardAssumption
<1> SUFFICES ASSUME GuardInv, [Next]_vars PROVE GuardInv'
  OBVIOUS
<1>0. TypeOK /\ CacheExact /\ BucketsFinite /\ BucketBounded
  BY DEF GuardInv
<1>1. ASSUME NEW r \in Requests, NEW k \in Pubkeys, NEW m \in Messages, Arrive(r, k, m)
      PROVE  GuardInv'
  <2>1. TypeOK'
    BY <1>0, <1>1 DEF Arrive, TypeOK, Calls
  <2> QED
    BY <1>0, <1>1, <2>1
       DEF Arrive, GuardInv, CacheExact, BucketsFinite, BucketBounded, Expiry
<1>2. ASSUME NEW r \in Requests, BypassCache(r) PROVE GuardInv'
  <2>1. TypeOK'
    BY <1>0, <1>2 DEF BypassCache, TypeOK
  <2> QED
    BY <1>0, <1>2, <2>1
       DEF BypassCache, GuardInv, CacheExact, BucketsFinite, BucketBounded, Expiry
<1>3. ASSUME NEW r \in Requests, RejectReplay(r) PROVE GuardInv'
  BY <1>3, RejectReplayKeepsInv
<1>4. CASE Tick
  <2>1. TypeOK'
    BY <1>0, <1>4 DEF Tick, TypeOK
  <2>2. CacheExact'
    <3> SUFFICES ASSUME NEW k \in Pubkeys, NEW m \in Messages, now + 1 <= Expiry(m)
                 PROVE  m \in cache[k] <=> <<k, m>> \in granted
      BY <1>4 DEF Tick, CacheExact, Expiry
    <3>1. now <= Expiry(m)
      BY <1>0 DEF TypeOK, Expiry
    <3> QED
      BY <1>0, <3>1 DEF CacheExact
  <2> QED
    BY <1>0, <1>4, <2>1, <2>2 DEF Tick, GuardInv, BucketsFinite, BucketBounded
<1>5. CASE Restart
  <2>1. TypeOK'
    BY <1>0, <1>5 DEF Restart, TypeOK
  <2>2. CacheExact'
    BY <1>5 DEF Restart, CacheExact
  <2>3. BucketsFinite' /\ BucketBounded'
    BY <1>5, FS_EmptySet DEF Restart, BucketsFinite, BucketBounded
  <2> QED
    BY <2>1, <2>2, <2>3 DEF GuardInv
<1>6. CASE UNCHANGED vars
  BY <1>0, <1>6
     DEF vars, GuardInv, TypeOK, CacheExact, BucketsFinite, BucketBounded, Expiry
<1> QED
  BY <1>1, <1>2, <1>3, <1>4, <1>5, <1>6 DEF Next

(* The cache is exact and its buckets bounded in every reachable state.     *)
THEOREM GuardInvariant == Spec => []GuardInv
<1> QED
  BY InitGuardInv, NextGuardInv, PTL DEF Spec

(* Every state has the types the guard declares.                            *)
THEOREM TypeCorrect == Spec => []TypeOK
<1>1. GuardInv => TypeOK
  BY DEF GuardInv
<1> QED  BY <1>1, GuardInvariant, PTL

(* A request that can still pass the skew check is in the cache exactly     *)
(* when it was let through.                                                 *)
THEOREM CacheIsExact == Spec => []CacheExact
<1>1. GuardInv => CacheExact
  BY DEF GuardInv
<1> QED
  BY <1>1, GuardInvariant, PTL

(* A bucket never holds more signatures than the cap.                       *)
THEOREM CacheIsBounded == Spec => []BucketBounded
<1>1. GuardInv => BucketBounded
  BY DEF GuardInv
<1> QED
  BY <1>1, GuardInvariant, PTL

(* A protected request is let through a second time only when its cache     *)
(* check came after its window.                                             *)
THEOREM ReplayRejected == Spec => NoReplayInWindow
<1> USE GuardAssumption
<1>1. GuardInv => RepeatsOnlyAfterWindow
  <2> SUFFICES ASSUME GuardInv, NEW r \in Requests, RejectReplay(r),
                      Admits(req[r].key, req[r].msg),
                      <<req[r].key, req[r].msg>> \in granted
               PROVE  now > Expiry(req[r].msg)
    BY DEF RepeatsOnlyAfterWindow
  <2> DEFINE k == req[r].key
             m == req[r].msg
  <2>1. TypeOK /\ CacheExact
    BY DEF GuardInv
  <2>2. k \in Pubkeys /\ m \in Messages
    BY <2>1 DEF RejectReplay, TypeOK, Calls
  <2>3. m \notin Current(k)
    BY DEF Admits
  <2>4. ~(now <= Expiry(m))
    BY <2>1, <2>2, <2>3, CurrentFacts DEF CacheExact
  <2> QED
    BY <2>1, <2>2, <2>4 DEF TypeOK, Expiry
<1> QED
  BY <1>1, GuardInvariant, PTL DEF NoReplayInWindow
=============================================================================
