---------------------------- MODULE ReplayGuard ----------------------------
(***************************************************************************)
(* The replay cache of signed requests, src/auth/spark-signature.guard.ts. *)
(* canActivate compares the signed timestamp with the clock, awaits the    *)
(* signature check and the lookup of the account, and only then consults   *)
(* and fills the cache; the clock runs and other requests go through in    *)
(* between.  A message stands for one canonical message (method, URL,      *)
(* timestamp and body hash), so the time it was signed at is part of it.   *)
(*                                                                         *)
(* The cache is the process's own: a restart empties it.  The clock is     *)
(* assumed never to step back.                                             *)
(***************************************************************************)
EXTENDS Naturals, FiniteSets

CONSTANTS Pubkeys, Messages, Requests,
          SignedAt,          \* the timestamp a message carries
          Exempt,            \* the messages whose method is GET or HEAD
          Skew,              \* maxSkewMs
          MaxPerPubkey,      \* REPLAY_CACHE_MAX_PER_PUBKEY
          SweepThreshold,    \* REPLAY_CACHE_SWEEP_THRESHOLD
          MaxTime            \* bound: the clock

ASSUME GuardAssumption == /\ SignedAt \in [Messages -> Nat]
                          /\ Skew \in Nat
                          /\ MaxPerPubkey \in Nat
                          /\ MaxTime \in Nat

VARIABLES now,       \* Date.now()
          buckets,   \* seenSignatures: the keys that have a bucket
          cache,     \* and what it holds, nothing for the others
          req,       \* the requests between skew check and cache
          granted    \* history: protected requests let through, per process

vars == <<now, buckets, cache, req, granted>>

Idle == [pc |-> "idle"]
Calls == [pc : {"verify"}, key : Pubkeys, msg : Messages]

TypeOK == /\ now \in 0..MaxTime
          /\ buckets \in SUBSET Pubkeys
          /\ cache \in [Pubkeys -> SUBSET Messages]
          /\ req \in [Requests -> Calls \cup {Idle}]
          /\ granted \in SUBSET (Pubkeys \X Messages)

Init == /\ now = 0
        /\ buckets = {}
        /\ cache = [k \in Pubkeys |-> {}]
        /\ req = [r \in Requests |-> Idle]
        /\ granted = {}

-----------------------------------------------------------------------------
Expiry(m) == SignedAt[m] + Skew

(* |Date.now() - ts| <= maxSkewMs.                                          *)
InSkew(m) == now <= Expiry(m) /\ SignedAt[m] <= now + Skew

(* Mutants: expiry times are kept for entries; an entry goes at its expiry. *)
PrunedToTimes(bucket) == {Expiry(m) : m \in {x \in bucket : Expiry(x) >= now}}
PrunedEarly(bucket)   == {m \in bucket : Expiry(m) > now}

(* pruneBucket: at exactly its expiry an entry stays.                       *)
Pruned(bucket) == {m \in bucket : Expiry(m) >= now}

(* sweepSeenSignatures runs when there are too many buckets: it prunes all  *)
(* of them and drops the empty ones.                                        *)
SweepDue == Cardinality(buckets) > SweepThreshold

(* Mutant: the sweep clears the cache.                                      *)
SweptAll == IF SweepDue THEN [k \in Pubkeys |-> {}] ELSE cache

Swept == IF SweepDue THEN [k \in Pubkeys |-> Pruned(cache[k])] ELSE cache

SweptBuckets == IF SweepDue THEN {k \in buckets : Swept[k] # {}} ELSE buckets

(* The bucket rejectReplay looks at.                                        *)
Current(k) == Pruned(Swept[k])

(* Mutant: one signature too many.                                          *)
AdmitsOver(k, m) == m \notin Current(k) /\ Cardinality(Current(k)) <= MaxPerPubkey

(* Whether rejectReplay lets m through.                                     *)
Admits(k, m) == m \notin Current(k) /\ Cardinality(Current(k)) < MaxPerPubkey

-----------------------------------------------------------------------------
(* canActivate up to its first await.                                       *)
Arrive(r, k, m) ==
  /\ req[r] = Idle
  /\ InSkew(m)
  /\ req' = [req EXCEPT ![r] = [pc |-> "verify", key |-> k, msg |-> m]]
  /\ UNCHANGED <<now, buckets, cache, granted>>

(* A request ends without having touched the cache: its signature does not  *)
(* verify, its key has no active name, or it is a read, which is let        *)
(* through as often as it is sent.                                          *)
BypassCache(r) ==
  /\ req[r] # Idle
  /\ req' = [req EXCEPT ![r] = Idle]
  /\ UNCHANGED <<now, buckets, cache, granted>>

(* rejectReplay: sweep, prune, then admit and remember, or throw.           *)
RejectReplay(r) ==
  /\ req[r] # Idle /\ req[r].msg \notin Exempt
  /\ LET k == req[r].key
         m == req[r].msg
     IN  /\ IF Admits(k, m)
            THEN /\ cache' = [Swept EXCEPT ![k] = Current(k) \cup {m}]
                 /\ granted' = granted \cup {<<k, m>>}
            ELSE /\ cache' = [Swept EXCEPT ![k] = Current(k)]
                 /\ UNCHANGED granted
         /\ buckets' = SweptBuckets \cup {k}
  /\ req' = [req EXCEPT ![r] = Idle]
  /\ UNCHANGED now

Tick == /\ now < MaxTime
        /\ now' = now + 1
        /\ UNCHANGED <<buckets, cache, req, granted>>

Restart == /\ buckets' = {}
           /\ cache' = [k \in Pubkeys |-> {}]
           /\ req' = [r \in Requests |-> Idle]
           /\ granted' = {}
           /\ UNCHANGED now

Next == \/ \E r \in Requests :
             \/ \E k \in Pubkeys, m \in Messages : Arrive(r, k, m)
             \/ BypassCache(r) \/ RejectReplay(r)
        \/ Tick
        \/ Restart

Spec == Init /\ [][Next]_vars

-----------------------------------------------------------------------------
(* As long as a request can still pass the skew check, the cache knows it   *)
(* exactly when it was let through: no sweep, prune, full bucket or other   *)
(* key's traffic forgets one early, and no refused request is remembered.   *)
CacheExact ==
  \A k \in Pubkeys, m \in Messages :
    now <= Expiry(m) => (m \in cache[k] <=> <<k, m>> \in granted)

(* "Hard cap on remembered signatures per pubkey".                          *)
BucketBounded == \A k \in Pubkeys : Cardinality(cache[k]) <= MaxPerPubkey

RepeatsOnlyAfterWindow ==
  \A r \in Requests :
    /\ RejectReplay(r)
    /\ Admits(req[r].key, req[r].msg)
    /\ <<req[r].key, req[r].msg>> \in granted
    => now > Expiry(req[r].msg)

(* "Throws when this exact request has already been accepted": within one   *)
(* process, a protected request that was let through is let through again   *)
(* only if its skew check fell inside the window and its cache check after  *)
(* it, when the awaits between them outlast the window.                     *)
NoReplayInWindow == [][RepeatsOnlyAfterWindow]_vars
=============================================================================
