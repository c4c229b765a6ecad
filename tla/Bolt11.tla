------------------------------- MODULE Bolt11 -------------------------------
(***************************************************************************)
(* Reading and accepting the invoice of a quote: readBolt11Tags of         *)
(* src/common/bolt11-tags.ts, the loop one field per step, and the two     *)
(* callers that work on what it returns: bolt11DescriptionHash of          *)
(* src/common/bolt11-description-hash.ts and validateLightningQuote of     *)
(* src/flashnet/lightning-quote-validation.ts.                             *)
(*                                                                         *)
(* An invoice is the words bech32 decodes it to, and the amount in its     *)
(* prefix.  Its signature is one flag: the payee's key, the low-S rule and *)
(* the verification itself belong to the cryptographic libraries.  So are  *)
(* the quote's own fields that are only checked for their form.            *)
(***************************************************************************)
EXTENDS Integers, Sequences

CONSTANTS Base,             \* a word is a digit of this base (32)
          TimestampWords, SignatureWords,
          P, X, D, S, H,    \* payment hash, expiry, description, secret,
                            \* description hash
          SingleTags,       \* the tags that may appear once
          HashWords,        \* words of a 32-byte field (52)
          PadUnit,          \* its last word is a multiple of this (16)
          DefaultExpiry,    \* of an invoice without X (3600)
          MaxSafe,          \* the last second whose milliseconds are exact
          NoHash,
          Quotes,           \* the quotes received
          Now               \* Date.now()

Word == 0..(Base - 1)

ASSUME Bolt11Assumption ==
  /\ Base \in Nat \ {0} /\ TimestampWords \in Nat /\ SignatureWords \in Nat
  /\ DefaultExpiry \in Nat /\ MaxSafe \in Nat /\ Now \in Nat
  /\ \A q \in Quotes : /\ q.words \in Seq(Word)
                       /\ q.prefix \in [digits : Nat, unit : {"p", "n", "u", "m", "btc"}]
                       /\ q.sats \in Nat /\ q.expiry \in Nat

VARIABLES quote,      \* the quote at hand
          offset,     \* where the next field starts
          tags,       \* the fields read, by tag
          outcome,    \* of readBolt11Tags
          starts      \* history: where the fields read so far started

vars == <<quote, offset, tags, outcome, starts>>

-----------------------------------------------------------------------------
(* words[i] of the code is words[i + 1] here.                               *)
End         == Len(quote.words) - SignatureWords
TagAt(o)    == quote.words[o + 1]
LengthAt(o) == quote.words[o + 2] * Base + quote.words[o + 3]
DataAt(o)   == SubSeq(quote.words, o + 4, o + 3 + LengthAt(o))
NextAt(o)   == o + 3 + LengthAt(o)

NoTags == [t \in {} |-> <<>>]
With(t, data) == [u \in DOMAIN tags \cup {t} |-> IF u = t THEN data ELSE tags[u]]

Init == /\ quote \in Quotes
        /\ offset = TimestampWords
        /\ tags = NoTags
        /\ outcome = "reading"
        /\ starts = {}

(* Mutant: a single-use tag may come again.                                 *)
RepeatAllowed(o) == o + 3 > End \/ NextAt(o) > End

(* The three errors of the loop.                                            *)
BadField(o) == \/ o + 3 > End
               \/ NextAt(o) > End
               \/ TagAt(o) \in SingleTags \cap DOMAIN tags

ReadField ==
  /\ outcome = "reading" /\ offset < End
  /\ ~BadField(offset)
  /\ tags' = With(TagAt(offset), DataAt(offset))
  /\ offset' = NextAt(offset)
  /\ starts' = starts \cup {offset}
  /\ UNCHANGED <<quote, outcome>>

Throw == /\ outcome = "reading" /\ offset < End
         /\ BadField(offset)
         /\ outcome' = "thrown"
         /\ UNCHANGED <<quote, offset, tags, starts>>

Return == /\ outcome = "reading" /\ offset >= End
          /\ outcome' = "read"
          /\ UNCHANGED <<quote, offset, tags, starts>>

Next == ReadField \/ Throw \/ Return
Spec == Init /\ [][Next]_vars

-----------------------------------------------------------------------------
Has(t) == t \in DOMAIN tags
HasHashField(t) == Has(t) /\ Len(tags[t]) = HashWords

(* bech32.fromWords: the bytes of the words, the rest bits dropped; it      *)
(* throws when they are not zero.                                           *)
Converts(words)  == words # <<>> => words[Len(words)] % PadUnit = 0
FromWords(words) == IF words = <<>> THEN <<>>
                    ELSE [words EXCEPT ![Len(words)] = @ \div PadUnit]

Bolt11DescriptionHash ==
  IF outcome = "read" /\ HasHashField(H) /\ Converts(tags[H])
  THEN FromWords(tags[H]) ELSE NoHash

(* The value of words as one number.                                        *)
Number(words) ==
  LET value[i \in 0..Len(words)] == IF i = 0 THEN 0 ELSE value[i - 1] * Base + words[i]
  IN  value[Len(words)]

(* factors: what one unit of the prefix is worth in msat, for p in tenths.  *)
(* One BTC, no unit, is 10^11: beyond TLC, so no checked prefix has none.   *)
Factor(u) == IF u = "p" THEN 1 ELSE IF u = "n" THEN 100 ELSE IF u = "u" THEN 100000
             ELSE IF u = "m" THEN 100000000 ELSE 1000 * 100000000

(* Mutant: a part of a pico amount below one msat is dropped.               *)
MsatRounded(p) == LET raw == p.digits * Factor(p.unit)
                  IN  IF p.unit = "p" THEN raw \div 10 ELSE raw

(* The amount of the prefix in msat; -1 when that is not a whole number.    *)
Msat(p) == LET raw == p.digits * Factor(p.unit)
           IN  IF p.unit # "p" THEN raw ELSE IF raw % 10 = 0 THEN raw \div 10 ELSE -1

Lifetime == IF Has(X) THEN Number(tags[X]) ELSE DefaultExpiry
InvoiceExpiry == Number(SubSeq(quote.words, 1, TimestampWords)) + Lifetime

(* What is checked before the description hash, and after it.               *)
Payable == /\ quote.formed
           /\ quote.expiry > Now
           /\ Len(quote.words) >= TimestampWords + SignatureWords
           /\ Msat(quote.prefix) = quote.sats * 1000
           /\ outcome = "read"
           /\ HasHashField(P) /\ HasHashField(S)
           /\ Has(D) # Has(H)
           /\ Has(H) => HasHashField(H)
           /\ quote.asked # NoHash /\ Has(H) => Converts(tags[H])

(* Mutant: any description hash will do.                                    *)
CarriesAny == quote.asked = NoHash \/ Has(H)

Carries == \/ quote.asked = NoHash
           \/ Has(H) /\ FromWords(tags[H]) = quote.asked
Signed  == quote.signed /\ InvoiceExpiry <= MaxSafe /\ InvoiceExpiry > Now

(* validateLightningQuote: accepted, or refused for its description hash or *)
(* for anything else.                                                       *)
Validation == IF ~Payable THEN "invalid"
              ELSE IF ~Carries THEN "description_hash_mismatch"
              ELSE IF ~Signed THEN "invalid" ELSE "valid"

(* The expiry that is stored.                                               *)
ExpiresAt == IF quote.expiry < InvoiceExpiry THEN quote.expiry ELSE InvoiceExpiry

-----------------------------------------------------------------------------
(* F is the set of places where the fields of the body start: they tile it  *)
(* from the timestamp to the signature.                                     *)
Tiles(F) ==
  /\ IF TimestampWords < End THEN TimestampWords \in F ELSE F = {}
  /\ \A o \in F : /\ TimestampWords <= o /\ o + 3 <= End
                  /\ NextAt(o) \in F \cup {End}
  /\ \A o \in F : o = TimestampWords \/ \E b \in F : NextAt(b) = o

SingleUse(F) == \A o, b \in F : TagAt(o) = TagAt(b) /\ TagAt(o) \in SingleTags => o = b

(* The data of the last field of each tag.                                  *)
TagMap(F) == [t \in {TagAt(o) : o \in F} |->
                DataAt(CHOOSE o \in F : TagAt(o) = t /\ \A b \in F : TagAt(b) = t => b <= o)]

(* "Throws on a field that overruns the signature or a repeated single-use  *)
(* tag": the loop returns exactly for the bodies that are a sequence of     *)
(* whole fields, and then with those fields; it never reads past the body   *)
(* on the way, whatever lengths the words claim.                            *)
ReadsTheBody ==
  LET Bodies == SUBSET (TimestampWords..(End - 1))
  IN  /\ outcome = "read" => /\ Tiles(starts) /\ SingleUse(starts)
                             /\ tags = TagMap(starts)
      /\ outcome = "thrown" => \A F \in Bodies : ~(Tiles(F) /\ SingleUse(F))

(* "The one tag reader for every BOLT11 check in this service, so they      *)
(* cannot disagree": a quote accepted for a description hash is one whose   *)
(* invoice the other check finds to carry that hash.                        *)
ChecksAgree ==
  outcome # "reading" /\ Validation = "valid" /\ quote.asked # NoHash
    => Bolt11DescriptionHash = quote.asked

(* One unit of the prefix in tenths of a msat.                              *)
Tenths(u) == IF u = "p" THEN 1 ELSE IF u = "n" THEN 1000 ELSE IF u = "u" THEN 1000000
             ELSE IF u = "m" THEN 1000000000 ELSE 1000 * 1000000000

(* "Validate the amount and lifetime before handing an upstream invoice to  *)
(* a payer": the payer of an accepted quote pays exactly what was asked, to *)
(* the tenth of a msat, and what is stored as its expiry is in the future   *)
(* and outlives neither the quote nor the signed invoice.                   *)
AcceptedIsPayable ==
  outcome # "reading" /\ Validation = "valid" =>
    LET signedUntil == Number(SubSeq(quote.words, 1, TimestampWords)) + Lifetime
    IN  /\ quote.prefix.digits * Tenths(quote.prefix.unit) = quote.sats * 10000
        /\ Now < ExpiresAt /\ ExpiresAt <= quote.expiry /\ ExpiresAt <= signedUntil
=============================================================================
