-------------------------- MODULE FunctionsProofs --------------------------
(***************************************************************************)
(* Proofs about the algorithms without shared state, for every input: what *)
(* the BOLT11 reader returns and refuses and what its two callers make of  *)
(* it; which signature the two writings of one are read as; what the table *)
(* of the reserved usernames holds, and the verdict drawn from it.         *)
(***************************************************************************)
EXTENDS Bolt11, SignatureFormats, ReservedUsernames, WellFoundedInduction, TLAPS

-----------------------------------------------------------------------------
(* A set of numbers has a least member.                                     *)
LEMMA LeastExists ==
  ASSUME NEW Z \in SUBSET Nat, Z # {}
  PROVE  \E m \in Z : \A x \in Z : m <= x
<1> DEFINE R == {ss \in Nat \X Nat : ss[1] < ss[2]}
<1>1. R = OpToRel(<, Nat)
  BY Zenon DEF OpToRel
<1>2. IsWellFoundedOn(R, Nat)
  BY <1>1, NatLessThanWellFounded
<1>3. PICK m \in Z : \A y \in Z : ~ (<<y, m>> \in R)
  <2> HIDE DEF R
  <2> QED  BY <1>2, WFMin
<1>4. \A x \in Z : ~ (x < m)
  BY <1>3
<1> QED  BY <1>4

-----------------------------------------------------------------------------
(* The reader.                                                              *)
-----------------------------------------------------------------------------
(* Every tag read has a last field, and tags holds the data of that one.    *)
LastOf(F, o) == \A b \in F : TagAt(b) = TagAt(o) => b <= o

TagsRead ==
  /\ DOMAIN tags = {TagAt(o) : o \in starts}
  /\ tags = [t \in DOMAIN tags |-> tags[t]]
  /\ \A o \in starts : \E l \in starts : TagAt(l) = TagAt(o) /\ LastOf(starts, l)
  /\ \A o \in starts : LastOf(starts, o) => tags[TagAt(o)] = DataAt(o)

(* The fields read so far lie end to end between timestamp and offset.      *)
Chained ==
  /\ offset > TimestampWords <=> starts # {}
  /\ starts # {} => /\ TimestampWords \in starts
                    /\ \E b \in starts : NextAt(b) = offset
  /\ \A o \in starts : /\ TimestampWords <= o /\ o < offset /\ o + 3 <= End
                       /\ NextAt(o) \in starts \cup {offset}
                       /\ o = TimestampWords \/ \E b \in starts : NextAt(b) = o

(* There was no choice: a division of the body into fields has them all,    *)
(* and the next one at offset.                                              *)
Forced == \A F \in SUBSET (TimestampWords..(End - 1)) :
            Tiles(F) => starts \subseteq F /\ (offset < End => offset \in F)

ReaderInv ==
  /\ quote \in Quotes /\ offset \in Nat /\ starts \in SUBSET Nat
  /\ offset >= TimestampWords
  /\ TimestampWords < End => offset <= End
  /\ TagsRead /\ Chained /\ SingleUse(starts) /\ Forced
  /\ outcome \in {"reading", "read", "thrown"}
  /\ outcome = "read" => offset >= End
  /\ outcome = "thrown" => offset < End /\ BadField(offset)

(* The words of a field inside the body are words.                          *)
LEMMA WordsTyped ==
  ASSUME quote \in Quotes
  PROVE  /\ End \in Int
         /\ \A o \in Nat : o + 3 <= End => /\ TagAt(o) \in Nat /\ LengthAt(o) \in Nat
                                           /\ NextAt(o) \in Nat /\ NextAt(o) >= o + 3
<1>1. quote.words \in Seq(Word) /\ Base \in Nat /\ SignatureWords \in Nat
  BY Bolt11Assumption
<1>2. Len(quote.words) \in Nat /\ End \in Int /\ End <= Len(quote.words)
  BY <1>1 DEF End
<1>3. ASSUME NEW o \in Nat, o + 3 <= End
      PROVE  /\ TagAt(o) \in Nat /\ LengthAt(o) \in Nat
             /\ NextAt(o) \in Nat /\ NextAt(o) >= o + 3
  <2>1. {o + 1, o + 2, o + 3} \subseteq 1..Len(quote.words)
    BY <1>2, <1>3
  <2>2. \A i \in 1..Len(quote.words) : quote.words[i] \in Nat
    <3>1. \A w \in Word : w \in Nat
      BY <1>1 DEF Word
    <3>2. \A i \in 1..Len(quote.words) : quote.words[i] \in Word
      BY <1>1
    <3> QED  BY <3>1, <3>2
  <2>3. TagAt(o) \in Nat /\ LengthAt(o) \in Nat
    <3>1. \A a, b, c \in Nat : a * b + c \in Nat
      OBVIOUS
    <3>2. quote.words[o + 1] \in Nat /\ quote.words[o + 2] \in Nat /\ quote.words[o + 3] \in Nat
      BY <2>1, <2>2
    <3> QED  BY <3>1, <3>2, <1>1, Zenon DEF TagAt, LengthAt
  <2> QED  BY <2>3 DEF NextAt
<1> QED  BY <1>2, <1>3

(* readBolt11Tags starts before the first field.                            *)
LEMMA ReaderInit == Init => ReaderInv
<1> SUFFICES ASSUME Init PROVE ReaderInv
  OBVIOUS
<1>1. quote \in Quotes /\ End \in Int /\ TimestampWords \in Nat
  BY WordsTyped, Bolt11Assumption DEF Init
<1>2. TagsRead /\ Chained /\ SingleUse(starts)
  BY <1>1 DEF Init, TagsRead, Chained, SingleUse, NoTags
<1>3. Forced
  BY <1>1 DEF Init, Forced, Tiles
<1> QED  BY <1>1, <1>2, <1>3 DEF Init, ReaderInv

(* A field read goes to the end of the chain.                               *)
LEMMA ReadFieldKeeps == ReaderInv /\ ReadField => ReaderInv'
<1> SUFFICES ASSUME ReaderInv, ReadField PROVE ReaderInv'
  OBVIOUS
<1>1. /\ quote' = quote /\ outcome' = outcome /\ outcome = "reading"
      /\ offset < End /\ offset + 3 <= End /\ NextAt(offset) <= End
      /\ offset' = NextAt(offset) /\ starts' = starts \cup {offset}
      /\ tags' = With(TagAt(offset), DataAt(offset))
      /\ ~ (TagAt(offset) \in SingleTags \cap DOMAIN tags)
  <2>1. quote \in Quotes /\ offset \in Nat
    BY DEF ReaderInv
  <2>2. End \in Int
    BY <2>1, WordsTyped
  <2>3. offset + 3 <= End
    BY <2>1, <2>2 DEF ReadField, BadField
  <2>4. NextAt(offset) <= End
    BY <2>1, <2>2, <2>3, WordsTyped DEF ReadField, BadField
  <2> QED  BY <2>3, <2>4 DEF ReadField, BadField
<1>2. /\ quote \in Quotes /\ offset \in Nat /\ starts \in SUBSET Nat
      /\ offset >= TimestampWords /\ TagsRead /\ Chained /\ SingleUse(starts) /\ Forced
      /\ TimestampWords \in Nat
  BY Bolt11Assumption DEF ReaderInv
<1>3. End \in Int /\ NextAt(offset) \in Nat /\ NextAt(offset) >= offset + 3
      /\ TagAt(offset) \in Nat
  BY <1>1, <1>2, WordsTyped
<1>4. End' = End /\ \A o : TagAt(o)' = TagAt(o) /\ NextAt(o)' = NextAt(o)
                          /\ DataAt(o)' = DataAt(o)
  BY <1>1 DEF End, TagAt, NextAt, DataAt, LengthAt
<1>5. \A o \in starts : o \in Nat /\ o < offset
  BY <1>2 DEF Chained
<1>6. TagsRead'
  <2> DEFINE t == TagAt(offset)
  <2>1. DOMAIN tags' = {TagAt(o) : o \in starts'}
    BY <1>1, <1>2 DEF With, TagsRead
  <2>2. tags' = [u \in DOMAIN tags' |-> tags'[u]]
    BY <1>1 DEF With
  <2>3. LastOf(starts', offset)
    BY <1>1, <1>2, <1>5 DEF LastOf
  <2>4. ASSUME NEW o \in starts, TagAt(o) # t
        PROVE  LastOf(starts', o) <=> LastOf(starts, o)
    BY <2>4, <1>1 DEF LastOf
  <2>5. ASSUME NEW o \in starts'
        PROVE  \E l \in starts' : TagAt(l) = TagAt(o) /\ LastOf(starts', l)
    <3>1. CASE TagAt(o) = t
      BY <3>1, <2>3, <1>1
    <3>2. CASE TagAt(o) # t
      <4>1. o \in starts
        BY <3>2, <1>1
      <4>2. PICK l \in starts : TagAt(l) = TagAt(o) /\ LastOf(starts, l)
        BY <4>1, <1>2 DEF TagsRead
      <4> QED  BY <4>2, <2>4, <3>2, <1>1
    <3> QED  BY <3>1, <3>2
  <2>6. ASSUME NEW o \in starts', LastOf(starts', o)
        PROVE  tags'[TagAt(o)] = DataAt(o)
    <3>1. CASE TagAt(o) = t
      <4>1. o = offset
        BY <3>1, <2>6, <1>1, <1>2, <1>5 DEF LastOf
      <4> QED  BY <4>1, <1>1 DEF With
    <3>2. CASE TagAt(o) # t
      <4>1. o \in starts
        BY <3>2, <1>1
      <4>2. tags[TagAt(o)] = DataAt(o) /\ TagAt(o) \in DOMAIN tags
        BY <4>1, <2>4, <2>6, <3>2, <1>2 DEF TagsRead
      <4> QED  BY <4>2, <3>2, <1>1 DEF With
    <3> QED  BY <3>1, <3>2
  <2> QED  BY <2>1, <2>2, <2>5, <2>6, <1>4 DEF TagsRead, LastOf
<1>7. Chained'
  <2>1. TimestampWords \in starts'
    BY <1>1, <1>2, <1>3 DEF Chained
  <2>2. \A o \in starts' : /\ TimestampWords <= o /\ o < offset' /\ o + 3 <= End
                           /\ NextAt(o) \in starts' \cup {offset'}
                           /\ o = TimestampWords \/ \E b \in starts' : NextAt(b) = o
    BY <1>1, <1>2, <1>3, <1>5 DEF Chained
  <2> QED  BY <2>1, <2>2, <1>1, <1>2, <1>3, <1>4 DEF Chained
<1>8. SingleUse(starts)'
  <2>1. SingleUse(starts')
    <3>1. \A o \in starts : TagAt(o) \in DOMAIN tags
      BY <1>2 DEF TagsRead
    <3> QED  BY <3>1, <1>1, <1>2 DEF SingleUse
  <2> QED  BY <2>1, <1>4 DEF SingleUse
<1>9. Forced'
  <2>1. ASSUME NEW F \in SUBSET (TimestampWords..(End - 1)), Tiles(F)
        PROVE  starts' \subseteq F /\ (offset' < End => offset' \in F)
    <3>1. starts \subseteq F /\ offset \in F
      BY <2>1, <1>1, <1>2 DEF Forced
    <3>2. NextAt(offset) \in F \cup {End}
      BY <3>1, <2>1 DEF Tiles
    <3> QED  BY <3>1, <3>2, <1>1, <1>3
  <2>2. \A F : Tiles(F)' => Tiles(F)
    BY <1>4 DEF Tiles
  <2> QED  BY <2>1, <2>2, <1>4 DEF Forced, Tiles
<1> QED  BY <1>1, <1>2, <1>3, <1>4, <1>6, <1>7, <1>8, <1>9 DEF ReaderInv

(* Nothing but the outcome changes when the loop is left.                   *)
LEMMA EndKeeps == ReaderInv /\ (Throw \/ Return \/ UNCHANGED vars) => ReaderInv'
<1> SUFFICES ASSUME ReaderInv, Throw \/ Return \/ UNCHANGED vars PROVE ReaderInv'
  OBVIOUS
<1>1. quote' = quote /\ offset' = offset /\ tags' = tags /\ starts' = starts
  BY DEF Throw, Return, vars
<1>2. /\ outcome' \in {"reading", "read", "thrown"}
      /\ outcome' = "read" => offset >= End
      /\ outcome' = "thrown" => offset < End /\ BadField(offset)
  BY DEF Throw, Return, vars, ReaderInv
<1>3. /\ quote \in Quotes /\ offset \in Nat /\ starts \in SUBSET Nat
      /\ offset >= TimestampWords /\ TimestampWords < End => offset <= End
  BY DEF ReaderInv
<1>4. End' = End /\ \A o : /\ TagAt(o)' = TagAt(o) /\ NextAt(o)' = NextAt(o)
                          /\ DataAt(o)' = DataAt(o)
  BY <1>1 DEF End, TagAt, NextAt, DataAt, LengthAt
<1>5. TagsRead'
  BY <1>1, <1>4 DEF ReaderInv, TagsRead, LastOf
<1>6. Chained' /\ SingleUse(starts)'
  BY <1>1, <1>4 DEF ReaderInv, Chained, SingleUse
<1>7. Forced'
  BY <1>1, <1>4 DEF ReaderInv, Forced, Tiles
<1>8. BadField(offset)' = BadField(offset)
  BY <1>1, <1>4 DEF BadField
<1> QED  BY <1>1, <1>2, <1>3, <1>4, <1>5, <1>6, <1>7, <1>8 DEF ReaderInv

(* The invariant of the loop of readBolt11Tags.                             *)
THEOREM ReaderInvariant == Spec => []ReaderInv
<1>1. Init => ReaderInv
  BY ReaderInit
<1>2. ReaderInv /\ [Next]_vars => ReaderInv'
  BY ReadFieldKeeps, EndKeeps DEF Next
<1> QED  BY <1>1, <1>2, PTL DEF Spec

(* Where the loop has run through, tags is what TagMap says.                *)
LEMMA TagsAreTheMap == ReaderInv => tags = TagMap(starts)
<1> SUFFICES ASSUME ReaderInv PROVE tags = TagMap(starts)
  OBVIOUS
<1>1. TagsRead /\ starts \in SUBSET Nat
  BY DEF ReaderInv
<1>2. DOMAIN tags = DOMAIN TagMap(starts) /\ tags = [t \in DOMAIN tags |-> tags[t]]
  BY <1>1 DEF TagsRead, TagMap
<1>3. ASSUME NEW t \in DOMAIN tags PROVE tags[t] = TagMap(starts)[t]
  <2> DEFINE IsLast(o) == TagAt(o) = t /\ \A b \in starts : TagAt(b) = t => b <= o
             l == CHOOSE o \in starts : IsLast(o)
  <2>1. \E o \in starts : IsLast(o)
    BY <1>1 DEF TagsRead, LastOf
  <2>2. l \in starts /\ IsLast(l)
    <3> HIDE DEF IsLast
    <3> QED  BY <2>1
  <2>3. tags[t] = DataAt(l)
    <3> HIDE DEF l
    <3> QED  BY <2>2, <1>1 DEF TagsRead, LastOf
  <2>4. TagMap(starts)[t] = DataAt(l)
    BY <1>2 DEF TagMap
  <2> QED  BY <2>3, <2>4
<1> QED  BY <1>2, <1>3 DEF TagMap

(* ReadsTheBody, for every invoice: readBolt11Tags returns exactly for the  *)
(* bodies that are a sequence of whole fields without a repeated single-use *)
(* tag, and then with those fields.                                         *)
THEOREM ReaderReadsTheBody == Spec => []ReadsTheBody
<1>1. ASSUME ReaderInv PROVE ReadsTheBody
  <2>1. /\ quote \in Quotes /\ offset \in Nat /\ starts \in SUBSET Nat
        /\ TagsRead /\ Chained /\ SingleUse(starts) /\ Forced
        /\ offset >= TimestampWords /\ TimestampWords < End => offset <= End
        /\ TimestampWords \in Nat
    BY <1>1, Bolt11Assumption DEF ReaderInv
  <2>2. End \in Int
    BY <2>1, WordsTyped
  <2>3. ASSUME outcome = "read"
        PROVE  Tiles(starts) /\ SingleUse(starts) /\ tags = TagMap(starts)
    <3>1. offset >= End
      BY <2>3, <1>1 DEF ReaderInv
    <3>2. CASE TimestampWords < End
      <4>1. offset = End /\ starts # {}
        BY <3>1, <3>2, <2>1, <2>2 DEF Chained
      <4>2. Tiles(starts)
        BY <4>1, <3>2, <2>1 DEF Chained, Tiles
      <4> QED  BY <4>2, <2>1, <1>1, TagsAreTheMap
    <3>3. CASE ~ (TimestampWords < End)
      <4>1. starts = {}
        BY <3>3, <2>1, <2>2 DEF Chained
      <4>2. Tiles(starts)
        BY <4>1, <3>3 DEF Tiles
      <4> QED  BY <4>2, <2>1, <1>1, TagsAreTheMap
    <3> QED  BY <3>2, <3>3
  <2>4. ASSUME outcome = "thrown",
               NEW F \in SUBSET (TimestampWords..(End - 1)), Tiles(F), SingleUse(F)
        PROVE  FALSE
    <3>1. offset < End /\ BadField(offset)
      BY <2>4, <1>1 DEF ReaderInv
    <3>2. starts \subseteq F /\ offset \in F
      BY <2>4, <2>1, <3>1 DEF Forced
    <3>3. offset + 3 <= End /\ NextAt(offset) \in F \cup {End}
      BY <2>4, <3>2 DEF Tiles
    <3>4. \A x \in F : x \in Int /\ x <= End
      <4>1. \A x \in TimestampWords..(End - 1) : x \in Int /\ x <= End
        BY <2>1, <2>2
      <4>2. F \subseteq TimestampWords..(End - 1)
        BY <2>4
      <4> QED  BY <4>1, <4>2
    <3>5. NextAt(offset) <= End /\ NextAt(offset) \in Int
      <4>1. \A x \in F \cup {End} : x <= End /\ x \in Int
        BY <3>4, <2>2
      <4> QED  BY <4>1, <3>3
    <3>6. TagAt(offset) \in SingleTags /\ TagAt(offset) \in DOMAIN tags
      BY <3>1, <3>3, <3>4, <3>5, <2>1, <2>2 DEF BadField
    <3>7. PICK b \in starts : TagAt(b) = TagAt(offset)
      BY <3>6, <2>1 DEF TagsRead
    <3>8. b < offset /\ b \in Nat
      BY <2>1, <3>7 DEF Chained
    <3> QED  BY <3>2, <3>6, <3>7, <3>8, <2>1, <2>4 DEF SingleUse
  <2> QED  BY <2>3, <2>4 DEF ReadsTheBody
<1> QED  BY <1>1, ReaderInvariant, PTL

-----------------------------------------------------------------------------
(* Its callers.                                                             *)
-----------------------------------------------------------------------------
(* ChecksAgree, for every quote: what validateLightningQuote accepts for a  *)
(* description hash, bolt11DescriptionHash finds to carry it.               *)
THEOREM CallersAgree == Spec => []ChecksAgree
<1>1. ChecksAgree
  <2> SUFFICES ASSUME outcome # "reading", Validation = "valid", quote.asked # NoHash
               PROVE  Bolt11DescriptionHash = quote.asked
    BY DEF ChecksAgree
  <2>1. Payable /\ Carries
    BY DEF Validation
  <2>2. outcome = "read" /\ Has(H) /\ HasHashField(H) /\ Converts(tags[H])
        /\ FromWords(tags[H]) = quote.asked
    BY <2>1 DEF Payable, Carries
  <2> QED  BY <2>2 DEF Bolt11DescriptionHash
<1> QED  BY <1>1, PTL

(* The recursion of Number on the words w, as a property of a function.     *)
Values(f, w, n) == f = [i \in 0..n |-> IF i = 0 THEN 0 ELSE f[i - 1] * Base + w[i]]

(* There is such a function for every prefix: a shortest one without it     *)
(* would get it from the prefix before.                                     *)
LEMMA ValuesExist ==
  ASSUME NEW w \in Seq(Nat), NEW n \in 0..Len(w)
  PROVE  \E f : Values(f, w, n)
<1> DEFINE Bad == {k \in 0..Len(w) : ~ \E f : Values(f, w, k)}
<1>1. SUFFICES ASSUME Bad # {} PROVE FALSE
  OBVIOUS
<1>2. PICK m \in Bad : \A x \in Bad : m <= x
  <2>1. Bad \in SUBSET Nat
    OBVIOUS
  <2> HIDE DEF Bad
  <2> QED  BY <2>1, <1>1, LeastExists
<1>3. m \in 0..Len(w) /\ m \in Nat
  OBVIOUS
<1>4. m # 0
  <2>1. Values([i \in 0..0 |-> 0], w, 0)
    BY DEF Values
  <2> QED  BY <2>1
<1>5. PICK f : Values(f, w, m - 1)
  <2>1. m - 1 \in 0..Len(w) /\ ~ (m <= m - 1)
    BY <1>3, <1>4
  <2> QED  BY <2>1, <1>2
<1> DEFINE g == [i \in 0..m |-> IF i = m THEN f[m - 1] * Base + w[m] ELSE f[i]]
<1>6. \A i \in 0..m : g[i] = IF i = 0 THEN 0 ELSE g[i - 1] * Base + w[i]
  <2>1. \A i \in 0..(m - 1) : f[i] = IF i = 0 THEN 0 ELSE f[i - 1] * Base + w[i]
    BY <1>5 DEF Values
  <2>2. \A i \in 0..m : i # m => i \in 0..(m - 1) /\ (i # 0 => i - 1 \in 0..m /\ i - 1 # m)
    BY <1>3, <1>4
  <2>3. m - 1 \in 0..m /\ m - 1 # m
    BY <1>3, <1>4
  <2> QED  BY <2>1, <2>2, <2>3, <1>4
<1>7. Values(g, w, m)
  <2>1. g = [i \in 0..m |-> g[i]]
    OBVIOUS
  <2> QED  BY <2>1, <1>6 DEF Values
<1> QED  BY <1>7, <1>2

(* number() of the words w is a natural number.                             *)
LEMMA NumberTyped ==
  ASSUME NEW w \in Seq(Nat)
  PROVE  Number(w) \in Nat
<1> DEFINE value[i \in 0..Len(w)] == IF i = 0 THEN 0 ELSE value[i - 1] * Base + w[i]
<1>1. Number(w) = value[Len(w)]
  BY DEF Number
<1>2. value = CHOOSE f : Values(f, w, Len(w))
  BY DEF Values
<1>3. Values(value, w, Len(w))
  <2> HIDE DEF value
  <2>1. Len(w) \in 0..Len(w)
    OBVIOUS
  <2>2. \E f : Values(f, w, Len(w))
    BY <2>1, ValuesExist
  <2> QED  BY <1>2, <2>2
<1> HIDE DEF value
<1>4. \A i \in 0..Len(w) : value[i] = IF i = 0 THEN 0 ELSE value[i - 1] * Base + w[i]
  BY <1>3 DEF Values
<1> DEFINE Bad == {k \in 0..Len(w) : value[k] \notin Nat}
<1>5. ASSUME Bad # {} PROVE FALSE
  <2>1. Bad \in SUBSET Nat
    OBVIOUS
  <2>2. PICK m \in Bad : \A x \in Bad : m <= x
    <3> HIDE DEF Bad
    <3> QED  BY <2>1, <1>5, LeastExists
  <2>3. m \in 0..Len(w) /\ m # 0 /\ value[m] = value[m - 1] * Base + w[m]
    BY <1>4
  <2>4. m - 1 \in 0..Len(w) /\ ~ (m <= m - 1) /\ m \in 1..Len(w)
    BY <2>3
  <2>5. value[m - 1] \in Nat /\ w[m] \in Nat /\ Base \in Nat
    BY <2>2, <2>4, Bolt11Assumption
  <2>6. \A a, b, c \in Nat : a * b + c \in Nat
    OBVIOUS
  <2>7. value[m] \in Nat
    BY <2>3, <2>5, <2>6, Zenon
  <2> QED  BY <2>7
<1>6. Len(w) \in 0..Len(w)
  OBVIOUS
<1> QED  BY <1>1, <1>5, <1>6

(* An amount in msat, counted in tenths.                                    *)
LEMMA WholeMsat ==
  ASSUME NEW d \in Nat, NEW n \in Nat, (IF d % 10 = 0 THEN d \div 10 ELSE -1) = n * 1000
  PROVE  d = n * 10000
<1>1. d % 10 = 0
  OBVIOUS
<1>2. d \div 10 = n * 1000
  BY <1>1
<1>3. d = 10 * (d \div 10)
  BY <1>1
<1> QED  BY <1>2, <1>3

(* A prefix of whole sats says the same in tenths of an msat.               *)
LEMMA TenthsOfMsat ==
  ASSUME NEW p, p.digits \in Nat, p.unit \in {"p", "n", "u", "m", "btc"},
         NEW n \in Nat, Msat(p) = n * 1000
  PROVE  p.digits * Tenths(p.unit) = n * 10000
<1>1. CASE p.unit = "p"
  <2>1. (IF p.digits % 10 = 0 THEN p.digits \div 10 ELSE -1) = n * 1000
    BY <1>1, SMT DEF Msat, Factor
  <2>2. p.digits = n * 10000
    BY <2>1, WholeMsat, SMT
  <2> QED  BY <1>1, <2>2, SMT DEF Tenths
<1>2. CASE p.unit # "p"
  <2>1. p.digits * Factor(p.unit) = n * 1000
    BY <1>2, SMT DEF Msat
  <2> QED  BY <1>2, <2>1, SMT DEF Factor, Tenths
<1> QED  BY <1>1, <1>2, SMT

(* AcceptedIsPayable, for every quote: the amount of an accepted invoice is *)
(* the one asked for, and the expiry stored lies in the future, within that *)
(* of the quote and that of the signed invoice.                             *)
THEOREM AcceptedArePayable == Spec => []AcceptedIsPayable
<1>1. ASSUME ReaderInv PROVE AcceptedIsPayable
  <2> SUFFICES ASSUME outcome # "reading", Validation = "valid" PROVE AcceptedIsPayable
    BY DEF AcceptedIsPayable
  <2>1. Payable /\ Signed
    BY DEF Validation
  <2>2. /\ quote.words \in Seq(Word) /\ quote.sats \in Nat /\ quote.expiry \in Nat
        /\ quote.prefix \in [digits : Nat, unit : {"p", "n", "u", "m", "btc"}]
        /\ Now \in Nat /\ TimestampWords \in Nat /\ DefaultExpiry \in Nat
        /\ SignatureWords \in Nat
    BY <1>1, Bolt11Assumption DEF ReaderInv
  <2>3. InvoiceExpiry \in Nat
    <3>1. quote.words \in Seq(Nat)
      <4>1. \A w \in Word : w \in Nat
        BY Bolt11Assumption DEF Word
      <4>2. \A i \in 1..Len(quote.words) : quote.words[i] \in Word
        BY <2>2
      <4> QED  BY <4>1, <4>2, <2>2
    <3>2. SubSeq(quote.words, 1, TimestampWords) \in Seq(Nat)
      <4>1. Len(quote.words) >= TimestampWords
        BY <2>1, <2>2 DEF Payable
      <4> QED  BY <4>1, <3>1, <2>2
    <3>3. Lifetime \in Nat
      <4>1. CASE ~Has(X)
        BY <4>1, <2>2 DEF Lifetime
      <4>2. CASE Has(X)
        <5>1. /\ quote \in Quotes /\ TagsRead /\ Chained /\ starts \in SUBSET Nat
              /\ TimestampWords < End => offset <= End
          BY <1>1 DEF ReaderInv
        <5>2. PICK o \in starts : TagAt(o) = X /\ LastOf(starts, o)
          <6>1. PICK b \in starts : TagAt(b) = X
            BY <4>2, <5>1 DEF Has, TagsRead
          <6> QED  BY <6>1, <5>1 DEF TagsRead
        <5>3. tags[X] = DataAt(o)
          BY <5>1, <5>2 DEF TagsRead
        <5>4. o \in Nat /\ End \in Int /\ o + 3 <= End /\ TimestampWords <= o
          BY <5>1, <5>2, WordsTyped DEF Chained
        <5>5. LengthAt(o) \in Nat /\ NextAt(o) <= End
          <6>1. LengthAt(o) \in Nat /\ offset <= End
            BY <5>1, <5>4, <2>2, WordsTyped
          <6>2. NextAt(o) \in starts \cup {offset} /\ \A b \in starts : b + 3 <= End /\ b \in Nat
            BY <5>1, <5>2 DEF Chained
          <6>3. \A b \in starts \cup {offset} : b <= End
            BY <6>1, <6>2, <5>4
          <6> QED  BY <6>1, <6>2, <6>3
        <5>6. End <= Len(quote.words) /\ Len(quote.words) \in Nat
          BY <2>2 DEF End
        <5>7. DataAt(o) \in Seq(Nat)
          <6>1. o + 4 \in Nat /\ o + 4 >= 1 /\ o + 3 + LengthAt(o) \in Nat
                /\ o + 3 + LengthAt(o) <= Len(quote.words)
            BY <5>4, <5>5, <5>6 DEF NextAt
          <6> QED  BY <6>1, <3>1 DEF DataAt
        <5> QED  BY <4>2, <5>3, <5>7, NumberTyped DEF Lifetime
      <4> QED  BY <4>1, <4>2
    <3>4. Number(SubSeq(quote.words, 1, TimestampWords)) \in Nat
      BY <3>2, NumberTyped
    <3> QED  BY <3>3, <3>4 DEF InvoiceExpiry
  <2>4. quote.expiry > Now /\ InvoiceExpiry > Now
    BY <2>1 DEF Payable, Signed
  <2>5. Now < ExpiresAt /\ ExpiresAt <= quote.expiry /\ ExpiresAt <= InvoiceExpiry
    <3>1. quote.expiry \in Nat /\ Now \in Nat
      BY <2>2
    <3> QED  BY <3>1, <2>3, <2>4 DEF ExpiresAt
  <2>6. Msat(quote.prefix) = quote.sats * 1000
    BY <2>1 DEF Payable
  <2>7. quote.prefix.digits * Tenths(quote.prefix.unit) = quote.sats * 10000
    <3>1. quote.prefix.digits \in Nat /\ quote.prefix.unit \in {"p", "n", "u", "m", "btc"}
      BY <2>2
    <3>2. quote.sats \in Nat
      BY <2>2
    <3> QED  BY <3>1, <3>2, <2>6, TenthsOfMsat, SMT
  <2> QED  BY <2>5, <2>7, SMT DEF AcceptedIsPayable, InvoiceExpiry
<1> QED  BY <1>1, ReaderInvariant, PTL

-----------------------------------------------------------------------------
(* Signature formats.                                                       *)
-----------------------------------------------------------------------------
(* What concatenation does, by index.                                       *)
LEMMA Cat ==
  ASSUME NEW s \in Seq(Nat), NEW t \in Seq(Nat)
  PROVE  /\ s \o t \in Seq(Nat) /\ Len(s \o t) = Len(s) + Len(t)
         /\ \A i \in 1..Len(s) : (s \o t)[i] = s[i]
         /\ \A i \in 1..Len(t) : (s \o t)[Len(s) + i] = t[i]
OBVIOUS

(* A sequence is t, n and then those of a.                                  *)
Header(h, t, n) == h \in Seq(Nat) /\ Len(h) <= 2 /\ Len(h) >= 2 /\ h[1] = t /\ h[2] = n
Framed(u, t, n, a) == /\ u \in Seq(Nat) /\ Len(u) = 2 + Len(a)
                      /\ u[1] = t /\ u[2] = n
                      /\ \A i \in 1..Len(a) : u[2 + i] = a[i]

(* A header in front of a frames it.                                        *)
LEMMA HeaderCat ==
  ASSUME NEW h, NEW t, NEW n, Header(h, t, n), NEW a \in Seq(Nat)
  PROVE  Framed(h \o a, t, n, a)
<1> DEFINE u == h \o a
<1>1. u \in Seq(Nat) /\ Len(u) = 2 + Len(a)
  BY DEF Header
<1>2. \A i \in 1..2 : u[i] = h[i]
  BY DEF Header
<1>3. \A i \in 1..Len(a) : u[2 + i] = a[i]
  BY DEF Header
<1>4. u[1] = t /\ u[2] = n
  <2> HIDE DEF u
  <2> QED  BY <1>2 DEF Header
<1> QED  BY <1>1, <1>3, <1>4 DEF Framed

(* Sequences that agree at every index are one.                             *)
LEMMA SameSeq ==
  ASSUME NEW s \in Seq(Nat), NEW t \in Seq(Nat), Len(s) = Len(t),
         \A i \in 1..Len(s) : s[i] = t[i]
  PROVE  s = t
OBVIOUS

(* What SubSeq returns, by index.                                           *)
LEMMA Sub ==
  ASSUME NEW s \in Seq(Nat), NEW m \in Nat, NEW n \in Nat, 1 <= m, m <= n + 1, n <= Len(s)
  PROVE  /\ SubSeq(s, m, n) \in Seq(Nat) /\ Len(SubSeq(s, m, n)) = n - m + 1
         /\ \A i \in 1..(n - m + 1) : SubSeq(s, m, n)[i] = s[m + i - 1]
OBVIOUS

(* b has a from the place `from` on, and then that is the part of it.       *)
Holds(b, from, a) == /\ b \in Seq(Nat) /\ from \in Nat /\ from >= 1
                     /\ from + Len(a) - 1 <= Len(b)
                     /\ \A i \in 1..Len(a) : b[from + i - 1] = a[i]

(* Part reads back what lies there.                                         *)
LEMMA PartIs ==
  ASSUME NEW a \in Seq(Nat), NEW b, NEW from, Holds(b, from, a)
  PROVE  Part(b, from, Len(a)) = a
<1> USE DEF Holds
<1>1. Part(b, from, Len(a)) = SubSeq(b, from, from + Len(a) - 1)
  <2>1. ~ (Len(a) < 0) /\ ~ (from + Len(a) - 1 > Len(b))
    OBVIOUS
  <2> QED  BY <2>1, Zenon DEF Part
<1>2. from + Len(a) - 1 \in Nat
  OBVIOUS
<1> DEFINE p == SubSeq(b, from, from + Len(a) - 1)
<1>3. p \in Seq(Nat) /\ Len(p) = Len(a) /\ \A i \in 1..Len(a) : p[i] = b[from + i - 1]
  BY <1>2, Sub
<1> QED  BY <1>1, <1>3, SameSeq

(* The places in a DER signature around two integers a and c of la and lc   *)
(* bytes.                                                                   *)
Behind(u, t, n, a, l) == u[1] = t /\ u[2] = n /\ \A i \in 1..l : u[2 + i] = a[i]
Beside(w, u, l, v, m) == /\ \A i \in 1..l : w[i] = u[i]
                         /\ \A i \in 1..m : w[l + i] = v[i]
Placed(b, a, la, c, lc) ==
  /\ b[3] = Integer /\ b[4] = la /\ b[5 + la] = Integer /\ b[6 + la] = lc
  /\ \A i \in 1..la : b[5 + i - 1] = a[i]
  /\ \A i \in 1..lc : b[(7 + la) + i - 1] = c[i]

(* Where the two integers lie in the frame of their frames.                 *)
LEMMA Places ==
  ASSUME NEW a, NEW c, NEW u, NEW v, NEW w, NEW b, NEW n, NEW la \in Nat, NEW lc \in Nat,
         Behind(u, Integer, la, a, la), Behind(v, Integer, lc, c, lc),
         Beside(w, u, 2 + la, v, 2 + lc),
         Behind(b, Sequence, n, w, (2 + la) + (2 + lc))
  PROVE  Placed(b, a, la, c, lc)
<1> USE DEF Behind, Beside
<1>1. b[3] = Integer /\ b[4] = la
  <2>1. b[2 + 1] = w[1] /\ b[2 + 2] = w[2] /\ w[1] = u[1] /\ w[2] = u[2]
    OBVIOUS
  <2> QED  BY <2>1
<1>2. b[5 + la] = Integer /\ b[6 + la] = lc
  <2>1. w[(2 + la) + 1] = v[1] /\ w[(2 + la) + 2] = v[2]
    OBVIOUS
  <2>2. b[2 + ((2 + la) + 1)] = w[(2 + la) + 1] /\ b[2 + ((2 + la) + 2)] = w[(2 + la) + 2]
    OBVIOUS
  <2> QED  BY <2>1, <2>2
<1>3. ASSUME NEW i \in 1..la PROVE b[5 + i - 1] = a[i]
  <2>1. u[2 + i] = a[i] /\ w[2 + i] = u[2 + i] /\ b[2 + (2 + i)] = w[2 + i]
    OBVIOUS
  <2> QED  BY <2>1
<1>4. ASSUME NEW i \in 1..lc PROVE b[(7 + la) + i - 1] = c[i]
  <2>1. v[2 + i] = c[i] /\ w[(2 + la) + (2 + i)] = v[2 + i]
    OBVIOUS
  <2>2. b[2 + ((2 + la) + (2 + i))] = w[(2 + la) + (2 + i)]
    OBVIOUS
  <2> QED  BY <2>1, <2>2
<1> QED  BY <1>1, <1>2, <1>3, <1>4 DEF Placed

(* The length of the frame of two frames, and what is read from it.         *)
ReadAs(b, a, c) == /\ b[1] = Sequence /\ Len(b) = 6 + Len(a) + Len(c)
                   /\ DerToCompact(b) = Normalize(a) \o Normalize(c)

(* derToCompact finds both integers in the frame of their frames.           *)
LEMMA FramesRead ==
  ASSUME NEW a \in Seq(Nat), NEW c \in Seq(Nat), NEW n, NEW u, NEW v, NEW b,
         Framed(u, Integer, Len(a), a), Framed(v, Integer, Len(c), c),
         Framed(b, Sequence, n, u \o v)
  PROVE  ReadAs(b, a, c)
<1>1. PICK w : w = u \o v
  OBVIOUS
<1>2. PICK la \in Nat, lc \in Nat : la = Len(a) /\ lc = Len(c)
  OBVIOUS
<1>3. u \in Seq(Nat) /\ Len(u) = 2 + la /\ Behind(u, Integer, la, a, la)
  BY <1>2, Zenon DEF Framed, Behind
<1>4. v \in Seq(Nat) /\ Len(v) = 2 + lc /\ Behind(v, Integer, lc, c, lc)
  BY <1>2, Zenon DEF Framed, Behind
<1>5. w \in Seq(Nat) /\ Len(w) = Len(u) + Len(v) /\ Beside(w, u, Len(u), v, Len(v))
  <2>1. u \in Seq(Nat) /\ v \in Seq(Nat)
    BY <1>3, <1>4
  <2> QED  BY <2>1, <1>1, Cat DEF Beside
<1>6. b \in Seq(Nat) /\ Len(b) = 2 + Len(w) /\ Behind(b, Sequence, n, w, Len(w))
  BY <1>1, Zenon DEF Framed, Behind
<1>7. Placed(b, a, la, c, lc)
  <2>1. Beside(w, u, 2 + la, v, 2 + lc)
    BY <1>3, <1>4, <1>5, Zenon
  <2>2. Behind(b, Sequence, n, w, (2 + la) + (2 + lc))
    BY <1>3, <1>4, <1>5, <1>6, Zenon
  <2> QED  BY <2>1, <2>2, <1>3, <1>4, Places, Zenon
<1>8. Len(b) = 6 + la + lc
  <2>1. Len(b) = 2 + ((2 + la) + (2 + lc))
    BY <1>3, <1>4, <1>5, <1>6, Zenon
  <2> QED  BY <2>1
<1>9. At(b, 3) = Integer /\ At(b, 4) = la /\ At(b, 5 + la) = Integer
      /\ At(b, (5 + la) + 1) = lc
  <2>1. {3, 4, 5 + la, (5 + la) + 1} \subseteq DOMAIN b
    <3>1. DOMAIN b = 1..Len(b)
      BY <1>6
    <3>2. {3, 4, 5 + la, (5 + la) + 1} \subseteq 1..(6 + la + lc)
      OBVIOUS
    <3> QED  BY <3>1, <3>2, <1>8, Zenon
  <2>2. (5 + la) + 1 = 6 + la
    OBVIOUS
  <2> QED  BY <2>1, <2>2, <1>7, Zenon DEF At, Placed
<1>10. Part(b, 5, la) = a
  <2>1. 5 + la - 1 <= Len(b) /\ 5 \in Nat /\ 5 >= 1
    BY <1>8
  <2>2. b \in Seq(Nat) /\ \A i \in 1..la : b[5 + i - 1] = a[i]
    BY <1>6, <1>7 DEF Placed
  <2>3. Holds(b, 5, a)
    BY <2>1, <2>2, <1>2, Zenon DEF Holds
  <2> QED  BY <2>3, <1>2, PartIs, Zenon
<1>11. Part(b, (5 + la) + 2, lc) = c
  <2>1. (5 + la) + 2 = 7 + la /\ (7 + la) + lc - 1 <= Len(b) /\ 7 + la \in Nat /\ 7 + la >= 1
    BY <1>8
  <2>2. b \in Seq(Nat) /\ \A i \in 1..lc : b[(7 + la) + i - 1] = c[i]
    BY <1>6, <1>7 DEF Placed
  <2>3. Holds(b, 7 + la, c)
    BY <2>1, <2>2, <1>2, Zenon DEF Holds
  <2>4. Part(b, 7 + la, lc) = c
    BY <2>3, <1>2, PartIs, Zenon
  <2> QED  BY <2>1, <2>4
<1>12. DerToCompact(b) = Normalize(a) \o Normalize(c)
  BY <1>9, <1>10, <1>11, Zenon DEF DerToCompact
<1> QED  BY <1>2, <1>6, <1>8, <1>12, Zenon DEF ReadAs, Behind

(* The same of the layout that the writer of DER concatenates.              *)
LEMMA DerReads ==
  ASSUME NEW a \in Seq(Nat), NEW c \in Seq(Nat), NEW h, NEW j, NEW k, NEW n,
         Header(h, Sequence, n), Header(j, Integer, Len(a)), Header(k, Integer, Len(c))
  PROVE  ReadAs(h \o ((j \o a) \o (k \o c)), a, c)
<1>1. Framed(j \o a, Integer, Len(a), a) /\ Framed(k \o c, Integer, Len(c), c)
  BY HeaderCat, Zenon
<1>2. (j \o a) \o (k \o c) \in Seq(Nat)
  BY <1>1, Cat DEF Framed
<1>3. Framed(h \o ((j \o a) \o (k \o c)), Sequence, n, (j \o a) \o (k \o c))
  BY <1>2, HeaderCat, Zenon
<1> QED  BY <1>1, <1>3, FramesRead, Zenon

(* s is what n has behind leading zeros.                                    *)
Trimmed(s, n) == /\ s \in Seq(Nat) /\ Len(s) <= Width
                 /\ \A i \in 1..(Width - Len(s)) : n[i] = 0
                 /\ \A i \in 1..Len(s) : n[(Width - Len(s)) + i] = s[i]

(* normalize puts the leading zeros back that a writing left out.           *)
LEMMA Padded ==
  ASSUME NEW n \in [1..Width -> Byte], NEW s, Trimmed(s, n)
  PROVE  Normalize(s) = n
<1> USE DEF Trimmed
<1>1. PICK k : k = Width - Len(s)
  OBVIOUS
<1>2. k \in Nat /\ Len(s) \in Nat /\ Width \in Nat /\ Width = k + Len(s)
  BY <1>1, FormatsAssumption
<1>3. PICK z : z = [i \in 1..k |-> 0]
  OBVIOUS
<1>4. z \in Seq(Nat) /\ Len(z) = k /\ \A i \in 1..k : z[i] = 0
  BY <1>2, <1>3
<1>5. Normalize(s) = z \o s
  <2>1. ~ (Len(s) > Width)
    BY <1>2
  <2> QED  BY <2>1, <1>1, <1>3, Zenon DEF Normalize
<1>6. z \o s \in Seq(Nat) /\ Len(z \o s) = k + Len(s)
      /\ (\A i \in 1..k : (z \o s)[i] = z[i])
      /\ \A i \in 1..Len(s) : (z \o s)[k + i] = s[i]
  BY <1>2, <1>4, Cat
<1>7. DOMAIN (z \o s) = 1..Width
  <2>1. DOMAIN (z \o s) = 1..Len(z \o s)
    BY <1>6
  <2> QED  BY <2>1, <1>2, <1>6, Zenon
<1>8. ASSUME NEW i \in 1..Width PROVE (z \o s)[i] = n[i]
  <2>1. CASE i \in 1..k
    BY <2>1, <1>1, <1>4, <1>6, Zenon
  <2>2. CASE i \notin 1..k
    <3>1. PICK j \in 1..Len(s) : i = k + j
      <4>1. i - k \in 1..Len(s) /\ i = k + (i - k)
        BY <2>2, <1>2
      <4> QED  BY <4>1
    <3> QED  BY <3>1, <1>1, <1>6, Zenon
  <2> QED  BY <2>1, <2>2
<1>9. z \o s = [i \in 1..Width |-> (z \o s)[i]]
  <2>1. \A q \in Seq(Nat) : q = [i \in DOMAIN q |-> q[i]]
    OBVIOUS
  <2> QED  BY <2>1, <1>6, <1>7, Zenon
<1>10. n = [i \in 1..Width |-> n[i]]
  OBVIOUS
<1> QED  BY <1>5, <1>8, <1>9, <1>10, Zenon

(* Width bytes are a sequence.                                              *)
LEMMA BytesTyped ==
  ASSUME NEW n \in [1..Width -> Byte]
  PROVE  /\ Width \in Nat /\ Width >= 1 /\ n \in Seq(Nat) /\ Len(n) = Width
         /\ \A i \in 1..Width : n[i] \in Nat
<1>1. Width \in Nat /\ Width >= 1
  BY FormatsAssumption
<1>2. \A x \in Byte : x \in Nat
  BY DEF Byte
<1>3. \A i \in 1..Width : n[i] \in Nat
  BY <1>2
<1> QED  BY <1>1, <1>3

(* Minimal only leaves leading zeros out, or adds one.                      *)
LEMMA MinimalRead ==
  ASSUME NEW n \in [1..Width -> Byte]
  PROVE  Minimal(n) \in Seq(Nat) /\ Normalize(Minimal(n)) = n
<1>1. Width \in Nat /\ Width >= 1
  BY FormatsAssumption
<1>2. n \in Seq(Nat) /\ Len(n) = Width /\ \A i \in 1..Width : n[i] \in Nat
  BY BytesTyped
<1> DEFINE used == {i \in 1..Len(n) : n[i] # 0}
           bare == IF used = {} THEN <<0>> ELSE SubSeq(n, Min(used), Len(n))
<1>3. Minimal(n) = IF bare[1] >= 128 THEN <<0>> \o bare ELSE bare
  BY DEF Minimal
<1>4. CASE used = {}
  <2>1. bare = <<0>>
    BY <1>4
  <2>2. Minimal(n) = <<0>>
    <3>1. ~ (<<0>>[1] >= 128)
      OBVIOUS
    <3> QED  BY <2>1, <3>1, <1>3, Zenon
  <2>3. \A i \in 1..Width : n[i] = 0
    BY <1>2, <1>4
  <2>4. <<0>> \in Seq(Nat) /\ Len(<<0>>) = 1 /\ <<0>>[1] = 0
    OBVIOUS
  <2>5. Trimmed(<<0>>, n)
    BY <2>3, <2>4, <1>1 DEF Trimmed
  <2> QED  BY <2>2, <2>4, <2>5, Padded
<1>5. CASE used # {}
  <2>1. PICK k \in used : \A i \in used : k <= i
    <3>1. used \in SUBSET Nat
      OBVIOUS
    <3> HIDE DEF used
    <3> QED  BY <3>1, <1>5, LeastExists
  <2>2. Min(used) = k
    <3>1. \A i \in used : i \in Nat
      OBVIOUS
    <3>2. \A i \in used : (\A y \in used : i <= y) => i = k
      BY <2>1, <3>1
    <3> HIDE DEF used
    <3> QED  BY <2>1, <3>2 DEF Min
  <2>3. k \in 1..Width /\ n[k] # 0 /\ \A i \in 1..Width : i < k => n[i] = 0
    BY <2>1, <1>2
  <2>4. PICK t : t = SubSeq(n, k, Width)
    OBVIOUS
  <2>5. bare = t
    BY <1>5, <2>2, <2>4, <1>2, Zenon
  <2>6. /\ t \in Seq(Nat) /\ Len(t) = Width - k + 1
        /\ \A i \in 1..(Width - k + 1) : t[i] = n[k + i - 1]
    BY <2>3, <2>4, <1>1, <1>2, Sub
  <2> HIDE DEF bare, used
  <2>7. CASE ~ (t[1] >= 128)
    <3>1. Minimal(n) = t
      BY <2>7, <2>5, <1>3, Zenon
    <3>2. Trimmed(t, n)
      BY <2>3, <2>6, <1>1 DEF Trimmed
    <3> QED  BY <3>1, <3>2, <2>6, Padded
  <2>8. CASE t[1] >= 128
    <3>1. Minimal(n) = <<0>> \o t
      BY <2>8, <2>5, <1>3, Zenon
    <3>2. PICK r : r = <<0>> \o t
      OBVIOUS
    <3>3. /\ r \in Seq(Nat) /\ Len(r) = 1 + Len(t) /\ r[1] = 0
          /\ \A i \in 1..Len(t) : r[1 + i] = t[i]
      BY <3>2, <2>6
    <3>4. CASE k = 1
      <4>1. Len(r) = Width + 1 /\ \A i \in 1..Width : r[1 + i] = n[i]
        BY <3>3, <3>4, <2>6, <1>1
      <4>2. Normalize(r) = SubSeq(r, 2, Width + 1)
        BY <4>1, <1>1 DEF Normalize
      <4>3. SubSeq(r, 2, Width + 1) = n
        <5>1. /\ SubSeq(r, 2, Width + 1) \in Seq(Nat)
              /\ Len(SubSeq(r, 2, Width + 1)) = Width
              /\ \A i \in 1..Width : SubSeq(r, 2, Width + 1)[i] = r[1 + i]
          BY <4>1, <3>3, <1>1
        <5> QED  BY <5>1, <4>1, <1>2, SameSeq
      <4> QED  BY <3>1, <3>2, <3>3, <4>2, <4>3
    <3>5. CASE k # 1
      <4>1. Len(r) = Width - k + 2 /\ k >= 2 /\ k \in 1..Width
        BY <3>3, <3>5, <2>3, <2>6, <1>1
      <4>2. \A i \in 1..(k - 2) : n[i] = 0
        BY <2>3, <4>1, <1>1
      <4>3. ASSUME NEW i \in 1..(Width - k + 2) PROVE n[(k - 2) + i] = r[i]
        <5>1. CASE i = 1
          <6>1. (k - 2) + i = k - 1 /\ k - 1 \in 1..Width /\ k - 1 < k
            BY <5>1, <4>1, <1>1
          <6> QED  BY <6>1, <5>1, <2>3, <3>3
        <5>2. CASE i # 1
          <6>1. i - 1 \in 1..(Width - k + 1) /\ i = 1 + (i - 1)
                /\ (k - 2) + i = k + (i - 1) - 1
            BY <5>2, <4>1, <1>1
          <6>2. r[1 + (i - 1)] = t[i - 1] /\ t[i - 1] = n[k + (i - 1) - 1]
            BY <6>1, <2>6, <3>3
          <6> QED  BY <6>1, <6>2
        <5> QED  BY <5>1, <5>2
      <4>4. Width - Len(r) = k - 2 /\ Len(r) <= Width
        BY <4>1, <1>1
      <4>5. Trimmed(r, n)
        BY <4>1, <4>2, <4>3, <4>4, <3>3, Zenon DEF Trimmed
      <4> QED  BY <4>5, <3>1, <3>2, <3>3, Padded
    <3> QED  BY <3>4, <3>5
  <2> QED  BY <2>7, <2>8
<1> QED  BY <1>4, <1>5

(* Whatever the writing, verify is asked about the signature that was made. *)
LEMMA WritingsRead ==
  ASSUME NEW r \in [1..Width -> Byte], NEW s \in [1..Width -> Byte],
         NEW b \in Writings(<<r, s>>)
  PROVE  FinalSigBytes(b) = CompactForm(<<r, s>>)
<1>1. Width \in Nat /\ r \in Seq(Nat) /\ s \in Seq(Nat) /\ Len(r) = Width /\ Len(s) = Width
  BY BytesTyped
<1>2. CompactForm(<<r, s>>) = r \o s
  BY DEF CompactForm
<1>3. CASE b = r \o s
  <2>1. Len(b) = Len(r) + Len(s)
    BY <1>1, <1>3, Cat
  <2>2. ~ (Len(b) > 2 * Width)
    BY <2>1, <1>1
  <2> QED  BY <1>2, <1>3, <2>2, Zenon DEF FinalSigBytes
<1>4. CASE b = Der(<<r, s>>) /\ Len(Der(<<r, s>>)) > 2 * Width
  <2>1. PICK a, c : a = Minimal(r) /\ c = Minimal(s)
    OBVIOUS
  <2>2. a \in Seq(Nat) /\ c \in Seq(Nat) /\ Normalize(a) = r /\ Normalize(c) = s
    BY <2>1, MinimalRead
  <2>3. Der(<<r, s>>) = <<Sequence, Len(DerInteger(r) \o DerInteger(s))>>
                          \o (DerInteger(r) \o DerInteger(s))
    BY DEF Der
  <2>4. DerInteger(r) = <<Integer, Len(a)>> \o a /\ DerInteger(s) = <<Integer, Len(c)>> \o c
    BY <2>1 DEF DerInteger
  <2>5. Len(DerInteger(r) \o DerInteger(s)) \in Nat
    BY <2>2, <2>4 DEF Integer
  <2>6. \A t \in {Sequence, Integer}, m \in Nat : Header(<<t, m>>, t, m)
    BY DEF Header, Sequence, Integer
  <2>7. Header(<<Integer, Len(a)>>, Integer, Len(a)) /\ Header(<<Integer, Len(c)>>, Integer, Len(c))
    BY <2>2, <2>6
  <2>8. Header(<<Sequence, Len(DerInteger(r) \o DerInteger(s))>>, Sequence,
               Len(DerInteger(r) \o DerInteger(s)))
    BY <2>5, <2>6
  <2>9. ReadAs(b, a, c)
    BY <1>4, <2>2, <2>3, <2>4, <2>7, <2>8, DerReads, Zenon
  <2> QED  BY <1>2, <1>4, <2>2, <2>9, Zenon DEF ReadAs, FinalSigBytes
<1> QED  BY <1>2, <1>3, <1>4 DEF Writings

(* The answer is that of the function.                                      *)
FormatsInv == call \in Calls /\ (answer = "none" \/
                answer = IF VerifySignature(call) THEN "accepted" ELSE "refused")

(* AcceptsTheSignature, for every width and every call: verifySignature     *)
(* accepts a signature in either writing exactly when the sender made it    *)
(* with the key, over one of the readings of the message, and it is one the *)
(* library takes: in range, and its s not in the upper half.                *)
THEOREM FormatsAccept == FormatsSpec => []AcceptsTheSignature
<1>1. FormatsInit => FormatsInv
  BY DEF FormatsInit, FormatsInv
<1>2. FormatsInv /\ [Verify]_formatsVars => FormatsInv'
  BY DEF FormatsInv, Verify, formatsVars
<1>3. ASSUME FormatsInv PROVE AcceptsTheSignature
  <2> SUFFICES ASSUME answer # "none", call.sig \in Writings(call.rs)
               PROVE  answer = "accepted" <=>
                        /\ call.formed /\ call.own /\ Canonical(call.rs)
                        /\ call.over \in {"raw"} \cup {x \in {"utf8"} : call.kind = "hex"}
    BY DEF AcceptsTheSignature
  <2>1. /\ call.rs \in [1..Width -> Byte] \X [1..Width -> Byte]
        /\ call.own \in BOOLEAN /\ call.formed \in BOOLEAN
    BY <1>3, FormatsAssumption DEF FormatsInv
  <2>2. PICK r \in [1..Width -> Byte], s \in [1..Width -> Byte] : call.rs = <<r, s>>
    BY <2>1
  <2>3. FinalSigBytes(call.sig) = CompactForm(call.rs)
    BY <2>2, WritingsRead, Zenon
  <2>4. answer = "accepted" <=> VerifySignature(call)
    BY <1>3 DEF FormatsInv
  <2>5. VerifySignature(call) <=> /\ call.formed /\ call.own /\ Canonical(call.rs)
                                  /\ \/ "raw" = call.over
                                     \/ call.kind = "hex" /\ "utf8" = call.over
    BY <2>3, Zenon DEF VerifySignature, LibraryVerifies
  <2>6. call.over \in {"raw"} \cup {x \in {"utf8"} : call.kind = "hex"}
          <=> \/ "raw" = call.over
              \/ call.kind = "hex" /\ "utf8" = call.over
    BY Zenon
  <2> QED  BY <2>4, <2>5, <2>6, Zenon
<1> QED  BY <1>1, <1>2, <1>3, PTL DEF FormatsSpec

-----------------------------------------------------------------------------
(* Reserved usernames.                                                      *)
-----------------------------------------------------------------------------
(* A piece lies between two neighbouring cuts.                              *)
LEMMA PieceIs ==
  ASSUME NEW C, NEW a \in C, NEW b \in C, a < b, \A c \in C : c <= a \/ c >= b
  PROVE  <<a, b>> \in Pieces(C)
BY DEF Pieces

(* And every piece is of that form.                                         *)
LEMMA PieceEnds ==
  ASSUME NEW C, NEW p \in Pieces(C)
  PROVE  \E a \in C, b \in C : p = <<a, b>> /\ a < b /\ \A c \in C : c <= a \/ c >= b
<1>1. p \in C \X C /\ p[1] < p[2] /\ \A c \in C : c <= p[1] \/ c >= p[2]
  BY DEF Pieces
<1>2. p[1] \in C /\ p[2] \in C /\ p = <<p[1], p[2]>>
  BY <1>1
<1> QED  BY <1>1, <1>2, Zenon

(* A division of a prefix goes on to `to` with one more piece.              *)
LEMMA ExtendCut ==
  ASSUME NEW start \in Nat, NEW to \in Nat, start < to, NEW C \in Cuts(start),
         Reads(<<start, to>>, ProtectedWords \cup FillerWords)
  PROVE  /\ C \cup {to} \in Cuts(to)
         /\ Pieces(C) \subseteq Pieces(C \cup {to})
         /\ <<start, to>> \in Pieces(C \cup {to})
<1>1. /\ C \subseteq 0..start /\ 0 \in C /\ start \in C
      /\ \A p \in Pieces(C) : Reads(p, ProtectedWords \cup FillerWords)
  BY DEF Cuts
<1>2. \A c \in C : c \in Nat /\ c <= start
  BY <1>1
<1>3. Pieces(C) \subseteq Pieces(C \cup {to})
  <2>1. ASSUME NEW p \in Pieces(C) PROVE p \in Pieces(C \cup {to})
    <3>1. PICK a \in C, b \in C : p = <<a, b>> /\ a < b /\ \A c \in C : c <= a \/ c >= b
      BY PieceEnds, Zenon
    <3>2. \A c \in C \cup {to} : c <= a \/ c >= b
      BY <3>1, <1>2
    <3> QED  BY <3>1, <3>2, PieceIs
  <2> QED  BY <2>1
<1>4. <<start, to>> \in Pieces(C \cup {to})
  <2>1. \A c \in C \cup {to} : c <= start \/ c >= to
    BY <1>2
  <2> QED  BY <2>1, <1>1, PieceIs
<1>5. ASSUME NEW p \in Pieces(C \cup {to}) PROVE p = <<start, to>> \/ p \in Pieces(C)
  <2>1. PICK a \in C \cup {to}, b \in C \cup {to} :
          p = <<a, b>> /\ a < b /\ \A c \in C \cup {to} : c <= a \/ c >= b
    BY PieceEnds, Zenon
  <2>2. a \in C
    BY <2>1, <1>2
  <2>3. CASE b = to
    <3>1. start <= a \/ start >= to
      BY <2>1, <2>3, <1>1
    <3>2. a = start
      BY <3>1, <2>2, <1>2
    <3> QED  BY <3>2, <2>1, <2>3
  <2>4. CASE b # to
    BY <2>1, <2>2, <2>4, PieceIs
  <2> QED  BY <2>3, <2>4
<1>6. C \cup {to} \in SUBSET (0..to) /\ {0, to} \subseteq C \cup {to}
  <2>1. \A c \in C \cup {to} : c \in 0..to
    BY <1>2
  <2> QED  BY <2>1, <1>1
<1>7. \A p \in Pieces(C \cup {to}) : Reads(p, ProtectedWords \cup FillerWords)
  BY <1>1, <1>5, Zenon
<1> QED  BY <1>3, <1>4, <1>6, <1>7 DEF Cuts

(* And every division of it comes from one of a shorter prefix.             *)
LEMMA SplitCut ==
  ASSUME NEW to \in Nat, to >= 1, NEW C \in Cuts(to)
  PROVE  \E start \in 0..(to - 1) :
           /\ C \ {to} \in Cuts(start) /\ <<start, to>> \in Pieces(C)
           /\ \A p \in Pieces(C) : p = <<start, to>> \/ p \in Pieces(C \ {to})
<1>1. /\ C \subseteq 0..to /\ 0 \in C /\ to \in C
      /\ \A p \in Pieces(C) : Reads(p, ProtectedWords \cup FillerWords)
  BY DEF Cuts
<1>2. \A c \in C : c \in Nat /\ c <= to
  BY <1>1
<1>3. PICK start \in C \ {to} : \A c \in C \ {to} : c <= start
  <2> DEFINE Z == {to - c : c \in C \ {to}}
  <2>1. Z \in SUBSET Nat
    BY <1>2
  <2>2. Z # {}
    BY <1>1
  <2>3. PICK m \in Z : \A x \in Z : m <= x
    <3> HIDE DEF Z
    <3> QED  BY <2>1, <2>2, LeastExists
  <2>4. PICK s \in C \ {to} : m = to - s
    BY <2>3
  <2>5. \A c \in C \ {to} : to - s <= to - c
    BY <2>3, <2>4
  <2>6. \A c \in C \ {to} : c <= s
    BY <2>5, <1>2
  <2> QED  BY <2>6
<1>4. start \in 0..(to - 1) /\ start \in Nat /\ start < to
  BY <1>2, <1>3
<1>5. <<start, to>> \in Pieces(C)
  <2>1. \A c \in C : c <= start \/ c >= to
    BY <1>1, <1>2, <1>3
  <2> QED  BY <2>1, <1>1, <1>3, <1>4, PieceIs
<1>6. ASSUME NEW p \in Pieces(C) PROVE p = <<start, to>> \/ p \in Pieces(C \ {to})
  <2>1. PICK a \in C, b \in C : p = <<a, b>> /\ a < b /\ \A c \in C : c <= a \/ c >= b
    BY PieceEnds, Zenon
  <2>2. a \in C \ {to}
    BY <2>1, <1>2
  <2>3. CASE b = to
    <3>1. start <= a \/ start >= to
      BY <2>1, <2>3, <1>3
    <3>2. a = start
      BY <3>1, <2>2, <1>2, <1>3, <1>4
    <3> QED  BY <3>2, <2>1, <2>3
  <2>4. CASE b # to
    BY <2>1, <2>2, <2>4, PieceIs
  <2> QED  BY <2>3, <2>4
<1>7. Pieces(C \ {to}) \subseteq Pieces(C)
  <2>1. ASSUME NEW p \in Pieces(C \ {to}) PROVE p \in Pieces(C)
    <3>1. PICK a \in C \ {to}, b \in C \ {to} :
            p = <<a, b>> /\ a < b /\ \A c \in C \ {to} : c <= a \/ c >= b
      BY PieceEnds, Zenon
    <3>2. \A c \in C : c <= a \/ c >= b
      BY <3>1, <1>2
    <3> QED  BY <3>1, <3>2, PieceIs
  <2> QED  BY <2>1
<1>8. C \ {to} \in Cuts(start)
  <2>1. \A c \in C \ {to} : c \in 0..start
    BY <1>2, <1>3, <1>4
  <2>2. C \ {to} \in SUBSET (0..start) /\ {0, start} \subseteq C \ {to}
    BY <2>1, <1>1, <1>3
  <2> QED  BY <2>2, <1>1, <1>7 DEF Cuts
<1> QED  BY <1>4, <1>5, <1>6, <1>8

(* What the inner loops look for: a word from a segmentable prefix on.      *)
LEMMA EndsRead ==
  ASSUME NEW to \in Nat, NEW words, NEW reach
  PROVE  Ends(words, to, reach)
           <=> \E start \in 0..(to - 1) : StateAt(start) \in reach /\ Reads(<<start, to>>, words)
<1>1. ASSUME NEW start \in 0..(to - 1)
      PROVE  (\E from \in StartsOf(start) : Slice(from, to) \in words)
               <=> Reads(<<start, to>>, words)
  <2>1. start \in Nat
    OBVIOUS
  <2>2. <<start, to>>[1] = start /\ <<start, to>>[2] = to
    OBVIOUS
  <2>3. \A from : from \in StartsOf(start) <=> from \in {start, start - 1} /\ from >= 0
    BY <2>1 DEF StartsOf
  <2>4. Reads(<<start, to>>, words)
          <=> \E from \in {start, start - 1} : from >= 0 /\ Slice(from, to) \in words
    BY <2>2 DEF Reads
  <2> QED  BY <2>3, <2>4, Zenon
<1> QED  BY <1>1, Zenon DEF Ends

(* The table up to `last`.                                                  *)
Exact(n) == /\ StateAt(n) # 0 <=> Cuts(n) # {}
            /\ StateAt(n) = 2 <=> \E C \in Cuts(n) : \E p \in Pieces(C) : Reads(p, ProtectedWords)

(* An entry computed from exact entries is exact.                           *)
LEMMA NextExact ==
  ASSUME NEW to \in Nat, to >= 1,
         \A n \in 0..(to - 1) : StateAt(n) \in {0, 1, 2} /\ Exact(n)
  PROVE  /\ NextState(to) # 0 <=> Cuts(to) # {}
         /\ NextState(to) = 2 <=> \E C \in Cuts(to) : \E p \in Pieces(C) : Reads(p, ProtectedWords)
<1> DEFINE Protects(C) == \E p \in Pieces(C) : Reads(p, ProtectedWords)
<1>1. \A p : Reads(p, ProtectedWords \cup FillerWords)
                <=> Reads(p, ProtectedWords) \/ Reads(p, FillerWords)
  BY DEF Reads
<1>2. ASSUME NEW start \in 0..(to - 1), NEW C \in Cuts(start),
             Reads(<<start, to>>, ProtectedWords) \/ Reads(<<start, to>>, FillerWords)
      PROVE  /\ C \cup {to} \in Cuts(to)
             /\ Protects(C) \/ Reads(<<start, to>>, ProtectedWords) => Protects(C \cup {to})
  <2>1. start \in Nat /\ start < to
    OBVIOUS
  <2>2. /\ C \cup {to} \in Cuts(to) /\ Pieces(C) \subseteq Pieces(C \cup {to})
        /\ <<start, to>> \in Pieces(C \cup {to})
    BY <2>1, <1>1, <1>2, ExtendCut, Zenon
  <2> QED  BY <2>2, Zenon
<1>3. ASSUME NEW words \in {ProtectedWords, FillerWords}, NEW reach \in SUBSET {1, 2},
             Ends(words, to, reach)
      PROVE  \E C \in Cuts(to) : words = ProtectedWords \/ reach = {2} => Protects(C)
  <2>1. PICK start \in 0..(to - 1) : StateAt(start) \in reach /\ Reads(<<start, to>>, words)
    BY <1>3, EndsRead
  <2>2. StateAt(start) # 0
    BY <2>1
  <2>3. PICK C \in Cuts(start) : StateAt(start) = 2 => Protects(C)
    BY <2>2 DEF Exact
  <2>4. reach = {2} => StateAt(start) = 2
    BY <2>1
  <2> QED  BY <1>2, <2>1, <2>3, <2>4
<1>4. ASSUME NEW C \in Cuts(to)
      PROVE  /\ Ends(ProtectedWords, to, {1, 2}) \/ Ends(FillerWords, to, {2})
                 \/ Ends(FillerWords, to, {1})
             /\ Protects(C) => Ends(ProtectedWords, to, {1, 2}) \/ Ends(FillerWords, to, {2})
  <2>1. PICK start \in 0..(to - 1) :
          /\ C \ {to} \in Cuts(start) /\ <<start, to>> \in Pieces(C)
          /\ \A p \in Pieces(C) : p = <<start, to>> \/ p \in Pieces(C \ {to})
    BY SplitCut, Zenon
  <2>2. StateAt(start) \in {1, 2} /\ (Protects(C \ {to}) => StateAt(start) = 2)
    BY <2>1 DEF Exact
  <2>3. Reads(<<start, to>>, ProtectedWords) \/ Reads(<<start, to>>, FillerWords)
    BY <2>1, <1>1 DEF Cuts
  <2>4. Reads(<<start, to>>, ProtectedWords) => Ends(ProtectedWords, to, {1, 2})
    BY <2>2, EndsRead
  <2>5. Reads(<<start, to>>, FillerWords)
          => Ends(FillerWords, to, {1}) \/ Ends(FillerWords, to, {2})
    BY <2>2, EndsRead
  <2>6. Reads(<<start, to>>, FillerWords) /\ StateAt(start) = 2 => Ends(FillerWords, to, {2})
    BY EndsRead
  <2>7. Protects(C) => Reads(<<start, to>>, ProtectedWords) \/ Protects(C \ {to})
    BY <2>1
  <2> QED  BY <2>2, <2>3, <2>4, <2>5, <2>6, <2>7
<1>5. /\ Ends(ProtectedWords, to, {1, 2}) \/ Ends(FillerWords, to, {2})
            => \E C \in Cuts(to) : Protects(C)
      /\ Ends(FillerWords, to, {1}) => Cuts(to) # {}
  BY <1>3
<1> HIDE DEF Protects
<1>6. NextState(to) # 0 <=> Cuts(to) # {}
  BY <1>4, <1>5 DEF NextState
<1>7. NextState(to) = 2 <=> \E C \in Cuts(to) : Protects(C)
  BY <1>4, <1>5 DEF NextState
<1> QED  BY <1>6, <1>7 DEF Protects

(* The empty prefix has one division, without a piece.                      *)
LEMMA NoPieces == \A C \in SUBSET (0..0) : Pieces(C) = {}
<1> SUFFICES ASSUME NEW C \in SUBSET (0..0), NEW p \in Pieces(C) PROVE FALSE
  OBVIOUS
<1>1. PICK a \in C, b \in C : a < b
  BY PieceEnds
<1>2. \A c \in C : c = 0
  OBVIOUS
<1> QED  BY <1>1, <1>2

TableInv == /\ state \in Seq({0, 1, 2})
            /\ skeleton = NoSkeleton => state = <<>>
            /\ state # <<>> => TableIsExact

(* What an empty table says is so, of every skeleton.                       *)
LEMMA EmptyExact == state = <<>> => TableIsExact
<1> SUFFICES ASSUME state = <<>> PROVE TableIsExact
  OBVIOUS
<1>1. Done = 0 /\ StateAt(0) = 1
  BY DEF Done, StateAt
<1>2. Cuts(0) # {}
  <2>1. {0} \in SUBSET (0..0) /\ Pieces({0}) = {}
    BY NoPieces
  <2>2. {0} \in Cuts(0)
    BY <2>1 DEF Cuts
  <2> QED  BY <2>2
<1>3. \A C \in Cuts(0) : Pieces(C) = {}
  BY NoPieces DEF Cuts
<1> QED  BY <1>1, <1>2, <1>3 DEF TableIsExact

(* One round of the outer loop.                                             *)
LEMMA DecidePrefixKeeps == TableInv /\ DecidePrefix => TableInv'
<1> SUFFICES ASSUME TableInv, DecidePrefix PROVE TableInv'
  OBVIOUS
<1>1. /\ state \in Seq({0, 1, 2}) /\ TableIsExact
      /\ skeleton # NoSkeleton /\ skeleton' = skeleton
      /\ state' = Append(state, NextState(Done + 1))
  BY EmptyExact DEF TableInv, DecidePrefix
<1>2. PICK d \in Nat : d = Len(state)
  BY <1>1
<1>3. \A n \in 0..d : StateAt(n) \in {0, 1, 2} /\ Exact(n)
  BY <1>1, <1>2 DEF TableIsExact, Exact, Done, StateAt
<1>4. PICK e : e = NextState(d + 1)
  OBVIOUS
<1>5. e \in {0, 1, 2}
  BY <1>4 DEF NextState
<1>6. /\ state' \in Seq({0, 1, 2}) /\ Len(state') = d + 1 /\ state'[d + 1] = e
      /\ \A i \in 1..d : state'[i] = state[i]
  BY <1>1, <1>2, <1>4, <1>5 DEF Done
<1>7. /\ e # 0 <=> Cuts(d + 1) # {}
      /\ e = 2 <=> \E C \in Cuts(d + 1) : \E p \in Pieces(C) : Reads(p, ProtectedWords)
  <2>1. d + 1 \in Nat /\ d + 1 >= 1 /\ 0..((d + 1) - 1) = 0..d
    OBVIOUS
  <2> QED  BY <2>1, <1>3, <1>4, NextExact, Zenon
<1>8. \A p, words : Reads(p, words)' = Reads(p, words)
  BY <1>1 DEF Reads, Slice
<1>9. \A n : Cuts(n)' = Cuts(n)
  BY <1>1 DEF Cuts, Reads, Slice
<1>10. ASSUME NEW n \in 0..(d + 1)
       PROVE  /\ StateAt(n)' # 0 <=> Cuts(n) # {}
              /\ StateAt(n)' = 2 <=> \E C \in Cuts(n) : \E p \in Pieces(C) :
                                        Reads(p, ProtectedWords)
  <2>1. CASE n \in 0..d
    <3>1. StateAt(n)' = StateAt(n)
      BY <2>1, <1>6 DEF StateAt
    <3> QED  BY <2>1, <3>1, <1>3 DEF Exact
  <2>2. CASE n \notin 0..d
    <3>1. n = d + 1
      BY <2>2
    <3>2. StateAt(n)' = e
      BY <3>1, <1>6 DEF StateAt
    <3> QED  BY <3>1, <3>2, <1>7
  <2> QED  BY <2>1, <2>2
<1>11. Done' = d + 1
  BY <1>6 DEF Done
<1>12. TableIsExact'
  BY <1>8, <1>9, <1>10, <1>11 DEF TableIsExact
<1> QED  BY <1>1, <1>6, <1>12 DEF TableInv

(* The other steps leave the table, or empty it.                            *)
LEMMA OthersKeep ==
  TableInv /\ (TakeCandidate \/ EndCandidate \/ Allow \/ UNCHANGED reservedVars) => TableInv'
<1> SUFFICES ASSUME TableInv,
                    TakeCandidate \/ EndCandidate \/ Allow \/ UNCHANGED reservedVars
             PROVE  TableInv'
  OBVIOUS
<1>1. CASE TakeCandidate
  <2>1. state = <<>> /\ state' = <<>>
    BY <1>1 DEF TakeCandidate, TableInv
  <2> QED  BY <2>1 DEF TableInv
<1>2. CASE skeleton' = skeleton /\ state' = state
  <2>1. TableIsExact => TableIsExact'
    BY <1>2 DEF TableIsExact, Done, StateAt, Cuts, Reads, Slice
  <2> QED  BY <2>1, <1>2 DEF TableInv
<1>3. CASE state' = <<>>
  BY <1>3 DEF TableInv
<1>4. TakeCandidate \/ (skeleton' = skeleton /\ state' = state) \/ state' = <<>>
  BY DEF EndCandidate, Allow, reservedVars
<1> QED  BY <1>1, <1>2, <1>3, <1>4

(* Every step of isReservedUsername keeps the table exact.                  *)
LEMMA TableKept == TableInv /\ [ReservedNext]_reservedVars => TableInv'
BY DecidePrefixKeeps, OthersKeep DEF ReservedNext

(* TableIsExact, for every word list, filler list and name: the table that  *)
(* segmentsIntoProtected fills holds of every prefix whether it splits into *)
(* words, and whether with a protected one among them.                      *)
THEOREM TableExact == ReservedSpec => []TableIsExact
<1>1. ReservedInit => TableInv
  BY DEF ReservedInit, TableInv
<1>2. TableInv /\ [ReservedNext]_reservedVars => TableInv'
  BY TableKept
<1>3. TableInv => TableIsExact
  BY EmptyExact DEF TableInv
<1> QED  BY <1>1, <1>2, <1>3, PTL DEF ReservedSpec

(* s splits entirely into protected words and fillers, one of the former    *)
(* among them.                                                              *)
ReadsIn(s, p, words) ==
  \E from \in {p[1], p[1] - 1} : from >= 0 /\ SubSeq(s, from + 1, p[2]) \in words
Segments(s) ==
  \E C \in SUBSET (0..Len(s)) :
    /\ {0, Len(s)} \subseteq C
    /\ \A p \in Pieces(C) : ReadsIn(s, p, ProtectedWords \cup FillerWords)
    /\ \E p \in Pieces(C) : ReadsIn(s, p, ProtectedWords)

(* The answer of isReservedUsername: some reading of the name does so.      *)
VerdictIsTrue ==
  /\ verdict = "reserved" => \E s \in CandidateSkeletons(name) : Segments(s)
  /\ verdict = "free" => \A s \in CandidateSkeletons(name) : ~Segments(s)

(* The candidates passed over do not.                                       *)
CandidatesInv ==
  /\ todo \subseteq CandidateSkeletons(name)
  /\ skeleton # NoSkeleton => skeleton \in CandidateSkeletons(name)
  /\ \A s \in CandidateSkeletons(name) : s \in todo \/ s = skeleton \/ ~Segments(s)
  /\ verdict = "free" => todo = {} /\ skeleton = NoSkeleton
  /\ verdict = "reserved" => Segments(skeleton) /\ skeleton # NoSkeleton

(* An empty name is no compound of words.                                   *)
LEMMA EmptyDoesNotSegment == ~Segments(NoSkeleton)
<1>1. Len(NoSkeleton) = 0
  BY DEF NoSkeleton
<1> QED  BY <1>1, NoPieces, Zenon DEF Segments

(* The last entry of a full table answers for the skeleton.                 *)
LEMMA TableAnswers ==
  ASSUME TableInv, Done = Len(skeleton)
  PROVE  StateAt(Done) = 2 <=> Segments(skeleton)
<1>1. TableIsExact /\ Done \in 0..Done
  BY EmptyExact DEF TableInv, Done
<1>2. StateAt(Done) = 2 <=> \E C \in Cuts(Done) : \E p \in Pieces(C) : Reads(p, ProtectedWords)
  BY <1>1, Zenon DEF TableIsExact
<1>3. \A p, words : Reads(p, words) <=> ReadsIn(skeleton, p, words)
  BY Zenon DEF Reads, ReadsIn, Slice
<1> QED  BY <1>2, <1>3, Zenon DEF Cuts, Segments

(* A candidate is passed over only when it does not segment.                *)
LEMMA CandidatesKept ==
  TableInv /\ CandidatesInv /\ [ReservedNext]_reservedVars => CandidatesInv'
<1> SUFFICES ASSUME TableInv, CandidatesInv, [ReservedNext]_reservedVars PROVE CandidatesInv'
  OBVIOUS
<1>1. CASE TakeCandidate
  BY <1>1, EmptyDoesNotSegment DEF TakeCandidate, CandidatesInv
<1>2. CASE DecidePrefix
  BY <1>2 DEF DecidePrefix, CandidatesInv
<1>3. CASE EndCandidate
  <2>1. StateAt(Done) = 2 <=> Segments(skeleton)
    BY <1>3, TableAnswers DEF EndCandidate
  <2> QED  BY <1>3, <2>1 DEF EndCandidate, CandidatesInv
<1>4. CASE Allow
  BY <1>4 DEF Allow, CandidatesInv
<1>5. CASE UNCHANGED reservedVars
  BY <1>5 DEF reservedVars, CandidatesInv
<1> QED  BY <1>1, <1>2, <1>3, <1>4, <1>5 DEF ReservedNext

(* isReservedUsername answers "reserved" exactly for the names one of whose *)
(* skeletons is a compound of protected words and fillers, for every list.  *)
THEOREM VerdictExact == ReservedSpec => []VerdictIsTrue
<1>1. ReservedInit => TableInv /\ CandidatesInv
  BY DEF ReservedInit, TableInv, CandidatesInv
<1>2. TableInv /\ CandidatesInv /\ [ReservedNext]_reservedVars => (TableInv /\ CandidatesInv)'
  BY TableKept, CandidatesKept
<1>3. TableInv /\ CandidatesInv => VerdictIsTrue
  BY EmptyDoesNotSegment DEF CandidatesInv, VerdictIsTrue
<1> QED  BY <1>1, <1>2, <1>3, PTL DEF ReservedSpec
=============================================================================
