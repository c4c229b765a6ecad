------------------------- MODULE ReservedUsernames -------------------------
(***************************************************************************)
(* Names nobody may take: isReservedUsername of                            *)
(* src/common/reserved-usernames.ts, called on registration and on         *)
(* claiming a new name.  A name is a sequence of characters, already       *)
(* normalised; so is a word of the list.  The folding of a name is written *)
(* as operators, the segmentation as the loop it is: one step per prefix.  *)
(***************************************************************************)
EXTENDS SequencesExt

CONSTANTS Words,        \* DEFAULT_RESERVED_USERNAMES
          Fillers,      \* FILLERS
          Extra,        \* the entries of RESERVED_USERNAMES
          Alphabet,     \* what an entry may be made of
          MaxLength,    \* and how long it may be
          Names         \* the names asked about

Digits     == {"0", "1", "2", "3", "4", "5", "6", "7", "8", "9"}
Separators == {".", "_", "-"}

VARIABLES name,       \* the username of the call
          todo,       \* its candidate skeletons not tried yet
          skeleton,   \* the one being segmented
          state,      \* state[i]: its first i characters are not segmentable
                      \* (0), only fillers (1), with a protected word (2)
          verdict     \* the answer of the call

reservedVars == <<name, todo, skeleton, state, verdict>>

-----------------------------------------------------------------------------
(* LOOKALIKES: digits and letters swapped in to imitate another.            *)
Lookalike(c) == CASE c = "0" -> "o" [] c \in {"1", "l"} -> "i" [] c = "2" -> "z"
                  [] c = "3" -> "e" [] c = "4" -> "a" [] c = "5" -> "s"
                  [] c \in {"6", "9", "q"} -> "g" [] c = "7" -> "t"
                  [] c = "8" -> "b" [] OTHER -> c

Compact(n) == SelectSeq(n, LAMBDA c : c \notin Separators)

(* Replaces every ab by c, from the left.                                   *)
FoldPair(n, a, b, c) ==
  FoldLeft(LAMBDA done, x : IF done # <<>> /\ Last(done) = a /\ x = b
                            THEN Append(Front(done), c) ELSE Append(done, x),
           <<>>, n)

Collapse(n) ==
  FoldLeft(LAMBDA done, x : IF done # <<>> /\ Last(done) = x THEN done
                            ELSE Append(done, x), <<>>, n)

FoldSingles(n) == [i \in DOMAIN n |-> Lookalike(n[i])]

Folded(n) == FoldPair(FoldPair(Compact(n), "r", "n", "m"), "v", "v", "w")

UsernameSkeleton(n) == FoldSingles(Collapse(Folded(n)))

(* Leading and trailing digits of n dropped.                                *)
LetterAt(n) == {i \in DOMAIN n : n[i] \notin Digits}
TrimRight(n) == IF LetterAt(n) = {} THEN <<>> ELSE SubSeq(n, 1, Max(LetterAt(n)))
TrimLeft(n)  == IF LetterAt(n) = {} THEN <<>> ELSE SubSeq(n, Min(LetterAt(n)), Len(n))

(* Mutant: a digit is taken for decoration only at the end.                 *)
TrailingOnly(n) == LET c == Compact(n)
                   IN  {UsernameSkeleton(v) : v \in {c, TrimRight(c)} \ {<<>>}}

CandidateSkeletons(n) ==
  LET c == Compact(n)
  IN  {UsernameSkeleton(v) :
         v \in {c, TrimRight(c), TrimLeft(c), TrimLeft(TrimRight(c))} \ {<<>>}}

(* extraSkeletons: an entry that is no username is ignored.                 *)
UsernameShape(e) == Len(e) \in 1..MaxLength /\ Range(e) \subseteq Alphabet
ExtraSkeletons == {UsernameSkeleton(e) : e \in {x \in Extra : UsernameShape(x)}} \ {<<>>}

ProtectedWords == {UsernameSkeleton(w) : w \in Words} \cup ExtraSkeletons
FillerWords    == {UsernameSkeleton(w) : w \in Fillers}

-----------------------------------------------------------------------------
NoSkeleton == <<>>

ReservedInit ==
  /\ name \in Names
  /\ todo = CandidateSkeletons(name)
  /\ skeleton = NoSkeleton
  /\ state = <<>>
  /\ verdict = "none"

(* slice(from, to).                                                         *)
Slice(from, to) == SubSeq(skeleton, from + 1, to)
Done == Len(state)      \* the prefixes up to this length are decided

(* A word may reuse the last character of the word before it.               *)
StartsOf(start) == IF start > 0 THEN {start, start - 1} ELSE {start}

(* The words that end at `to` after a segmentable prefix.                   *)
StateAt(i) == IF i = 0 THEN 1 ELSE state[i]
Ends(words, to, reach) ==
  \E start \in 0..(to - 1) : /\ StateAt(start) \in reach
                             /\ \E from \in StartsOf(start) : Slice(from, to) \in words

(* Mutant: a filler does not remember the protected word before it.         *)
ForgetfulState(to) == IF Ends(ProtectedWords, to, {1, 2}) THEN 2
                      ELSE IF Ends(FillerWords, to, {1, 2}) THEN 1 ELSE 0

(* What the two inner loops leave in state[to].                             *)
NextState(to) ==
  IF Ends(ProtectedWords, to, {1, 2}) \/ Ends(FillerWords, to, {2}) THEN 2
  ELSE IF Ends(FillerWords, to, {1}) THEN 1 ELSE 0

(* segmentsIntoProtected is called on the next candidate.                   *)
TakeCandidate ==
  /\ verdict = "none" /\ skeleton = NoSkeleton
  /\ \E s \in todo : skeleton' = s /\ todo' = todo \ {s}
  /\ UNCHANGED <<name, state, verdict>>

(* One round of its outer loop.                                             *)
DecidePrefix ==
  /\ verdict = "none" /\ skeleton # NoSkeleton /\ Done < Len(skeleton)
  /\ state' = Append(state, NextState(Done + 1))
  /\ UNCHANGED <<name, todo, skeleton, verdict>>

(* It returns; some() stops at the first candidate that is reserved.        *)
EndCandidate ==
  /\ verdict = "none" /\ skeleton # NoSkeleton /\ Done = Len(skeleton)
  /\ IF StateAt(Done) = 2 THEN verdict' = "reserved" /\ UNCHANGED <<skeleton, state>>
     ELSE skeleton' = NoSkeleton /\ state' = <<>> /\ UNCHANGED verdict
  /\ UNCHANGED <<name, todo>>

Allow == /\ verdict = "none" /\ skeleton = NoSkeleton /\ todo = {}
         /\ verdict' = "free"
         /\ UNCHANGED <<name, todo, skeleton, state>>

ReservedNext == TakeCandidate \/ DecidePrefix \/ EndCandidate \/ Allow
ReservedSpec == ReservedInit /\ [][ReservedNext]_reservedVars

-----------------------------------------------------------------------------
(* The first n characters cut at C: every piece, or the piece with the last *)
(* character of the one before it, is a word.                               *)
Pieces(C) == {p \in C \X C : p[1] < p[2] /\ \A c \in C : c <= p[1] \/ c >= p[2]}
Reads(p, words) == \E from \in {p[1], p[1] - 1} : from >= 0 /\ Slice(from, p[2]) \in words
Cuts(n) == {C \in SUBSET (0..n) :
              /\ {0, n} \subseteq C
              /\ \A p \in Pieces(C) : Reads(p, ProtectedWords \cup FillerWords)}

(* "True when skeleton splits entirely into protected words and fillers,    *)
(* with at least one protected word": the table the loop fills from left to *)
(* right, each entry from the entries before it, holds exactly that of      *)
(* every prefix.                                                            *)
TableIsExact ==
  \A n \in 0..Done :
    /\ StateAt(n) # 0 <=> Cuts(n) # {}
    /\ StateAt(n) = 2 <=> \E C \in Cuts(n) : \E p \in Pieces(C) :
                             Reads(p, ProtectedWords)

(* The ways a compound is dressed up: separators, repeated letters, every   *)
(* occurrence of a letter swapped for a lookalike, digits before or after.  *)
(* Where two words meet in rn or vv, or a repeated letter makes one, the    *)
(* pair is itself a lookalike and the name reads as another.                *)
Compounds ==
  LET Meets(v, w) == <<Last(v), Head(w)>> \in {<<"r", "n">>, <<"v", "v">>}
  IN  {FlattenSeq(ws) : ws \in {x \in UNION {[1..k -> Words \cup Fillers] : k \in 1..3} :
         /\ Range(x) \cap Words # {}
         /\ \A i \in 1..(Len(x) - 1) : ~Meets(x[i], x[i + 1])}}
Separated(n) == {InsertAt(n, i, "-") : i \in DOMAIN n}
Repeated(n)  == {InsertAt(n, i, n[i]) : i \in {j \in DOMAIN n : n[j] \notin {"r", "n", "v"}}}
Swapped(n)   == {[i \in DOMAIN n |-> IF n[i] = Lookalike(d) THEN d ELSE n[i]] :
                   d \in {"0", "7"}}
Numbered(n)  == {Append(n, "8"), <<"8">> \o n, Append(<<"8">> \o n, "8")}
Imitations   == UNION {{n} \cup Separated(n) \cup Repeated(n) \cup Swapped(n) \cup Numbered(n) :
                         n \in Compounds}
                \cup UNION {UNION {Separated(r) : r \in Repeated(n)} : n \in Compounds}

(* "a reserved name, a lookalike of one, or a compound of reserved names    *)
(* and fillers": none of them is free, though folding, collapsing and the   *)
(* two readings of digits are applied to the whole name and not word by     *)
(* word.                                                                    *)
ImitationsAreReserved == name \in Imitations => verdict # "free"
=============================================================================
