-------------------------- MODULE SignatureFormats --------------------------
(***************************************************************************)
(* verifySignature and derToCompact of src/auth/secp256k1.utils.ts: a      *)
(* signature comes compact or in DER, over the bytes a hex message stands  *)
(* for or over its characters.  Hex decoding is left out: signature and    *)
(* key are sequences of bytes, and a string that is not hex, or a key of   *)
(* another length, makes the call malformed.                               *)
(***************************************************************************)
EXTENDS SequencesExt

CONSTANTS Width,        \* bytes of r and of s (32)
          CurveOrder,   \* the order n of the curve, in Width bytes
          HalfOrder,    \* and half of it, rounded down
          Calls         \* the calls of verifySignature

(* A call is [sig, rs, over, own, kind, formed]: the signature bytes sent;  *)
(* the signature <<r, s>> its sender made, over the "raw" bytes of the      *)
(* message, its "utf8" characters or "other" bytes, and whether with the    *)
(* key of the call; the kind of the message, a "hex" string or a "buffer";  *)
(* and whether signature, key and message pass the format checks.           *)
Byte == 0..255

(* Numbers of Width bytes, the most significant one first.                  *)
Below(m, n) == \E i \in 1..Width : m[i] < n[i] /\ \A j \in 1..(i - 1) : m[j] = n[j]

ASSUME FormatsAssumption ==
  /\ Width \in Nat \ {0}
  /\ CurveOrder \in [1..Width -> Byte] /\ HalfOrder \in [1..Width -> Byte]
  /\ Below(HalfOrder, CurveOrder)
  /\ \A c \in Calls : /\ c.rs \in [1..Width -> Byte] \X [1..Width -> Byte]
                      /\ c.own \in BOOLEAN /\ c.formed \in BOOLEAN

VARIABLES call, answer

formatsVars == <<call, answer>>

Sequence == 48      \* 0x30, tag of a DER sequence
Integer  == 2       \* 0x02, tag of a DER integer
CompactForm(rs) == rs[1] \o rs[2]

-----------------------------------------------------------------------------
(* Buffer access past the end: undefined, and subarray stops there.         *)
At(b, i) == IF i \in DOMAIN b THEN b[i] ELSE -1
Part(b, from, n) == SubSeq(b, from, IF n < 0 THEN 0
                                    ELSE IF from + n - 1 > Len(b) THEN Len(b) ELSE from + n - 1)

Normalize(b) == IF Len(b) > Width THEN SubSeq(b, Len(b) - Width + 1, Len(b))
                ELSE [i \in 1..(Width - Len(b)) |-> 0] \o b

DerToCompact(b) ==
  LET rLen == At(b, 4)
      next == 5 + rLen          \* where the tag of s is expected
      sLen == At(b, next + 1)
  IN  IF At(b, 3) # Integer \/ At(b, next) # Integer THEN b
      ELSE Normalize(Part(b, 5, rLen)) \o Normalize(Part(b, next + 2, sLen))

(* Mutant: a signature of exactly the compact length is tried as DER.       *)
CompactAsDer(b) == IF Len(b) >= 2 * Width /\ b[1] = Sequence THEN DerToCompact(b) ELSE b

FinalSigBytes(b) == IF Len(b) > 2 * Width /\ b[1] = Sequence THEN DerToCompact(b) ELSE b

Zero == [i \in 1..Width |-> 0]

(* The library's own conditions: r and s are between 1 and n - 1, and, its  *)
(* default (lowS), s is not in the upper half.                              *)
Canonical(rs) == /\ Below(Zero, rs[1]) /\ Below(rs[1], CurveOrder)
                 /\ Below(Zero, rs[2]) /\ ~Below(HalfOrder, rs[2])

(* verify of the library with its default options, external.                *)
LibraryVerifies(c, sigBytes, bytes) ==
  sigBytes = CompactForm(c.rs) /\ Canonical(c.rs) /\ bytes = c.over /\ c.own

VerifySignature(c) ==
  /\ c.formed
  /\ \/ LibraryVerifies(c, FinalSigBytes(c.sig), "raw")
     \/ c.kind = "hex" /\ LibraryVerifies(c, FinalSigBytes(c.sig), "utf8")

FormatsInit == call \in Calls /\ answer = "none"
Verify == /\ answer = "none"
          /\ answer' = IF VerifySignature(call) THEN "accepted" ELSE "refused"
          /\ UNCHANGED call
FormatsSpec == FormatsInit /\ [][Verify]_formatsVars

-----------------------------------------------------------------------------
(* DER: an integer without its leading zeros, with one if its first bit is  *)
(* set, behind tag and length; both behind those of the sequence.           *)
Minimal(n) == LET used == {i \in 1..Len(n) : n[i] # 0}
                  bare == IF used = {} THEN <<0>> ELSE SubSeq(n, Min(used), Len(n))
              IN  IF bare[1] >= 128 THEN <<0>> \o bare ELSE bare
DerInteger(n) == <<Integer, Len(Minimal(n))>> \o Minimal(n)
Der(rs) == LET body == DerInteger(rs[1]) \o DerInteger(rs[2])
           IN  <<Sequence, Len(body)>> \o body

(* The ways to write a signature: compact, or a DER of more bytes than      *)
(* compact has (any shorter one is taken for compact, and refused).         *)
Writings(rs) == {CompactForm(rs)} \cup (IF Len(Der(rs)) > 2 * Width THEN {Der(rs)} ELSE {})

(* "message: tries raw bytes first, then UTF-8 fallback; signature: DER or  *)
(* compact": a signature sent in either writing is accepted exactly when it *)
(* was made with the key and over the message, in one of the readings its   *)
(* kind allows, and is canonical (a valid signature whose s is in the upper *)
(* half is refused); no compact one is mistaken for DER, whatever bytes it  *)
(* begins with, and no integer of a DER one is misread, however many of its *)
(* bytes DER leaves out or adds.                                            *)
AcceptsTheSignature ==
  answer # "none" /\ call.sig \in Writings(call.rs) =>
    (answer = "accepted" <=> /\ call.formed /\ call.own /\ Canonical(call.rs)
                             /\ call.over \in {"raw"} \cup {x \in {"utf8"} : call.kind = "hex"})
=============================================================================
