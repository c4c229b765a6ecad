---------------------------- MODULE MCFunctions ----------------------------
(* The algorithms without shared state, one call each: reserved usernames,  *)
(* the BOLT11 reader, signature formats.  The call of a behaviour is to one *)
(* of them; the other two rest in some initial state.                       *)
EXTENDS ReservedUsernames, Bolt11, SignatureFormats

VARIABLE callee

mcVars == <<callee, reservedVars, vars, formatsVars>>

-----------------------------------------------------------------------------
(* Every short name, and the imitations of up to three words.               *)
MCWords    == {<<"r", "o", "o", "t">>, <<"n", "o">>, <<"a", "r">>}
MCFillers  == {<<"o", "t">>}
MCExtra    == {<<"a", "-">>, <<"-", "-">>, <<"*">>}
MCAlphabet == {"a", "n", "o", "r", "t", "0", "-"}
ShortNames == UNION {[1..k -> {"a", "n", "o", "r", "t", "0"}] : k \in 1..4}
MCNames    == ShortNames \cup Imitations

(* Every body of up to seven words 0, 1 and 2; bodies of up to four fields, *)
(* asked for no hash or one of two; and, for four good bodies, every        *)
(* combination of amount, expiry and flags.                                 *)
Invoice(body) == <<1>> \o body \o <<3, 3>>
GoodQuote == [words |-> <<>>, prefix |-> [digits |-> 10, unit |-> "n"], sats |-> 1,
              expiry |-> 9, formed |-> TRUE, signed |-> TRUE, asked |-> NoHash]
ShortBodies == UNION {[1..k -> 0..2] : k \in 0..7}
Fields == {<<P, 0, 1, 0>>, <<P, 0, 0>>, <<S, 0, 1, 4>>, <<D, 0, 0>>, <<X, 0, 1, 4>>,
           <<X, 0, 2, 1, 0>>, <<H, 0, 1, 2>>, <<H, 0, 1, 4>>, <<H, 0, 1, 3>>, <<H, 0, 2, 2, 2>>}
FieldBodies == {FlattenSeq(fs) : fs \in
                  {x \in UNION {[1..k -> Fields] : k \in 0..4} :
                     \A i, j \in DOMAIN x : x[i][1] = x[j][1] => i = j}}
GoodBodies == {<<P, 0, 1, 0, S, 0, 1, 4>> \o rest :
                 rest \in {<<D, 0, 0>>, <<H, 0, 1, 2>>, <<D, 0, 0, X, 0, 1, 4>>,
                           <<X, 0, 2, 1, 0, H, 0, 1, 4>>}}
MCQuotes ==
  {[GoodQuote EXCEPT !.words = w] :
     w \in {<<>>, <<1>>, <<1, 3>>} \cup {Invoice(b) : b \in ShortBodies}}
  \cup {[GoodQuote EXCEPT !.words = Invoice(b), !.asked = h] :
          b \in FieldBodies, h \in {NoHash, <<1>>, <<2>>}}
  \cup {[GoodQuote EXCEPT !.words = Invoice(b), !.prefix = [digits |-> d, unit |-> u],
                          !.sats = n, !.expiry = e, !.signed = g, !.formed = f] :
          b \in GoodBodies, d \in {1, 10, 1000, 10000, 10005, 10010}, u \in {"p", "n", "u"},
          n \in {1, 100}, e \in {2, 4, 6, 9}, g \in BOOLEAN, f \in BOOLEAN}

(* Integers with and without leading zeros and high bits, up to and past    *)
(* half the order and the order, in both writings, and DER that is cut      *)
(* short or claims too much.                                                *)
MCCurveOrder == <<255, 255, 255, 254, 3>>
MCHalfOrder  == <<127, 255, 255, 255, 1>>
Integers1 == [1..Width -> {0, 2, 48, 200}] \cup {Zero, MCHalfOrder, MCCurveOrder,
               [MCHalfOrder EXCEPT ![5] = 2], [MCCurveOrder EXCEPT ![5] = 2]}
Integers2 == {<<0, 0, 0, 0, 7>>, <<200, 2, 0, 48, 0>>, <<0, 0, 200, 0, 1>>}
Malformed == {<<48, 3, 2, 200, 1, 2, 3, 4, 5, 6, 7>>, <<48, 9, 2, 6, 0, 0, 0, 0, 0, 0, 2>>,
              <<48, 5, 1, 1, 1, 1, 1, 1, 1, 1, 1, 2>>}
GoodCall(rs, w) == [sig |-> w, rs |-> rs, over |-> "raw", own |-> TRUE, kind |-> "hex",
                    formed |-> TRUE]
MCCalls ==
  UNION {{GoodCall(rs, w) : w \in Writings(rs)} :
           rs \in (Integers1 \X Integers2) \cup (Integers2 \X Integers1)}
  \cup UNION {{[GoodCall(rs, w) EXCEPT !.over = o, !.own = n, !.kind = k, !.formed = f] :
                 w \in Writings(rs) \cup Malformed, o \in {"raw", "utf8", "other"},
                 n \in BOOLEAN, k \in {"hex", "buffer"}, f \in BOOLEAN} :
                rs \in Integers2 \X Integers2}

-----------------------------------------------------------------------------
ReservedRests == name = <<"a">> /\ ReservedInit
Bolt11Rests   == quote = [GoodQuote EXCEPT !.words = Invoice(<<>>)] /\ Init
FormatsRest   == call = GoodCall(<<<<0, 0, 0, 0, 7>>, <<0, 0, 0, 0, 7>>>>, <<>>)
                 /\ answer = "none"

MCInit == \/ callee = "reserved" /\ Bolt11Rests /\ FormatsRest /\ ReservedInit
          \/ callee = "bolt11" /\ ReservedRests /\ FormatsRest /\ Init
          \/ callee = "formats" /\ ReservedRests /\ Bolt11Rests /\ FormatsInit

MCNext == \/ callee = "reserved" /\ ReservedNext /\ UNCHANGED <<callee, vars, formatsVars>>
          \/ callee = "bolt11" /\ Next /\ UNCHANGED <<callee, reservedVars, formatsVars>>
          \/ callee = "formats" /\ Verify /\ UNCHANGED <<callee, reservedVars, vars>>

MCSpec == MCInit /\ [][MCNext]_mcVars
=============================================================================
