----------------------------- MODULE CallbackId -----------------------------
(***************************************************************************)
(* The path segment that names a subscription in its callback URL:         *)
(* src/src/util/callback_id.rs on top of unpadded URL-safe base64.         *)
(*                                                                         *)
(* An id is its eight little-endian bytes, least significant first.  A     *)
(* text is a sequence of characters, and a character is the six bits it    *)
(* stands for, or Other: any character outside the alphabet.               *)
(*                                                                         *)
(* A behaviour makes a callback for an id and then routes a request by it, *)
(* or routes a request whose path is any text at all.                      *)
(***************************************************************************)
EXTENDS Integers, Sequences, FiniteSetsExt

CONSTANTS
    SampleBytes,  \* the byte values of the ids that are tried
    SampleTexts,  \* the texts that are tried as they are
    Other         \* a character that base64 does not know

ASSUME CallbackAssumption ==
    /\ SampleBytes \subseteq 0..255
    /\ SampleTexts \subseteq Seq(0..63 \cup {Other})
    /\ Other \notin 0..63

Ids == [1..8 -> SampleBytes]

None == <<>>    \* the None of decode; an id has eight bytes

-----------------------------------------------------------------------------
(* Base64                                                                  *)

\* Item k of the sequence s of digits, and 0 beyond its end.
Digit(s, k) == IF k \in DOMAIN s THEN s[k] ELSE 0

\* The powers of two that base64 needs.
TwoTo == [k \in 0..10 |-> <<1, 2, 4, 8, 16, 32, 64, 128, 256, 512, 1024>>[k + 1]]

\* The k-th group of `to` bits in the stream of the digits of s, which have
\* `from` bits each, both most significant bit first.  A group lies within
\* two digits or, for to = 8, within two of six bits.
Regroup(s, from, to, k) ==
    LET first == (k - 1) * to
        i     == first \div from + 1
        pair  == Digit(s, i) * TwoTo[from] + Digit(s, i + 1)
    IN  (pair \div TwoTo[(2 * from - (first % from)) - to]) % TwoTo[to]

Base64Encode(bytes) ==
    [k \in 1..((8 * Len(bytes) + 5) \div 6) |-> Regroup(bytes, 8, 6, k)]

\* Characters of the alphabet only, no length that leaves six bits over,
\* and no bits set beyond the last whole byte.
Base64Valid(t) ==
    /\ Other \notin {t[k] : k \in DOMAIN t}
    /\ Len(t) % 4 # 1
    /\ t # <<>> => t[Len(t)] % TwoTo[(6 * Len(t)) % 8] = 0

Base64Decode(t) ==
    [k \in 1..((6 * Len(t)) \div 8) |-> Regroup(t, 6, 8, k)]

-----------------------------------------------------------------------------
(* callback_id                                                             *)

\* Faulty variant: a zero in the least significant byte is taken for the
\* end of the id.
encode_FirstZero(id8) ==
    LET zeroes == {k \in 1..8 : id8[k] = 0}
        end    == IF zeroes = {} THEN 8 ELSE Min(zeroes) - 1
    IN  Base64Encode(SubSeq(id8, 1, end))

\* memrchr finds the last zero byte; the id is cut before it.
encode(id8) ==
    LET zeroes == {k \in 1..8 : id8[k] = 0}
        end    == IF zeroes = {} THEN 8 ELSE Max(zeroes) - 1
    IN  Base64Encode(SubSeq(id8, 1, end))

\* Faulty variant: texts of eleven characters are refused.
decode_Short(t) ==
    IF Len(t) > 10 \/ ~Base64Valid(t) THEN None
    ELSE LET bytes == Base64Decode(t)
         IN  [k \in 1..8 |-> Digit(bytes, k)]

\* Faulty variant: no check of the length, as if the buffer were longer.
decode_AnyLength(t) ==
    IF ~Base64Valid(t) THEN None
    ELSE LET bytes == Base64Decode(t)
         IN  [k \in 1..8 |-> Digit(bytes, k)]

\* The buffer starts as zeroes; the bytes not decoded stay so.
decode(t) ==
    IF Len(t) > 11 \/ ~Base64Valid(t) THEN None
    ELSE LET bytes == Base64Decode(t)
         IN  IF Len(bytes) > 8 THEN None ELSE [k \in 1..8 |-> Digit(bytes, k)]

-----------------------------------------------------------------------------
VARIABLES
    id,     \* the id that the callback was made for, or None
    text,   \* the path segment
    routed, \* what decode makes of it
    stage   \* "make", "route" or "done"

vars == <<id, text, routed, stage>>

\* Either an id that the store has drawn, or a path that someone requests.
Init ==
    /\ routed = None
    /\ \/ id \in Ids /\ text = <<>> /\ stage = "make"
       \/ id = None /\ text \in SampleTexts /\ stage = "route"

\* hub::make_callback
MakeCallback ==
    /\ stage = "make"
    /\ text' = encode(id)
    /\ stage' = "route"
    /\ UNCHANGED <<id, routed>>

\* The head of Service::call.
Route ==
    /\ stage = "route"
    /\ routed' = decode(text)
    /\ stage' = "done"
    /\ UNCHANGED <<id, text>>

Next == MakeCallback \/ Route

Spec == Init /\ [][Next]_vars

-----------------------------------------------------------------------------
(* Properties                                                              *)

Routed == stage = "done" /\ routed # None
MadeHere == stage = "done" /\ id # None

\* The id that a callback routes to is the id that it was made for, cleared
\* from the last zero byte on: what the code really strips.
ClearedFromLastZero ==
    MadeHere =>
        \A k \in 1..8 :
            routed[k] = IF \E z \in 1..k : id[z] = 0 /\ \A y \in (z + 1)..8 : id[y] # 0
                        THEN 0 ELSE id[k]

\* Two texts for one id differ only in trailing zero bytes: an accepted
\* text is the encoding of the first bytes of the id that it routes to.
AcceptedTextIsCanonical ==
    Routed => \E n \in 0..8 : /\ text = Base64Encode(SubSeq(routed, 1, n))
                              /\ \A k \in (n + 1)..8 : routed[k] = 0

\* What the comment in `encode` says: only the most significant zeroes are
\* left out, so that the callback of an id leads back to it.
RoundTrip == MadeHere => routed = id

=============================================================================
