------------------------------ MODULE Utf8Safety -------------------------------
(***************************************************************************)
(* What UTF-8 is, by the code points its octets stand for, and what that   *)
(* says of the automaton in Utf8.                                          *)
(***************************************************************************)
EXTENDS Utf8

\* The number of octets that a first octet announces; 0 if it can be none.
Announced(b) ==
    CASE b <= 127              -> 1
      [] 192 <= b /\ b <= 223  -> 2
      [] 224 <= b /\ b <= 239  -> 3
      [] 240 <= b /\ b <= 247  -> 4
      [] OTHER                 -> 0

\* The bits of octet k of s; of one that is still to come, those given by fill.
Bits(s, k, fill) == IF k <= Len(s) THEN s[k] - 128 ELSE fill

CodePoint(s, fill) ==
    CASE Announced(s[1]) = 1 -> s[1]
      [] Announced(s[1]) = 2 -> (s[1] - 192) * 64 + Bits(s, 2, fill)
      [] Announced(s[1]) = 3 -> (s[1] - 224) * 4096 + Bits(s, 2, fill) * 64 + Bits(s, 3, fill)
      [] OTHER               -> (s[1] - 240) * 262144 + Bits(s, 2, fill) * 4096
                                + Bits(s, 3, fill) * 64 + Bits(s, 4, fill)

\* The code points for which n octets are needed, surrogates aside.
Least(n)    == CASE n = 1 -> 0   [] n = 2 -> 128  [] n = 3 -> 2048  [] OTHER -> 65536
Greatest(n) == CASE n = 1 -> 127 [] n = 2 -> 2047 [] n = 3 -> 65535 [] OTHER -> 1114111

FirstSurrogate == 55296
LastSurrogate  == 57343

\* The octets of s begin, or are, a character: some code point among those the
\* octets to come can still make of s is one that s has the right length for.
Begins(s) ==
    LET n == Announced(s[1])
    IN  /\ s # <<>> /\ Len(s) <= n
        /\ \A k \in 2 .. Len(s) : 128 <= s[k] /\ s[k] <= 191
        /\ Least(n) <= CodePoint(s, 63) /\ CodePoint(s, 0) <= Greatest(n)
        /\ ~(FirstSurrogate <= CodePoint(s, 0) /\ CodePoint(s, 63) <= LastSurrogate)

IsCharacter(s) == Begins(s) /\ Len(s) = Announced(s[1])
IsHead(s)      == Begins(s) /\ Len(s) < Announced(s[1])

(***************************************************************************)
(* What is taken for a character (expect = HK_UTF8_CHAR again) is one, in  *)
(* its shortest form, and a text is let through only where one ends, over  *)
(* however many frames it is spread.                                       *)
(***************************************************************************)
TakesOnlyCharacters ==
    /\ char # <<>> => IsCharacter(char)
    /\ out = "done" => pending = <<>>

(***************************************************************************)
(* While a text is read, what has come since the last whole character can  *)
(* still become one, and the state says CHAR exactly between characters.   *)
(***************************************************************************)
WaitsForARest ==
    out \in {"frame", "between"} /\ opcode = "TEXT" =>
        /\ pending # <<>> => IsHead(pending)
        /\ out = "frame" => ((expect = "CHAR") <=> (pending = <<>>))

(***************************************************************************)
(* Nothing is rejected that is UTF-8: an octet only if no character goes   *)
(* on with it, an end only inside a character, binary data never.          *)
(***************************************************************************)
RejectsNoText ==
    /\ out \in {"critical", "unfinished"} => opcode = "TEXT"
    /\ out = "critical" => ~Begins(pending)
    /\ out = "unfinished" => IsHead(pending)
===============================================================================
