------------------------------ MODULE Utf8Proofs -------------------------------
(***************************************************************************)
(* The automaton of hk_ws_frame_unmask_utf8_stream accepts UTF-8 and       *)
(* nothing else, for every sequence of octets and every way to cut it into *)
(* frames: Utf8Safety's properties, proved.  The invariant says of each    *)
(* state which beginnings of a character lead to it.                       *)
(***************************************************************************)
EXTENDS Utf8Safety, TLAPS

Octet255 == 0 .. 255

\* k octets more and p is a character, whichever tails they are.
Ready(p, k) ==
    LET n == Announced(p[1])
    IN  /\ p \in Seq(Octet255) /\ Len(p) >= 1 /\ n = Len(p) + k
        /\ \A j \in 2 .. Len(p) : 128 <= p[j] /\ p[j] <= 191
        /\ Least(n) <= CodePoint(p, 0) /\ CodePoint(p, 63) <= Greatest(n)
        /\ CodePoint(p, 63) < FirstSurrogate \/ LastSurrogate < CodePoint(p, 0)

\* What has come since the last character when the automaton is in state e.
Fits(e, p) ==
    /\ e \in {"NONE", "CHAR"} => p = <<>>
    /\ e = "3_OCTETS_1" => p = <<224>>
    /\ e = "3_OCTETS_2" => p = <<237>>
    /\ e = "4_OCTETS_1" => p = <<240>>
    /\ e = "4_OCTETS_2" => p = <<244>>
    /\ e = "TAIL" => Ready(p, 1)
    /\ e = "TAIL_X2" => Ready(p, 2)
    /\ e = "TAIL_X3" => Ready(p, 3)

\* The state that counts for what comes next.
Current == IF out = "between" THEN utf8_state ELSE expect

Inv ==
    /\ TypeOK
    /\ out \in {"frame", "between", "done"} => Fits(Current, pending)
    /\ (opcode = "BIN") <=> (Current = "NONE")
    /\ char # <<>> => IsCharacter(char)
    /\ out = "done" => pending = <<>>
    /\ out = "critical" => ~Begins(pending)
    /\ out = "unfinished" => IsHead(pending)
    /\ out \in {"critical", "unfinished"} => opcode = "TEXT"
-----------------------------------------------------------------------------
\* A first octet that is a character by itself.
LEMMA LeadAlone ==
    ASSUME NEW ch \in Octet255, AfterLead(ch) = "CHAR"
    PROVE  IsCharacter(<<ch>>)
BY DEF Octet255, AfterLead, IsCharacter, Begins, Announced, CodePoint, Least, Greatest,
       FirstSurrogate, LastSurrogate

\* A first octet of more leads to a state that fits it.
LEMMA LeadFits ==
    ASSUME NEW ch \in Octet255, AfterLead(ch) \notin {"CHAR", "ERROR"}
    PROVE  Fits(AfterLead(ch), <<ch>>)
BY DEF Octet255, AfterLead, Fits, Ready, Announced, CodePoint, Bits, Least, Greatest,
       FirstSurrogate, LastSurrogate

\* An octet that is refused as a first one begins no character.
LEMMA LeadRefused ==
    ASSUME NEW ch \in Octet255, AfterLead(ch) = "ERROR"
    PROVE  ~Begins(<<ch>>)
BY DEF Octet255, AfterLead, Begins, Announced, CodePoint, Bits, Least, Greatest

LEMMA AppendOne ==
    ASSUME NEW p \in Seq(Octet255), NEW ch \in Octet255, Len(p) >= 1
    PROVE  /\ Append(p, ch) \in Seq(Octet255) /\ Append(p, ch) # <<>>
           /\ Len(Append(p, ch)) = Len(p) + 1
           /\ \A k \in 1 .. Len(p) : Append(p, ch)[k] = p[k]
           /\ Append(p, ch)[Len(p) + 1] = ch
           /\ Append(p, ch)[1] = p[1]
OBVIOUS

\* A code point grows with the bits of each octet.
LEMMA Monotone ==
    ASSUME NEW s, NEW t, NEW f, NEW g,
           s[1] \in Octet255, t[1] = s[1], Announced(s[1]) \in 1 .. 4,
           \A j \in 2 .. Announced(s[1]) :
              Bits(s, j, f) \in Int /\ Bits(t, j, g) \in Int /\ Bits(s, j, f) <= Bits(t, j, g)
    PROVE  /\ CodePoint(s, f) \in Int /\ CodePoint(t, g) \in Int
           /\ CodePoint(s, f) <= CodePoint(t, g)
<1> DEFINE n == Announced(s[1])
<1>1. Announced(t[1]) = n OBVIOUS
<1>2. s[1] \in Int BY DEF Octet255
<1>3. CASE n = 1
  <2>1. CodePoint(s, f) = s[1] /\ CodePoint(t, g) = s[1]
    BY <1>1, <1>3 DEF CodePoint
  <2> QED BY <2>1, <1>2
<1>4. CASE n = 2
  <2>1. /\ CodePoint(s, f) = (s[1] - 192) * 64 + Bits(s, 2, f)
        /\ CodePoint(t, g) = (s[1] - 192) * 64 + Bits(t, 2, g)
    BY <1>1, <1>4 DEF CodePoint
  <2>2. Bits(s, 2, f) \in Int /\ Bits(t, 2, g) \in Int /\ Bits(s, 2, f) <= Bits(t, 2, g)
    BY <1>4
  <2> QED BY <2>1, <2>2, <1>2
<1>5. CASE n = 3
  <2>1. /\ CodePoint(s, f) = (s[1] - 224) * 4096 + Bits(s, 2, f) * 64 + Bits(s, 3, f)
        /\ CodePoint(t, g) = (s[1] - 224) * 4096 + Bits(t, 2, g) * 64 + Bits(t, 3, g)
    BY <1>1, <1>5 DEF CodePoint
  <2>2. /\ Bits(s, 2, f) \in Int /\ Bits(t, 2, g) \in Int /\ Bits(s, 2, f) <= Bits(t, 2, g)
        /\ Bits(s, 3, f) \in Int /\ Bits(t, 3, g) \in Int /\ Bits(s, 3, f) <= Bits(t, 3, g)
    BY <1>5
  <2> QED BY <2>1, <2>2, <1>2
<1>6. CASE n = 4
  <2>1. /\ CodePoint(s, f) = (s[1] - 240) * 262144 + Bits(s, 2, f) * 4096 + Bits(s, 3, f) * 64
                             + Bits(s, 4, f)
        /\ CodePoint(t, g) = (s[1] - 240) * 262144 + Bits(t, 2, g) * 4096 + Bits(t, 3, g) * 64
                             + Bits(t, 4, g)
    BY <1>1, <1>6 DEF CodePoint
  <2>2. /\ Bits(s, 2, f) \in Int /\ Bits(t, 2, g) \in Int /\ Bits(s, 2, f) <= Bits(t, 2, g)
        /\ Bits(s, 3, f) \in Int /\ Bits(t, 3, g) \in Int /\ Bits(s, 3, f) <= Bits(t, 3, g)
        /\ Bits(s, 4, f) \in Int /\ Bits(t, 4, g) \in Int /\ Bits(s, 4, f) <= Bits(t, 4, g)
    BY <1>6
  <2> QED BY <2>1, <2>2, <1>2
<1> QED BY <1>3, <1>4, <1>5, <1>6

\* A tail brings a character one octet nearer to its end.
LEMMA TailTaken ==
    ASSUME NEW p, NEW k \in {1, 2, 3}, Ready(p, k), NEW ch \in Octet255, IsTail(ch)
    PROVE  /\ k = 1 => IsCharacter(Append(p, ch))
           /\ k > 1 => Ready(Append(p, ch), k - 1)
<1> DEFINE q == Append(p, ch)
           n == Announced(p[1])
<1>1. /\ q \in Seq(Octet255) /\ q # <<>> /\ Len(q) = Len(p) + 1 /\ q[1] = p[1]
      /\ \A j \in 1 .. Len(p) : q[j] = p[j]
      /\ q[Len(p) + 1] = ch
  BY AppendOne DEF Ready
<1>2. p \in Seq(Octet255) /\ Len(p) \in Nat /\ Len(p) >= 1 /\ n = Len(p) + k
  BY DEF Ready
<1>3. \A j \in 2 .. Len(p) : 128 <= p[j] /\ p[j] <= 191
  BY DEF Ready
<1>4. /\ Least(n) <= CodePoint(p, 0) /\ CodePoint(p, 63) <= Greatest(n)
      /\ CodePoint(p, 63) < FirstSurrogate \/ LastSurrogate < CodePoint(p, 0)
  BY DEF Ready
<1>5. n \in {0, 1, 2, 3, 4} BY DEF Announced
<1>6. ch \in Int /\ 128 <= ch /\ ch <= 191 BY DEF IsTail, Octet255
<1>7. Announced(q[1]) = n BY <1>1
<1> HIDE DEF q, n
<1>8. n \in 1 .. 4 /\ n \in Int /\ k \in Int
  <2>1. k = 1 \/ k = 2 \/ k = 3 OBVIOUS
  <2> QED BY <1>2, <1>5, <2>1
<1>9. \A j \in 1 .. Len(p) : p[j] \in Octet255
  BY <1>2
<1>10. p[1] \in Octet255 /\ q[1] \in Octet255
  BY <1>1, <1>2, <1>9
<1>11. \A j \in 2 .. Len(q) : 128 <= q[j] /\ q[j] <= 191
  BY <1>1, <1>2, <1>3, <1>6
<1>12. \A j \in 2 .. n :
         /\ Bits(q, j, 0) \in Int /\ Bits(q, j, 63) \in Int
         /\ Bits(p, j, 0) \in Int /\ Bits(p, j, 63) \in Int
         /\ Bits(p, j, 0) <= Bits(q, j, 0) /\ Bits(q, j, 63) <= Bits(p, j, 63)
         /\ k = 1 => Bits(q, j, 0) = Bits(q, j, 63)
  <2> SUFFICES ASSUME NEW j \in 2 .. n
               PROVE  /\ Bits(q, j, 0) \in Int /\ Bits(q, j, 63) \in Int
                      /\ Bits(p, j, 0) \in Int /\ Bits(p, j, 63) \in Int
                      /\ Bits(p, j, 0) <= Bits(q, j, 0) /\ Bits(q, j, 63) <= Bits(p, j, 63)
                      /\ k = 1 => Bits(q, j, 0) = Bits(q, j, 63)
    OBVIOUS
  <2>1. j \in Int /\ j >= 2 /\ j <= n BY <1>8
  <2>2. CASE j <= Len(p)
    <3>1. j \in 1 .. Len(p) BY <1>2, <2>1, <2>2
    <3>2. q[j] = p[j] /\ p[j] \in Octet255 BY <1>1, <1>9, <3>1
    <3>3. p[j] \in Int BY <3>2 DEF Octet255
    <3>4. j <= Len(q) BY <1>1, <1>2, <2>1, <2>2
    <3>5. /\ Bits(q, j, 0) = p[j] - 128 /\ Bits(q, j, 63) = p[j] - 128
          /\ Bits(p, j, 0) = p[j] - 128 /\ Bits(p, j, 63) = p[j] - 128
      BY <2>2, <3>2, <3>4 DEF Bits
    <3> QED BY <3>3, <3>5
  <2>3. CASE j = Len(p) + 1
    <3>1. ~(j <= Len(p)) /\ j <= Len(q) BY <1>1, <1>2, <2>3
    <3>2. /\ Bits(q, j, 0) = ch - 128 /\ Bits(q, j, 63) = ch - 128
          /\ Bits(p, j, 0) = 0 /\ Bits(p, j, 63) = 63
      BY <1>1, <2>3, <3>1 DEF Bits
    <3> QED BY <1>6, <3>2
  <2>4. CASE j > Len(p) + 1
    <3>1. ~(j <= Len(p)) /\ ~(j <= Len(q)) /\ k # 1
      BY <1>1, <1>2, <2>1, <2>4
    <3>2. /\ Bits(q, j, 0) = 0 /\ Bits(q, j, 63) = 63
          /\ Bits(p, j, 0) = 0 /\ Bits(p, j, 63) = 63
      BY <3>1 DEF Bits
    <3> QED BY <3>1, <3>2
  <2> QED BY <1>2, <2>1, <2>2, <2>3, <2>4
<1>13. /\ CodePoint(p, 0) \in Int /\ CodePoint(q, 0) \in Int /\ CodePoint(p, 0) <= CodePoint(q, 0)
  <2>1. /\ Announced(p[1]) \in 1 .. 4 /\ q[1] = p[1]
        /\ \A j \in 2 .. Announced(p[1]) :
             Bits(p, j, 0) \in Int /\ Bits(q, j, 0) \in Int /\ Bits(p, j, 0) <= Bits(q, j, 0)
    BY <1>1, <1>8, <1>12 DEF n
  <2> QED BY <1>10, <2>1, Monotone
<1>14. /\ CodePoint(p, 63) \in Int /\ CodePoint(q, 63) \in Int
       /\ CodePoint(q, 63) <= CodePoint(p, 63)
  <2>1. /\ Announced(q[1]) \in 1 .. 4 /\ p[1] = q[1]
        /\ \A j \in 2 .. Announced(q[1]) :
             Bits(q, j, 63) \in Int /\ Bits(p, j, 63) \in Int /\ Bits(q, j, 63) <= Bits(p, j, 63)
    BY <1>1, <1>7, <1>8, <1>12
  <2> QED BY <1>10, <2>1, Monotone
<1>15. Least(n) \in Int /\ Greatest(n) \in Int
  BY DEF Least, Greatest
<1>16. /\ Least(n) <= CodePoint(q, 0) /\ CodePoint(q, 63) <= Greatest(n)
       /\ CodePoint(q, 63) < FirstSurrogate \/ LastSurrogate < CodePoint(q, 0)
  BY <1>4, <1>13, <1>14, <1>15 DEF FirstSurrogate, LastSurrogate
<1>17. ASSUME k > 1 PROVE Ready(q, k - 1)
  <2>1. n = Len(q) + (k - 1) /\ Len(q) >= 1
    BY <1>1, <1>2, <1>8
  <2> QED BY <1>1, <1>7, <1>11, <1>16, <2>1 DEF Ready
<1>18. ASSUME k = 1 PROVE IsCharacter(q)
  <2>1. \A j \in 2 .. n : Bits(q, j, 63) \in Int /\ Bits(q, j, 0) \in Int
                          /\ Bits(q, j, 63) <= Bits(q, j, 0) /\ Bits(q, j, 0) <= Bits(q, j, 63)
    BY <1>12, <1>18
  <2>2. CodePoint(q, 63) <= CodePoint(q, 0) /\ CodePoint(q, 0) <= CodePoint(q, 63)
    <3>1. /\ Announced(q[1]) \in 1 .. 4
          /\ \A j \in 2 .. Announced(q[1]) :
               Bits(q, j, 63) \in Int /\ Bits(q, j, 0) \in Int /\ Bits(q, j, 63) <= Bits(q, j, 0)
      BY <1>7, <1>8, <2>1
    <3>2. \A j \in 2 .. Announced(q[1]) :
             Bits(q, j, 0) \in Int /\ Bits(q, j, 63) \in Int /\ Bits(q, j, 0) <= Bits(q, j, 63)
      BY <1>7, <2>1
    <3>3. CodePoint(q, 63) <= CodePoint(q, 0) BY <1>10, <3>1, Monotone
    <3>4. CodePoint(q, 0) <= CodePoint(q, 63) BY <1>10, <3>1, <3>2, Monotone
    <3> QED BY <3>3, <3>4
  <2>3. Len(q) = n BY <1>1, <1>2, <1>18
  <2>4. /\ Least(n) <= CodePoint(q, 63) /\ CodePoint(q, 0) <= Greatest(n)
        /\ ~(FirstSurrogate <= CodePoint(q, 0) /\ CodePoint(q, 63) <= LastSurrogate)
    BY <1>13, <1>14, <1>15, <1>16, <2>2 DEF FirstSurrogate, LastSurrogate
  <2>5. Len(q) <= n BY <2>3, <1>8
  <2> QED BY <1>1, <1>7, <1>11, <2>3, <2>4, <2>5 DEF IsCharacter, Begins
<1> QED BY <1>17, <1>18 DEF q

\* No character goes on with an octet that is no tail.
LEMMA NoTail ==
    ASSUME NEW p \in Seq(Octet255), Len(p) >= 1, NEW ch \in Octet255, ~IsTail(ch)
    PROVE  ~Begins(Append(p, ch))
<1>1. /\ Len(Append(p, ch)) = Len(p) + 1 /\ Append(p, ch)[Len(p) + 1] = ch
      /\ Len(p) \in Nat
  BY AppendOne
<1> QED BY <1>1 DEF Begins, IsTail, Octet255

\* The four first octets after which not every tail may come.
Special == {224, 237, 240, 244}
SpecialState(b) ==
    CASE b = 224 -> "3_OCTETS_1" [] b = 237 -> "3_OCTETS_2"
      [] b = 240 -> "4_OCTETS_1" [] OTHER -> "4_OCTETS_2"

\* What the second octet after one of them makes of the code point.
SecondOfThree(b, ch, q) ==
    /\ Announced(b) = 3
    /\ CodePoint(q, 0) = (b - 224) * 4096 + (ch - 128) * 64
    /\ CodePoint(q, 63) = (b - 224) * 4096 + (ch - 128) * 64 + 63

SecondOfFour(b, ch, q) ==
    /\ Announced(b) = 4
    /\ CodePoint(q, 0) = (b - 240) * 262144 + (ch - 128) * 4096
    /\ CodePoint(q, 63) = (b - 240) * 262144 + (ch - 128) * 4096 + 4095

Pair(b, ch, q) ==
    /\ q \in Seq(Octet255) /\ q # <<>> /\ Len(q) = 2 /\ q[1] = b /\ q[2] = ch
    /\ b \in {224, 237} => SecondOfThree(b, ch, q)
    /\ b \in {240, 244} => SecondOfFour(b, ch, q)

LEMMA TwoOctets ==
    ASSUME NEW b \in Special, NEW ch \in Octet255, NEW q, q = Append(<<b>>, ch)
    PROVE  Pair(b, ch, q)
<1>1. b \in Octet255 /\ b \in Int /\ ch \in Int BY DEF Special, Octet255
<1>2. <<b>> \in Seq(Octet255) /\ Len(<<b>>) = 1 /\ <<b>>[1] = b BY <1>1
<1>3. q \in Seq(Octet255) /\ q # <<>> /\ Len(q) = 2 /\ q[1] = b /\ q[2] = ch
  BY <1>2, AppendOne
<1>4. /\ Bits(q, 2, 0) = ch - 128 /\ Bits(q, 2, 63) = ch - 128
      /\ Bits(q, 3, 0) = 0 /\ Bits(q, 3, 63) = 63
      /\ Bits(q, 4, 0) = 0 /\ Bits(q, 4, 63) = 63
  BY <1>3 DEF Bits
<1>5. ASSUME b \in {224, 237} PROVE SecondOfThree(b, ch, q)
  <2>1. Announced(b) = 3 BY <1>5 DEF Announced
  <2>2. /\ CodePoint(q, 0) = (b - 224) * 4096 + Bits(q, 2, 0) * 64 + Bits(q, 3, 0)
        /\ CodePoint(q, 63) = (b - 224) * 4096 + Bits(q, 2, 63) * 64 + Bits(q, 3, 63)
    BY <1>3, <2>1 DEF CodePoint
  <2> QED BY <1>1, <1>4, <2>1, <2>2 DEF SecondOfThree
<1>6. ASSUME b \in {240, 244} PROVE SecondOfFour(b, ch, q)
  <2>1. Announced(b) = 4 BY <1>6 DEF Announced
  <2>2. /\ CodePoint(q, 0) = (b - 240) * 262144 + Bits(q, 2, 0) * 4096 + Bits(q, 3, 0) * 64
                             + Bits(q, 4, 0)
        /\ CodePoint(q, 63) = (b - 240) * 262144 + Bits(q, 2, 63) * 4096 + Bits(q, 3, 63) * 64
                              + Bits(q, 4, 63)
    BY <1>3, <2>1 DEF CodePoint
  <2> QED BY <1>1, <1>4, <2>1, <2>2 DEF SecondOfFour
<1> QED BY <1>3, <1>5, <1>6 DEF Pair

LEMMA SecondTaken ==
    ASSUME NEW b \in Special, NEW ch \in Octet255, After(SpecialState(b), ch) # "ERROR",
           NEW q, q = Append(<<b>>, ch)
    PROVE  Fits(After(SpecialState(b), ch), q)
<1>1. Pair(b, ch, q) BY TwoOctets
<1>2. ch \in Int BY DEF Octet255
<1>3. ASSUME 128 <= ch, ch <= 191 PROVE \A j \in 2 .. Len(q) : 128 <= q[j] /\ q[j] <= 191
  BY <1>1, <1>3 DEF Pair, SecondOfThree, SecondOfFour
<1>4. CASE b = 224
  <2>1. After(SpecialState(b), ch) = "TAIL" /\ 160 <= ch /\ ch <= 191
    BY <1>4 DEF After, SpecialState
  <2>2. /\ Announced(b) = 3 /\ CodePoint(q, 0) = (ch - 128) * 64
        /\ CodePoint(q, 63) = (ch - 128) * 64 + 63
    BY <1>1, <1>2, <1>4 DEF Pair, SecondOfThree, SecondOfFour
  <2>3. /\ 2048 <= CodePoint(q, 0) /\ CodePoint(q, 63) <= 65535
        /\ CodePoint(q, 63) < 55296 \/ 57343 < CodePoint(q, 0)
    BY <1>2, <2>1, <2>2
  <2>4. Least(3) = 2048 /\ Greatest(3) = 65535 BY DEF Least, Greatest
  <2>5. \A j \in 2 .. Len(q) : 128 <= q[j] /\ q[j] <= 191 BY <1>2, <1>3, <2>1
  <2>6. Ready(q, 1)
    BY <1>1, <2>2, <2>3, <2>4, <2>5 DEF Ready, FirstSurrogate, LastSurrogate, Pair
  <2> QED BY <2>1, <2>6 DEF Fits
<1>5. CASE b = 237
  <2>1. After(SpecialState(b), ch) = "TAIL" /\ 128 <= ch /\ ch <= 159
    BY <1>5 DEF After, SpecialState
  <2>2. /\ Announced(b) = 3 /\ CodePoint(q, 0) = 53248 + (ch - 128) * 64
        /\ CodePoint(q, 63) = 53248 + (ch - 128) * 64 + 63
    BY <1>1, <1>2, <1>5 DEF Pair, SecondOfThree, SecondOfFour
  <2>3. /\ 2048 <= CodePoint(q, 0) /\ CodePoint(q, 63) <= 65535
        /\ CodePoint(q, 63) < 55296 \/ 57343 < CodePoint(q, 0)
    BY <1>2, <2>1, <2>2
  <2>4. Least(3) = 2048 /\ Greatest(3) = 65535 BY DEF Least, Greatest
  <2>5. \A j \in 2 .. Len(q) : 128 <= q[j] /\ q[j] <= 191 BY <1>2, <1>3, <2>1
  <2>6. Ready(q, 1)
    BY <1>1, <2>2, <2>3, <2>4, <2>5 DEF Ready, FirstSurrogate, LastSurrogate, Pair
  <2> QED BY <2>1, <2>6 DEF Fits
<1>6. CASE b = 240
  <2>1. After(SpecialState(b), ch) = "TAIL_X2" /\ 144 <= ch /\ ch <= 191
    BY <1>6 DEF After, SpecialState
  <2>2. /\ Announced(b) = 4 /\ CodePoint(q, 0) = (ch - 128) * 4096
        /\ CodePoint(q, 63) = (ch - 128) * 4096 + 4095
    BY <1>1, <1>2, <1>6 DEF Pair, SecondOfThree, SecondOfFour
  <2>3. /\ 65536 <= CodePoint(q, 0) /\ CodePoint(q, 63) <= 1114111
        /\ CodePoint(q, 63) < 55296 \/ 57343 < CodePoint(q, 0)
    BY <1>2, <2>1, <2>2
  <2>4. Least(4) = 65536 /\ Greatest(4) = 1114111 BY DEF Least, Greatest
  <2>5. \A j \in 2 .. Len(q) : 128 <= q[j] /\ q[j] <= 191 BY <1>2, <1>3, <2>1
  <2>6. Ready(q, 2)
    BY <1>1, <2>2, <2>3, <2>4, <2>5 DEF Ready, FirstSurrogate, LastSurrogate, Pair
  <2> QED BY <2>1, <2>6 DEF Fits
<1>7. CASE b = 244
  <2>1. After(SpecialState(b), ch) = "TAIL_X2" /\ 128 <= ch /\ ch <= 143
    BY <1>7 DEF After, SpecialState
  <2>2. /\ Announced(b) = 4 /\ CodePoint(q, 0) = 1048576 + (ch - 128) * 4096
        /\ CodePoint(q, 63) = 1048576 + (ch - 128) * 4096 + 4095
    BY <1>1, <1>2, <1>7 DEF Pair, SecondOfThree, SecondOfFour
  <2>3. /\ 65536 <= CodePoint(q, 0) /\ CodePoint(q, 63) <= 1114111
        /\ CodePoint(q, 63) < 55296 \/ 57343 < CodePoint(q, 0)
    BY <1>2, <2>1, <2>2
  <2>4. Least(4) = 65536 /\ Greatest(4) = 1114111 BY DEF Least, Greatest
  <2>5. \A j \in 2 .. Len(q) : 128 <= q[j] /\ q[j] <= 191 BY <1>2, <1>3, <2>1
  <2>6. Ready(q, 2)
    BY <1>1, <2>2, <2>3, <2>4, <2>5 DEF Ready, FirstSurrogate, LastSurrogate, Pair
  <2> QED BY <2>1, <2>6 DEF Fits
<1> QED BY <1>4, <1>5, <1>6, <1>7 DEF Special

LEMMA SecondRefused ==
    ASSUME NEW b \in Special, NEW ch \in Octet255, After(SpecialState(b), ch) = "ERROR",
           NEW q, q = Append(<<b>>, ch)
    PROVE  ~Begins(q)
<1>1. Pair(b, ch, q) BY TwoOctets
<1>2. ch \in Int BY DEF Octet255
<1> SUFFICES ASSUME 128 <= ch, ch <= 191 PROVE ~Begins(q)
  <2>1. ASSUME ~(128 <= ch /\ ch <= 191) PROVE ~Begins(q)
    BY <1>1, <2>1 DEF Begins, Pair
  <2> QED BY <2>1
<1>4. CASE b = 224
  <2>1. ch < 160
    BY <1>2, <1>4 DEF After, SpecialState
  <2>2. Announced(b) = 3 /\ ~(2048 <= CodePoint(q, 63))
    BY <1>1, <1>2, <1>4, <2>1 DEF Pair, SecondOfThree, SecondOfFour
  <2>3. Least(3) = 2048 /\ Greatest(3) = 65535 BY DEF Least, Greatest
  <2> QED BY <1>1, <2>2, <2>3 DEF Begins, FirstSurrogate, LastSurrogate, Pair
<1>5. CASE b = 237
  <2>1. 159 < ch
    BY <1>2, <1>5 DEF After, SpecialState
  <2>2. Announced(b) = 3 /\ 55296 <= CodePoint(q, 0) /\ CodePoint(q, 63) <= 57343
    BY <1>1, <1>2, <1>5, <2>1 DEF Pair, SecondOfThree, SecondOfFour
  <2>3. Least(3) = 2048 /\ Greatest(3) = 65535 BY DEF Least, Greatest
  <2> QED BY <1>1, <2>2, <2>3 DEF Begins, FirstSurrogate, LastSurrogate, Pair
<1>6. CASE b = 240
  <2>1. ch < 144
    BY <1>2, <1>6 DEF After, SpecialState
  <2>2. Announced(b) = 4 /\ ~(65536 <= CodePoint(q, 63))
    BY <1>1, <1>2, <1>6, <2>1 DEF Pair, SecondOfThree, SecondOfFour
  <2>3. Least(4) = 65536 /\ Greatest(4) = 1114111 BY DEF Least, Greatest
  <2> QED BY <1>1, <2>2, <2>3 DEF Begins, FirstSurrogate, LastSurrogate, Pair
<1>7. CASE b = 244
  <2>1. 143 < ch
    BY <1>2, <1>7 DEF After, SpecialState
  <2>2. Announced(b) = 4 /\ ~(CodePoint(q, 0) <= 1114111)
    BY <1>1, <1>2, <1>7, <2>1 DEF Pair, SecondOfThree, SecondOfFour
  <2>3. Least(4) = 65536 /\ Greatest(4) = 1114111 BY DEF Least, Greatest
  <2> QED BY <1>1, <2>2, <2>3 DEF Begins, FirstSurrogate, LastSurrogate, Pair
<1> QED BY <1>4, <1>5, <1>6, <1>7 DEF Special
-----------------------------------------------------------------------------
\* Between characters the state is CHAR; inside one, what has come is its head.
LEMMA HeadOf ==
    ASSUME NEW p, NEW k \in {1, 2, 3}, Ready(p, k)
    PROVE  IsHead(p)
<1> DEFINE n == Announced(p[1])
<1>1. p \in Seq(Octet255) /\ Len(p) \in Nat /\ Len(p) >= 1 /\ n = Len(p) + k
  BY DEF Ready
<1>2. \A j \in 2 .. Len(p) : 128 <= p[j] /\ p[j] <= 191
  BY DEF Ready
<1>3. /\ Least(n) <= CodePoint(p, 0) /\ CodePoint(p, 63) <= Greatest(n)
      /\ CodePoint(p, 63) < FirstSurrogate \/ LastSurrogate < CodePoint(p, 0)
  BY DEF Ready
<1>4. n \in {0, 1, 2, 3, 4} BY DEF Announced
<1> HIDE DEF n
<1>5. n \in 1 .. 4 /\ Len(p) < n /\ Len(p) <= n
  <2>1. k = 1 \/ k = 2 \/ k = 3 OBVIOUS
  <2> QED BY <1>1, <1>4, <2>1
<1>6. \A j \in 2 .. n : Bits(p, j, 0) \in Int /\ Bits(p, j, 63) \in Int
                        /\ Bits(p, j, 0) <= Bits(p, j, 63)
  <2> SUFFICES ASSUME NEW j \in 2 .. n
               PROVE  Bits(p, j, 0) \in Int /\ Bits(p, j, 63) \in Int
                      /\ Bits(p, j, 0) <= Bits(p, j, 63)
    OBVIOUS
  <2>1. CASE j <= Len(p)
    <3>1. j \in 1 .. Len(p) BY <1>1, <1>5, <2>1
    <3>2. p[j] \in Octet255 BY <1>1, <3>1
    <3>3. p[j] \in Int BY <3>2 DEF Octet255
    <3>4. Bits(p, j, 0) = p[j] - 128 /\ Bits(p, j, 63) = p[j] - 128 BY <2>1 DEF Bits
    <3> QED BY <3>3, <3>4
  <2>2. CASE ~(j <= Len(p))
    BY <2>2 DEF Bits
  <2> QED BY <2>1, <2>2
<1>7. p[1] \in Octet255 BY <1>1
<1>8. /\ CodePoint(p, 0) \in Int /\ CodePoint(p, 63) \in Int
      /\ CodePoint(p, 0) <= CodePoint(p, 63)
  <2>1. /\ Announced(p[1]) \in 1 .. 4 /\ p[1] = p[1]
        /\ \A j \in 2 .. Announced(p[1]) : Bits(p, j, 0) \in Int /\ Bits(p, j, 63) \in Int
                                           /\ Bits(p, j, 0) <= Bits(p, j, 63)
    BY <1>5, <1>6 DEF n
  <2> QED BY <1>7, <2>1, Monotone
<1>9. Least(n) \in Int /\ Greatest(n) \in Int
  BY DEF Least, Greatest
<1>10. /\ Least(n) <= CodePoint(p, 63) /\ CodePoint(p, 0) <= Greatest(n)
       /\ ~(FirstSurrogate <= CodePoint(p, 0) /\ CodePoint(p, 63) <= LastSurrogate)
  BY <1>3, <1>8, <1>9 DEF FirstSurrogate, LastSurrogate
<1>11. p # <<>> BY <1>1
<1> QED BY <1>2, <1>5, <1>10, <1>11 DEF IsHead, Begins, n

LEMMA SpecialHead ==
    ASSUME NEW b \in Special
    PROVE  IsHead(<<b>>)
BY DEF Special, IsHead, Begins, Announced, CodePoint, Bits, Least, Greatest, FirstSurrogate,
       LastSurrogate

LEMMA FitsHead ==
    ASSUME NEW e \in Expectations, NEW p, Fits(e, p)
    PROVE  /\ e \in {"NONE", "CHAR"} => p = <<>>
           /\ e \notin {"NONE", "CHAR"} => IsHead(p) /\ p # <<>>
<1>1. CASE e \in {"NONE", "CHAR"} BY <1>1 DEF Fits
<1>2. CASE e \in {"3_OCTETS_1", "3_OCTETS_2", "4_OCTETS_1", "4_OCTETS_2"}
  <2>1. \E b \in Special : p = <<b>> BY <1>2 DEF Fits, Special
  <2> QED BY <1>2, <2>1, SpecialHead DEF IsHead, Begins
<1>3. CASE e \in {"TAIL", "TAIL_X2", "TAIL_X3"}
  <2>1. \E k \in {1, 2, 3} : Ready(p, k) BY <1>3 DEF Fits
  <2> QED BY <1>3, <2>1, HeadOf DEF IsHead, Begins
<1> QED BY <1>1, <1>2, <1>3 DEF Expectations

\* One octet: the automaton's next state fits what has come with it.
LEMMA OctetFits ==
    ASSUME NEW e \in Expectations, NEW p \in Seq(Octet255), Fits(e, p), e # "NONE",
           NEW ch \in Octet255
    PROVE  /\ After(e, ch) # "NONE"
           /\ After(e, ch) \in Expectations \cup {"ERROR"}
           /\ After(e, ch) = "CHAR" => IsCharacter(Append(p, ch))
           /\ After(e, ch) \notin {"CHAR", "ERROR"} => Fits(After(e, ch), Append(p, ch))
           /\ After(e, ch) = "ERROR" => ~Begins(Append(p, ch))
<1>1. CASE e = "CHAR"
  <2>1. p = <<>> /\ Append(p, ch) = <<ch>> BY <1>1 DEF Fits
  <2>2. After(e, ch) = AfterLead(ch) BY <1>1 DEF After
  <2>3. AfterLead(ch) \in (Expectations \ {"NONE"}) \cup {"ERROR"}
    BY DEF AfterLead, Expectations
  <2> QED BY <2>1, <2>2, <2>3, LeadAlone, LeadFits, LeadRefused
<1>2. CASE e \in {"3_OCTETS_1", "3_OCTETS_2", "4_OCTETS_1", "4_OCTETS_2"}
  <2>1. PICK b \in Special : p = <<b>> /\ e = SpecialState(b)
    BY <1>2 DEF Fits, Special, SpecialState
  <2>2. After(e, ch) \in {"TAIL", "TAIL_X2", "ERROR"} BY <1>2 DEF After
  <2>3. After(e, ch) # "ERROR" => Fits(After(e, ch), Append(p, ch))
    BY <2>1, SecondTaken
  <2>4. After(e, ch) = "ERROR" => ~Begins(Append(p, ch))
    BY <2>1, SecondRefused
  <2> QED BY <2>2, <2>3, <2>4 DEF Expectations
<1>3. CASE e \in {"TAIL", "TAIL_X2", "TAIL_X3"}
  <2>1. PICK k \in {1, 2, 3} : /\ Ready(p, k)
                               /\ (k = 1 /\ e = "TAIL") \/ (k = 2 /\ e = "TAIL_X2")
                                  \/ (k = 3 /\ e = "TAIL_X3")
    BY <1>3 DEF Fits
  <2>2. CASE ~IsTail(ch)
    <3>1. After(e, ch) = "ERROR" BY <1>3, <2>2 DEF After
    <3>2. Len(p) >= 1 BY <2>1 DEF Ready
    <3> QED BY <3>1, <3>2, <2>2, NoTail
  <2>3. CASE IsTail(ch)
    <3>1. /\ k = 1 => IsCharacter(Append(p, ch))
          /\ k > 1 => Ready(Append(p, ch), k - 1)
      BY <2>1, <2>3, TailTaken
    <3>2. CASE k = 1
      <4>1. After(e, ch) = "CHAR" BY <2>1, <2>3, <3>2 DEF After
      <4> QED BY <3>1, <3>2, <4>1 DEF Expectations
    <3>3. CASE k = 2
      <4>1. After(e, ch) = "TAIL" BY <2>1, <2>3, <3>3 DEF After
      <4>2. Ready(Append(p, ch), 1) BY <3>1, <3>3
      <4> QED BY <4>1, <4>2 DEF Expectations, Fits
    <3>4. CASE k = 3
      <4>1. After(e, ch) = "TAIL_X2" BY <2>1, <2>3, <3>4 DEF After
      <4>2. Ready(Append(p, ch), 2) BY <3>1, <3>4
      <4> QED BY <4>1, <4>2 DEF Expectations, Fits
    <3> QED BY <2>1, <3>2, <3>3, <3>4
  <2> QED BY <2>2, <2>3
<1> QED BY <1>1, <1>2, <1>3 DEF Expectations
-----------------------------------------------------------------------------
LEMMA OctetType ==
    ASSUME NEW ch \in Octets
    PROVE  ch \in Octet255
BY OctetsAssumption DEF Octet255

LEMMA PendingType ==
    ASSUME pending \in Seq(Octets)
    PROVE  pending \in Seq(Octet255)
<1>1. \A i \in 1 .. Len(pending) : pending[i] \in Octet255
  <2> TAKE i \in 1 .. Len(pending)
  <2>1. pending[i] \in Octets
    OBVIOUS
  <2> QED BY <2>1, OctetsAssumption DEF Octet255
<1>2. Len(pending) \in Nat /\ pending = [i \in 1 .. Len(pending) |-> pending[i]]
  OBVIOUS
<1>3. pending \in [1 .. Len(pending) -> Octet255]
  BY <1>1, <1>2
<1>4. \A n \in Nat : [1 .. n -> Octet255] \subseteq Seq(Octet255)
  <2> HIDE DEF Octet255
  <2> QED OBVIOUS
<1> QED BY <1>2, <1>3, <1>4

LEMMA InvInit == Init => Inv
<1> SUFFICES ASSUME Init PROVE Inv
  OBVIOUS
<1>1. TypeOK BY DEF Init, TypeOK, StartState, Expectations
<1>2. Current = StartState(opcode) BY DEF Init, Current
<1>3. Fits(Current, pending) BY <1>2 DEF Init, Fits, StartState
<1>4. (opcode = "BIN") <=> (Current = "NONE") BY <1>2 DEF Init, StartState
<1> QED BY <1>1, <1>3, <1>4 DEF Init, Inv

LEMMA InvOctet ==
    ASSUME Inv, NEW ch \in Octets, Octet(ch)
    PROVE  Inv'
<1> DEFINE e == After(expect, ch)
<1>1. /\ out = "frame" /\ out' = "frame" /\ e # "ERROR" /\ expect' = e
      /\ opcode' = opcode /\ utf8_state' = utf8_state
      /\ pending' = IF e \in {"NONE", "CHAR"} THEN <<>> ELSE Append(pending, ch)
      /\ char' = IF e = "CHAR" THEN Append(pending, ch) ELSE <<>>
  BY DEF Octet, Record
<1>2. Current = expect /\ Current' = e BY <1>1 DEF Current
<1>3. /\ TypeOK /\ Fits(expect, pending) /\ ((opcode = "BIN") <=> (expect = "NONE"))
  BY <1>1, <1>2 DEF Inv
<1>4. ch \in Octet255 /\ pending \in Seq(Octet255) /\ expect \in Expectations
  BY <1>3, OctetType, PendingType DEF TypeOK
<1>5. Append(pending, ch) \in Seq(Octets) /\ <<>> \in Seq(Octets)
  BY <1>3 DEF TypeOK
<1>6. CASE expect = "NONE"
  <2>1. e = "NONE" BY <1>6 DEF After
  <2>2. pending' = <<>> /\ char' = <<>> BY <1>1, <2>1
  <2>3. TypeOK' BY <1>1, <1>3, <1>5, <2>1, <2>2 DEF TypeOK, Expectations
  <2>4. Fits("NONE", <<>>) BY DEF Fits
  <2> QED BY <1>1, <1>2, <1>3, <1>6, <2>1, <2>2, <2>3, <2>4 DEF Inv
<1>7. CASE expect # "NONE"
  <2>1. /\ e # "NONE" /\ e \in Expectations \cup {"ERROR"}
        /\ e = "CHAR" => IsCharacter(Append(pending, ch))
        /\ e \notin {"CHAR", "ERROR"} => Fits(e, Append(pending, ch))
    BY <1>3, <1>4, <1>7, OctetFits
  <2> HIDE DEF e
  <2>2. TypeOK' BY <1>1, <1>3, <1>5, <2>1 DEF TypeOK
  <2>3. Fits(e, pending')
    <3>1. CASE e = "CHAR" BY <1>1, <3>1 DEF Fits
    <3>2. CASE e # "CHAR" BY <1>1, <2>1, <3>2
    <3> QED BY <3>1, <3>2
  <2>4. char' # <<>> => IsCharacter(char') BY <1>1, <2>1
  <2>5. opcode' # "BIN" BY <1>1, <1>3, <1>7
  <2>6. Current' # "NONE" BY <1>2, <2>1
  <2>7. IsCharacter(char)' = IsCharacter(char') BY DEF IsCharacter
  <2>8. Fits(Current, pending)' BY <1>2, <2>3
  <2> QED BY <1>1, <2>2, <2>4, <2>5, <2>6, <2>8 DEF Inv
<1> QED BY <1>6, <1>7

LEMMA InvRejected ==
    ASSUME Inv, NEW ch \in Octets, Rejected(ch)
    PROVE  Inv'
<1>1. /\ out = "frame" /\ out' = "critical" /\ After(expect, ch) = "ERROR"
      /\ opcode' = opcode /\ utf8_state' = utf8_state /\ expect' = expect
      /\ pending' = Append(pending, ch) /\ char' = <<>>
  BY DEF Rejected, Record
<1>2. Current = expect /\ Current' = expect BY <1>1 DEF Current
<1>3. /\ TypeOK /\ Fits(expect, pending) /\ ((opcode = "BIN") <=> (expect = "NONE"))
  BY <1>1, <1>2 DEF Inv
<1>4. ch \in Octet255 /\ pending \in Seq(Octet255) /\ expect \in Expectations
  BY <1>3, OctetType, PendingType DEF TypeOK
<1>5. expect # "NONE" BY <1>1 DEF After
<1>6. ~Begins(Append(pending, ch)) BY <1>1, <1>3, <1>4, <1>5, OctetFits
<1>7. Append(pending, ch) \in Seq(Octets) /\ <<>> \in Seq(Octets)
  BY <1>3 DEF TypeOK
<1>8. TypeOK' BY <1>1, <1>3, <1>7 DEF TypeOK
<1>9. opcode' = "TEXT" BY <1>1, <1>3, <1>5 DEF TypeOK
<1> QED BY <1>1, <1>2, <1>5, <1>6, <1>8, <1>9 DEF Inv

LEMMA InvContinue ==
    ASSUME Inv, Continue
    PROVE  Inv'
<1>1. /\ out = "between" /\ out' = "frame" /\ expect' = utf8_state
      /\ UNCHANGED <<opcode, utf8_state, pending, char>>
  BY DEF Continue
<1>2. Current = utf8_state /\ Current' = utf8_state BY <1>1 DEF Current
<1>3. TypeOK' BY <1>1 DEF Inv, TypeOK
<1>4. Fits(Current, pending)' BY <1>1, <1>2 DEF Inv
<1> QED BY <1>1, <1>2, <1>3, <1>4 DEF Inv

LEMMA InvFragment ==
    ASSUME Inv, Fragment
    PROVE  Inv'
<1>1. /\ out = "frame" /\ out' = "between" /\ utf8_state' = expect
      /\ UNCHANGED <<opcode, expect, pending, char>>
  BY DEF Fragment
<1>2. Current = expect /\ Current' = expect BY <1>1 DEF Current
<1>3. TypeOK' BY <1>1 DEF Inv, TypeOK
<1>4. Fits(Current, pending)' BY <1>1, <1>2 DEF Inv
<1> QED BY <1>1, <1>2, <1>3, <1>4 DEF Inv

LEMMA InvLast ==
    ASSUME Inv, Last
    PROVE  Inv'
<1>1. /\ out = "frame" /\ UNCHANGED <<opcode, expect, utf8_state, pending, char>>
      /\ out' = IF expect \in {"CHAR", "NONE"} THEN "done" ELSE "unfinished"
  BY DEF Last
<1>2. Current = expect /\ Current' = expect BY <1>1 DEF Current
<1>3. /\ TypeOK /\ Fits(expect, pending) /\ ((opcode = "BIN") <=> (expect = "NONE"))
      /\ char # <<>> => IsCharacter(char)
  BY <1>1, <1>2 DEF Inv
<1>4. /\ expect \in {"NONE", "CHAR"} => pending = <<>>
      /\ expect \notin {"NONE", "CHAR"} => IsHead(pending)
  BY <1>3, FitsHead DEF TypeOK
<1>5. TypeOK' BY <1>1, <1>3 DEF TypeOK
<1>6. Fits(Current, pending)' BY <1>1, <1>2, <1>3
<1>7. out' = "unfinished" => opcode = "TEXT" BY <1>1, <1>3 DEF TypeOK
<1> QED BY <1>1, <1>2, <1>3, <1>4, <1>5, <1>6, <1>7 DEF Inv

LEMMA InvNext == Inv /\ [Next]_vars => Inv'
<1> SUFFICES ASSUME Inv, [Next]_vars PROVE Inv'
  OBVIOUS
<1>1. CASE Continue BY <1>1, InvContinue
<1>2. CASE Fragment BY <1>2, InvFragment
<1>3. CASE Last BY <1>3, InvLast
<1>4. ASSUME NEW ch \in Octets, Octet(ch) PROVE Inv'
  BY <1>4, InvOctet
<1>5. ASSUME NEW ch \in Octets, Rejected(ch) PROVE Inv'
  BY <1>5, InvRejected
<1>6. CASE UNCHANGED vars
  BY <1>6 DEF vars, Inv, TypeOK, Current
<1> QED BY <1>1, <1>2, <1>3, <1>4, <1>5, <1>6 DEF Next

LEMMA InvAlways == Spec => []Inv
BY InvInit, InvNext, PTL DEF Spec
-----------------------------------------------------------------------------
(***************************************************************************)
(* The local state and the one carried over between frames are ones the    *)
(* automaton has; an error is never carried on.                            *)
(***************************************************************************)
THEOREM Utf8TypeOK == Spec => []TypeOK
<1>1. Inv => TypeOK BY DEF Inv
<1> QED BY <1>1, InvAlways, PTL

(***************************************************************************)
(* Soundness: only characters are let through, and a text only as a whole. *)
(***************************************************************************)
THEOREM Utf8TakesOnlyCharacters == Spec => []TakesOnlyCharacters
<1>1. Inv => TakesOnlyCharacters BY DEF Inv, TakesOnlyCharacters
<1> QED BY <1>1, InvAlways, PTL

(***************************************************************************)
(* While reading, the state tells the beginning of a character from the    *)
(* place between two.                                                      *)
(***************************************************************************)
THEOREM Utf8WaitsForARest == Spec => []WaitsForARest
<1>1. Inv => WaitsForARest
  <2> SUFFICES ASSUME Inv, out \in {"frame", "between"}, opcode = "TEXT"
               PROVE  /\ pending # <<>> => IsHead(pending)
                      /\ out = "frame" => ((expect = "CHAR") <=> (pending = <<>>))
    BY DEF WaitsForARest
  <2>1. Current \in Expectations BY DEF Inv, TypeOK, Current
  <2>2. Fits(Current, pending) /\ Current # "NONE" BY DEF Inv
  <2>3. /\ Current = "CHAR" => pending = <<>>
        /\ Current # "CHAR" => IsHead(pending) /\ pending # <<>>
    BY <2>1, <2>2, FitsHead
  <2>4. out = "frame" => Current = expect BY DEF Current
  <2> QED BY <2>3, <2>4
<1> QED BY <1>1, InvAlways, PTL

(***************************************************************************)
(* Completeness: no UTF-8 is rejected, at an octet or at the end.          *)
(***************************************************************************)
THEOREM Utf8RejectsNoText == Spec => []RejectsNoText
<1>1. Inv => RejectsNoText BY DEF Inv, RejectsNoText
<1> QED BY <1>1, InvAlways, PTL
===============================================================================
