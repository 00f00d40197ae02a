---------------------------- MODULE PacketIOProofs ----------------------------
(***************************************************************************)
(* Proofs about packets, for bytes of any width and any pipe: the headers  *)
(* are read as they were written and, where char is unsigned, the packets  *)
(* received are those that were sent.                                      *)
(***************************************************************************)
EXTENDS PacketIO, SequenceTheorems, TLAPS

(* The two bytes of a length.                                              *)
LEMMA HeaderBytes ==
  ASSUME NEW length \in 0..Base * Base - 1
  PROVE  /\ Header(length)[1] \in 0..Base - 1
         /\ Header(length)[2] \in 0..Base - 1
         /\ Base * Header(length)[1] + Header(length)[2] = length
<1> DEFINE h == length \div Base
           l == length % Base
<1>1. Base \in Nat /\ Base > 1 /\ length \in Nat
  BY PacketAssumption
<1>2. h \in Int /\ l \in 0..Base - 1 /\ length = Base * h + l
  BY <1>1
<1>3. h >= 0
  <2>1. SUFFICES ASSUME h <= -1 PROVE FALSE
    BY <1>2
  <2>2. Base * h <= Base * (-1)
    BY <1>1, <1>2, <2>1
  <2> QED
    BY <1>1, <1>2, <2>2
<1>4. h <= Base - 1
  <2>1. SUFFICES ASSUME h >= Base PROVE FALSE
    BY <1>1, <1>2
  <2>2. Base * h >= Base * Base
    BY <1>1, <1>2, <2>1
  <2>3. Base * Base \in Int /\ length <= Base * Base - 1
    BY <1>1
  <2> QED
    BY <1>1, <1>2, <2>2, <2>3
<1>5. h % Base = h
  BY <1>1, <1>2, <1>3, <1>4
<1>6. Header(length) = <<h, l>>
  BY <1>5 DEF Header
<1> HIDE DEF h, l
<1> QED
  BY <1>1, <1>2, <1>3, <1>4, <1>6

(* io_read_packet2 reads the length io_write_packet2 wrote, or, where char *)
(* is signed, a negative one: it never takes a wrong number of bytes for   *)
(* the body.                                                               *)
THEOREM HeaderReadOrRefused ==
  ASSUME NEW length \in 0..Base * Base - 1
  PROVE  \/ HeaderLength(Header(length)) = length
         \/ CharSigned /\ HeaderLength(Header(length)) < 0
<1> DEFINE h == Header(length)[1]
           l == Header(length)[2]
<1>1. Base \in Nat /\ Base > 1
  BY PacketAssumption
<1>2. h \in 0..Base - 1 /\ l \in 0..Base - 1 /\ Base * h + l = length
  BY HeaderBytes
<1> HIDE DEF h, l
<1>3. HeaderLength(Header(length)) =
        IF Char(l) < 0 THEN Char(l) ELSE Base * Char(h) + l
  BY DEF HeaderLength, h, l
<1>4. CASE Char(l) < 0
  BY <1>1, <1>2, <1>3, <1>4 DEF Char
<1>5. CASE ~(Char(l) < 0) /\ Char(h) = h
  BY <1>2, <1>3, <1>5
<1>6. CASE ~(Char(l) < 0) /\ Char(h) # h
  <2>1. CharSigned /\ Char(h) = h - Base /\ h - Base <= -1 /\ h - Base \in Int
    BY <1>1, <1>2, <1>6 DEF Char
  <2>2. Base * (h - Base) <= Base * (-1)
    BY <1>1, <2>1
  <2>3. Base * (h - Base) \in Int
    BY <1>1, <2>1
  <2> QED
    BY <1>1, <1>2, <1>3, <1>6, <2>1, <2>2, <2>3
<1> QED
  BY <1>4, <1>5, <1>6

(* Where char is unsigned every header is read back.                       *)
THEOREM HeaderRoundTrip ==
  ASSUME ~CharSigned, NEW length \in 0..Base * Base - 1
  PROVE  HeaderLength(Header(length)) = length
BY HeaderReadOrRefused

-----------------------------------------------------------------------------
(* The header of a packet of any length has its length modulo the range.   *)
LEMMA RemainderIsUnique ==
  ASSUME NEW b \in Nat \ {0}, NEW a \in Nat, NEW q \in Int, NEW x \in 0..b - 1,
         a = b * q + x
  PROVE  a % b = x
<1> DEFINE d == a \div b
           y == a % b
<1>1. d \in Int /\ y \in 0..b - 1 /\ a = b * d + y
  OBVIOUS
<1> HIDE DEF d, y
<1>2. b * (q - d) = y - x
  BY <1>1
<1>3. CASE q - d >= 1
  <2>1. b * (q - d) >= b
    BY <1>1, <1>3
  <2> QED
    BY <1>1, <1>2, <2>1
<1>4. CASE q - d <= -1
  <2>1. b * (q - d) <= -b
    BY <1>1, <1>4
  <2> QED
    BY <1>1, <1>2, <2>1
<1>5. CASE q - d = 0
  <2>1. y = x
    BY <1>1, <1>2, <1>5
  <2> QED
    BY <2>1 DEF y
<1> QED
  BY <1>1, <1>3, <1>4, <1>5

Byte == 0..Base - 1

LEMMA HeaderModulo ==
  ASSUME NEW length \in Nat
  PROVE  /\ Header(length) \in Seq(Byte) /\ Len(Header(length)) = 2
         /\ Header(length)[1] \in Byte /\ Header(length)[2] \in Byte
         /\ Base * Header(length)[1] + Header(length)[2] = length % (Base * Base)
<1> DEFINE q == length \div Base
           l == length % Base
           r == q \div Base
           h == q % Base
<1>1. Base \in Nat /\ Base > 1 /\ Base * Base \in Nat /\ Base * Base > 0
  BY PacketAssumption
<1>2. q \in Int /\ l \in Byte /\ length = Base * q + l
  BY <1>1 DEF Byte
<1>3. Header(length) = <<h, l>>
  BY DEF Header
<1> HIDE DEF q, l
<1>4. r \in Int /\ h \in Byte /\ q = Base * r + h
  BY <1>1, <1>2 DEF Byte
<1> HIDE DEF r, h
<1>5. length = (Base * Base) * r + (Base * h + l)
  <2>1. Base * q = Base * (Base * r + h)
    BY <1>4
  <2>2. Base * (Base * r + h) = (Base * Base) * r + Base * h
    BY <1>1, <1>4 DEF Byte
  <2>3. (Base * Base) * r \in Int /\ Base * h \in Int
    BY <1>1, <1>4 DEF Byte
  <2> QED
    BY <1>1, <1>2, <2>1, <2>2, <2>3 DEF Byte
<1>6. Base * h + l \in 0..Base * Base - 1
  <2>1. h >= 0 /\ h <= Base - 1 /\ h \in Int
    BY <1>1, <1>4 DEF Byte
  <2>2. Base * h >= 0 /\ Base * h <= Base * (Base - 1)
    BY <1>1, <2>1
  <2>3. Base * (Base - 1) = Base * Base - Base
    BY <1>1
  <2> QED
    BY <1>1, <1>2, <2>1, <2>2, <2>3 DEF Byte
<1>7. length % (Base * Base) = Base * h + l
  <2> DEFINE b == Base * Base
             x == Base * h + l
  <2>1. b \in Nat \ {0} /\ x \in 0..b - 1 /\ length = b * r + x
    BY <1>1, <1>5, <1>6
  <2> HIDE DEF b, x
  <2>2. length % b = x
    BY <1>4, <2>1, RemainderIsUnique
  <2> QED
    BY <2>2 DEF b, x
<1>8. /\ Header(length) \in Seq(Byte) /\ Len(Header(length)) = 2
      /\ Header(length)[1] = h /\ Header(length)[2] = l
  <2>1. h \in Byte /\ l \in Byte
    BY <1>2, <1>4
  <2> QED
    BY <1>3, <2>1
<1> QED
  BY <1>2, <1>4, <1>7, <1>8

-----------------------------------------------------------------------------
(* S is the frames of the packets s, one after the other; the i-th begins  *)
(* after start[i] bytes.                                                   *)
Frames(s, start, S) ==
  /\ start \in [1..Len(s) + 1 -> Nat] /\ start[1] = 0
  /\ S \in Seq(Byte) /\ Len(S) = start[Len(s) + 1]
  /\ \A i \in 1..Len(s) :
       /\ start[i + 1] = start[i] + 2 + Len(s[i])
       /\ S[start[i] + 1] = Header(Len(s[i]))[1]
       /\ S[start[i] + 2] = Header(Len(s[i]))[2]
       /\ \A b \in 1..Len(s[i]) : S[start[i] + 2 + b] = s[i][b]
       /\ start[i + 1] <= Len(S)

(* The bytes of part are those of S after the first n.                     *)
Segment(S, n, seq) ==
  /\ n + Len(seq) <= Len(S)
  /\ \A i \in 1..Len(seq) : seq[i] = S[n + i]

PacketTypes ==
  /\ sent \in Seq(Seq(Byte)) /\ received \in Seq(Seq(Byte))
  /\ todo \in Seq(Byte) /\ pipe \in Seq(Byte) /\ bytes \in Seq(Byte)

(* Of all bytes ever written, n are done with; the reader's buffer, the    *)
(* pipe and what is not written yet are the rest.                          *)
Flow(S, n) ==
  /\ Segment(S, n, bytes)
  /\ Segment(S, n + Len(bytes), pipe)
  /\ Segment(S, n + Len(bytes) + Len(pipe), todo)
  /\ Len(S) = n + Len(bytes) + Len(pipe) + Len(todo)

(* Nothing more will come.                                                 *)
Over == closed /\ pipe = <<>> /\ bytes = <<>> /\ part # "body" /\ (part = "header" => want = 2)

(* The reader is at the frame of the next packet.                          *)
AtFrame(start, n) ==
  /\ Len(received) <= Len(sent)
  /\ \/ part = "none" /\ bytes = <<>> /\ n = start[Len(received) + 1]
     \/ part = "header" /\ want = 2 /\ n = start[Len(received) + 1]
     \/ /\ part = "body" /\ Len(received) < Len(sent)
        /\ n = start[Len(received) + 1] + 2
        /\ want = Len(sent[Len(received) + 1]) % (Base * Base)

(* The packets that have been read fit in their headers.                   *)
AllFit == \A j \in 1..Len(sent) : j <= Len(received) => Fits(sent[j])

PacketInv ==
  /\ PacketTypes
  /\ FramesIntact
  /\ \E start, S : \E n \in Nat :
       Frames(sent, start, S) /\ Flow(S, n) /\ (AllFit => AtFrame(start, n) \/ Over)

LEMMA InitPacket == Init => PacketInv
<1> SUFFICES ASSUME Init PROVE PacketInv
  OBVIOUS
<1>1. PacketTypes /\ FramesIntact
  BY DEF Init, PacketTypes, FramesIntact
<1> DEFINE start == [i \in 1..1 |-> 0]
<1>2. /\ Len(sent) = 0 /\ Len(received) = 0 /\ part = "none" /\ bytes = <<>>
      /\ Len(bytes) = 0 /\ Len(pipe) = 0 /\ Len(todo) = 0
  BY DEF Init
<1>3. Frames(sent, start, <<>>)
  <2>1. start \in [1..0 + 1 -> Nat] /\ start[1] = 0 /\ start[0 + 1] = 0
    OBVIOUS
  <2>2. <<>> \in Seq(Byte) /\ Len(<<>>) = 0
    OBVIOUS
  <2> HIDE DEF start
  <2> QED
    BY <1>2, <2>1, <2>2 DEF Frames
<1>4. Flow(<<>>, 0)
  BY <1>2 DEF Flow, Segment
<1>5. AtFrame(start, 0)
  BY <1>2 DEF AtFrame
<1> HIDE DEF start
<1> QED
  BY <1>1, <1>3, <1>4, <1>5 DEF PacketInv

(* Some bytes pass from the front of a segment to the end of the one       *)
(* before it.                                                              *)
LEMMA MoveBytes ==
  ASSUME NEW S \in Seq(Byte), NEW n \in Nat,
         NEW a \in Seq(Byte), NEW c \in Seq(Byte), NEW m \in 0..Len(c),
         Segment(S, n, a), Segment(S, n + Len(a), c)
  PROVE  LET front == a \o SubSeq(c, 1, m)
             back  == SubSeq(c, m + 1, Len(c))
         IN  /\ front \in Seq(Byte) /\ back \in Seq(Byte)
             /\ Len(front) = Len(a) + m /\ Len(back) = Len(c) - m
             /\ Segment(S, n, front) /\ Segment(S, n + Len(front), back)
<1> DEFINE first == SubSeq(c, 1, m)
           back == SubSeq(c, m + 1, Len(c))
           front == a \o first
<1>1. /\ Len(a) \in Nat /\ Len(c) \in Nat /\ Len(S) \in Nat /\ m \in Nat
      /\ \A i \in 1..Len(c) : c[i] \in Byte
      /\ n + Len(a) + Len(c) <= Len(S)
      /\ \A i \in 1..Len(a) : a[i] = S[n + i]
      /\ \A i \in 1..Len(c) : c[i] = S[n + Len(a) + i]
  BY DEF Segment
<1>2. /\ first \in Seq(Byte) /\ Len(first) = m
      /\ \A i \in 1..m : first[i] = c[i]
  <2>1. \A i \in 1..m : c[i] \in Byte
    BY <1>1
  <2>2. /\ first \in Seq(Byte)
        /\ Len(first) = IF 1 <= m THEN m - 1 + 1 ELSE 0
        /\ \A i \in 1..(m - 1 + 1) : first[i] = c[1 + i - 1]
    BY <1>1, <2>1, SubSeqProperties
  <2> HIDE DEF first
  <2> QED
    BY <1>1, <2>2
<1>3. /\ back \in Seq(Byte) /\ Len(back) = Len(c) - m
      /\ \A i \in 1..Len(c) - m : back[i] = c[m + i]
  <2>1. \A i \in m + 1..Len(c) : c[i] \in Byte
    BY <1>1
  <2>2. m + 1 \in Int /\ Len(c) \in Int
    BY <1>1
  <2>3. /\ back \in Seq(Byte)
        /\ Len(back) = IF m + 1 <= Len(c) THEN Len(c) - (m + 1) + 1 ELSE 0
        /\ \A i \in 1..(Len(c) - (m + 1) + 1) : back[i] = c[m + 1 + i - 1]
    BY <2>1, <2>2, SubSeqProperties
  <2> HIDE DEF back
  <2>4. Len(back) = Len(c) - m
    <3>1. CASE m + 1 <= Len(c)
      BY <2>2, <2>3, <3>1
    <3>2. CASE ~(m + 1 <= Len(c))
      <4>1. m = Len(c)
        BY <1>1, <3>2
      <4>2. Len(back) = 0
        BY <2>3, <3>2
      <4> QED
        BY <1>1, <4>1, <4>2
    <3> QED
      BY <3>1, <3>2
  <2>5. \A i \in 1..Len(c) - m : back[i] = c[m + i]
    BY <1>1, <2>3
  <2> QED
    BY <2>3, <2>4, <2>5
<1> HIDE DEF first, back
<1>4. /\ front \in Seq(Byte) /\ Len(front) = Len(a) + m
      /\ \A i \in 1..Len(a) + m :
           front[i] = IF i <= Len(a) THEN a[i] ELSE first[i - Len(a)]
  BY <1>2, ConcatProperties
<1> HIDE DEF front
<1>5. Segment(S, n, front)
  <2>1. ASSUME NEW i \in 1..Len(a) + m
        PROVE  front[i] = S[n + i]
    <3>1. CASE i <= Len(a)
      <4>1. i \in 1..Len(a)
        BY <1>1, <3>1
      <4>2. front[i] = a[i]
        BY <1>4, <3>1
      <4> QED
        BY <1>1, <4>1, <4>2
    <3>2. CASE i > Len(a)
      <4>1. i - Len(a) \in 1..m /\ i - Len(a) \in 1..Len(c)
        BY <1>1, <3>2
      <4>2. front[i] = c[i - Len(a)]
        BY <1>1, <1>2, <1>4, <3>2, <4>1
      <4>3. n + Len(a) + (i - Len(a)) = n + i
        BY <1>1
      <4> QED
        BY <1>1, <4>1, <4>2, <4>3
    <3> QED
      BY <1>1, <3>1, <3>2
  <2> QED
    BY <1>1, <1>4, <2>1 DEF Segment
<1>6. Segment(S, n + Len(front), back)
  <2>1. ASSUME NEW i \in 1..Len(c) - m
        PROVE  back[i] = S[n + Len(front) + i]
    <3>1. m + i \in 1..Len(c) /\ n + Len(a) + (m + i) = n + Len(front) + i
      BY <1>1, <1>4
    <3> QED
      BY <1>1, <1>3, <3>1
  <2>2. n + Len(front) + Len(back) <= Len(S)
    BY <1>1, <1>3, <1>4
  <2> QED
    BY <1>3, <2>1, <2>2 DEF Segment
<1> QED
  BY <1>3, <1>4, <1>5, <1>6 DEF front, first, back

(* The places of the bytes of a frame.                                     *)
LEMMA FramePlaces ==
  ASSUME NEW a \in Nat, NEW b \in Nat, NEW c \in Nat, a + 2 + b <= c
  PROVE  /\ a + 1 \in 1..c /\ a + 2 \in 1..c
         /\ \A i \in 1..b : a + 2 + i \in 1..c
OBVIOUS

(* S2 is S with the frame of packet p added.                               *)
Extended(s, p, start, S, frame, start2, S2) ==
  /\ Frames(Append(s, p), start2, S2)
  /\ S2 \in Seq(Byte) /\ Len(S2) = Len(S) + Len(frame)
  /\ \A i \in 1..Len(S) : S2[i] = S[i]
  /\ Segment(S2, Len(S), frame)
  /\ \A i \in 1..Len(s) + 1 : start2[i] = start[i]

(* Another packet adds its frame at the end.                               *)
LEMMA AddFrame ==
  ASSUME NEW s \in Seq(Seq(Byte)), NEW p \in Seq(Byte), NEW start, NEW S,
         Frames(s, start, S), NEW frame, frame = Header(Len(p)) \o p
  PROVE  /\ frame \in Seq(Byte)
         /\ \E start2, S2 : Extended(s, p, start, S, frame, start2, S2)
<1> DEFINE start2 == [i \in 1..Len(s) + 2 |->
                        IF i <= Len(s) + 1 THEN start[i] ELSE Len(S) + 2 + Len(p)]
           h == Header(Len(p))
           S2 == S \o frame
           t == Append(s, p)
<1>0. Len(s) \in Nat /\ Len(p) \in Nat /\ S \in Seq(Byte) /\ Len(S) \in Nat
  BY DEF Frames
<1>1. /\ start \in [1..Len(s) + 1 -> Nat] /\ start[1] = 0
      /\ start[Len(s) + 1] = Len(S)
      /\ \A i \in 1..Len(s) : Len(s[i]) \in Nat
  BY DEF Frames
<1>2. h \in Seq(Byte) /\ Len(h) = 2
  BY <1>0, HeaderModulo
<1>2a. frame = h \o p
  OBVIOUS
<1> HIDE DEF h
<1>3. frame \in Seq(Byte) /\ Len(frame) = 2 + Len(p) /\ Len(frame) \in Nat
  <2>1. frame \in Seq(Byte) /\ Len(frame) = Len(h) + Len(p)
    BY <1>2, <1>2a, ConcatProperties
  <2> QED
    BY <1>0, <1>2, <2>1
<1>3a. /\ frame[1] = h[1] /\ frame[2] = h[2]
       /\ \A b \in 1..Len(p) : frame[2 + b] = p[b]
  <2>1. \A i \in 1..Len(h) + Len(p) :
          (h \o p)[i] = IF i <= Len(h) THEN h[i] ELSE p[i - Len(h)]
    BY <1>2, ConcatProperties
  <2>2. ASSUME NEW b \in 1..Len(p)
        PROVE  frame[2 + b] = p[b]
    <3>1. 2 + b \in 1..Len(h) + Len(p) /\ ~(2 + b <= Len(h)) /\ 2 + b - Len(h) = b
      BY <1>0, <1>2
    <3>2. (h \o p)[2 + b] = p[2 + b - Len(h)]
      BY <2>1, <3>1
    <3> QED
      BY <1>2a, <3>1, <3>2
  <2>3. (h \o p)[1] = h[1] /\ (h \o p)[2] = h[2]
    <3>1. /\ 1 \in 1..Len(h) + Len(p) /\ 2 \in 1..Len(h) + Len(p)
          /\ 1 <= Len(h) /\ 2 <= Len(h)
      BY <1>0, <1>2
    <3> QED
      BY <2>1, <3>1
  <2> QED
    BY <1>2a, <2>2, <2>3
<1>4. S2 \in Seq(Byte) /\ Len(S2) = Len(S) + Len(frame)
  BY <1>0, <1>3, ConcatProperties
<1>4a. /\ \A i \in 1..Len(S) : S2[i] = S[i]
       /\ \A i \in 1..Len(frame) : S2[Len(S) + i] = frame[i]
  <2>1. \A i \in 1..Len(S) + Len(frame) :
          S2[i] = IF i <= Len(S) THEN S[i] ELSE frame[i - Len(S)]
    BY <1>0, <1>3, ConcatProperties
  <2> HIDE DEF S2
  <2>2. ASSUME NEW i \in 1..Len(S)
        PROVE  S2[i] = S[i]
    <3>1. i \in 1..Len(S) + Len(frame) /\ i <= Len(S)
      BY <1>0, <1>3
    <3> QED
      BY <2>1, <3>1
  <2>3. ASSUME NEW i \in 1..Len(frame)
        PROVE  S2[Len(S) + i] = frame[i]
    <3>1. Len(S) + i \in 1..Len(S) + Len(frame) /\ ~(Len(S) + i <= Len(S))
          /\ Len(S) + i - Len(S) = i
      BY <1>0, <1>3
    <3>2. S2[Len(S) + i] = frame[Len(S) + i - Len(S)]
      BY <2>1, <3>1
    <3> QED
      BY <3>1, <3>2
  <2> QED
    BY <2>2, <2>3
<1> HIDE DEF S2
<1>5. /\ start2 \in [1..Len(s) + 2 -> Nat]
      /\ \A i \in 1..Len(s) + 1 : start2[i] = start[i]
      /\ start2[Len(s) + 2] = Len(S) + 2 + Len(p)
  BY <1>0, <1>1
<1> HIDE DEF start2
<1>6. /\ t \in Seq(Seq(Byte)) /\ Len(t) = Len(s) + 1 /\ t[Len(s) + 1] = p
      /\ \A i \in 1..Len(s) : t[i] = s[i]
  BY AppendProperties
<1> HIDE DEF t
<1>7. ASSUME NEW i \in 1..Len(t)
      PROVE  /\ start2[i + 1] = start2[i] + 2 + Len(t[i])
             /\ S2[start2[i] + 1] = Header(Len(t[i]))[1]
             /\ S2[start2[i] + 2] = Header(Len(t[i]))[2]
             /\ \A b \in 1..Len(t[i]) : S2[start2[i] + 2 + b] = t[i][b]
             /\ start2[i + 1] <= Len(S2)
  <2>1. CASE i = Len(s) + 1
    <3>1. /\ start2[i] = Len(S) /\ start2[i + 1] = Len(S) + 2 + Len(p)
          /\ t[i] = p
      <4>1. i + 1 = Len(s) + 2 /\ i \in 1..Len(s) + 1
        BY <1>0, <2>1
      <4>2. start2[i] = start[i]
        BY <1>5, <4>1
      <4> QED
        BY <1>1, <1>5, <1>6, <2>1, <4>1, <4>2
    <3>2. 1 \in 1..Len(frame) /\ 2 \in 1..Len(frame)
      BY <1>0, <1>3
    <3>3. ASSUME NEW b \in 1..Len(p)
          PROVE  S2[Len(S) + 2 + b] = p[b]
      <4>1. 2 + b \in 1..Len(frame) /\ Len(S) + (2 + b) = Len(S) + 2 + b
        BY <1>0, <1>3
      <4>2. S2[Len(S) + (2 + b)] = frame[2 + b]
        BY <1>4a, <4>1
      <4> QED
        BY <1>3a, <4>1, <4>2
    <3>4. Len(S2) = Len(S) + 2 + Len(p)
      BY <1>0, <1>3, <1>4
    <3>5. S2[Len(S) + 1] = h[1] /\ S2[Len(S) + 2] = h[2]
      BY <1>3a, <1>4a, <3>2
    <3>6. h = Header(Len(t[i]))
      BY <3>1 DEF h
    <3> QED
      BY <1>0, <3>1, <3>3, <3>4, <3>5, <3>6
  <2>2. CASE i \in 1..Len(s)
    <3>1. start2[i] = start[i] /\ start2[i + 1] = start[i + 1] /\ t[i] = s[i]
      <4>1. i \in 1..Len(s) + 1 /\ i + 1 \in 1..Len(s) + 1
        BY <1>0, <2>2
      <4> QED
        BY <1>5, <1>6, <2>2, <4>1
    <3>2. start[i] \in Nat /\ Len(s[i]) \in Nat
      <4>1. i \in 1..Len(s) + 1
        BY <1>0, <2>2
      <4> QED
        BY <1>1, <2>2, <4>1
    <3>3. /\ start[i + 1] = start[i] + 2 + Len(s[i])
          /\ S[start[i] + 1] = Header(Len(s[i]))[1]
          /\ S[start[i] + 2] = Header(Len(s[i]))[2]
          /\ \A b \in 1..Len(s[i]) : S[start[i] + 2 + b] = s[i][b]
          /\ start[i + 1] <= Len(S)
      BY <2>2 DEF Frames
    <3>3a. /\ start[i + 1] = start[i] + 2 + Len(s[i]) /\ start[i + 1] <= Len(S)
           /\ start[i] + 2 + Len(s[i]) <= Len(S)
      BY <3>3
    <3>4. start[i] + 1 \in 1..Len(S) /\ start[i] + 2 \in 1..Len(S)
      BY <1>0, <3>2, <3>3a, FramePlaces
    <3>5. ASSUME NEW b \in 1..Len(s[i])
          PROVE  S2[start[i] + 2 + b] = s[i][b]
      <4>1. start[i] + 2 + b \in 1..Len(S)
        BY <1>0, <3>2, <3>3a, FramePlaces
      <4> QED
        BY <1>4a, <3>3, <4>1
    <3>6. start[i + 1] <= Len(S2)
      <4>1. start[i + 1] \in Nat
        <5>1. i + 1 \in 1..Len(s) + 1
          BY <1>0, <2>2
        <5> QED
          BY <1>1, <5>1
      <4> QED
        BY <1>0, <1>3, <1>4, <3>3a, <4>1
    <3>7. /\ S2[start[i] + 1] = Header(Len(s[i]))[1]
          /\ S2[start[i] + 2] = Header(Len(s[i]))[2]
      BY <1>4a, <3>3, <3>4
    <3> QED
      BY <3>1, <3>3, <3>5, <3>6, <3>7
  <2> QED
    BY <1>0, <1>6, <2>1, <2>2
<1>8. Frames(t, start2, S2)
  <2>1. Len(t) + 1 = Len(s) + 2
    BY <1>0, <1>6
  <2>2. start2[Len(t) + 1] = Len(S2)
    BY <1>0, <1>3, <1>4, <1>5, <2>1
  <2>3. start2[1] = 0
    <3>1. 1 \in 1..Len(s) + 1
      BY <1>0
    <3> QED
      BY <1>1, <1>5, <3>1
  <2> QED
    BY <1>4, <1>5, <1>7, <2>1, <2>2, <2>3 DEF Frames
<1>9. Segment(S2, Len(S), frame)
  BY <1>0, <1>3, <1>4, <1>4a DEF Segment
<1>10. Extended(s, p, start, S, frame, start2, S2)
  BY <1>4, <1>4a, <1>5, <1>8, <1>9 DEF Extended, t
<1> QED
  BY <1>3, <1>10

-----------------------------------------------------------------------------
LEMMA SendKeepsInv ==
  ASSUME PacketInv, NEW p \in Packets, io_write_packet2(p)
  PROVE  PacketInv'
<1>1. PICK start, S : \E n \in Nat :
        Frames(sent, start, S) /\ Flow(S, n) /\ (AllFit => AtFrame(start, n) \/ Over)
  BY DEF PacketInv
<1>2. PICK n \in Nat :
        Frames(sent, start, S) /\ Flow(S, n) /\ (AllFit => AtFrame(start, n) \/ Over)
  BY <1>1
<1>3. /\ todo = <<>> /\ sent' = Append(sent, p)
      /\ todo' = Header(Len(p)) \o p
      /\ UNCHANGED <<pipe, closed, part, want, bytes, received>>
      /\ p \in Seq(Byte)
      /\ PacketTypes
  BY PacketAssumption DEF io_write_packet2, readerVars, PacketInv, Byte
<1>3a. /\ todo' \in Seq(Byte)
       /\ \E start2, S2 : Extended(sent, p, start, S, todo', start2, S2)
  <2>1. sent \in Seq(Seq(Byte)) /\ Frames(sent, start, S)
    BY <1>2, <1>3 DEF PacketTypes
  <2> QED
    BY <1>3, <2>1, AddFrame
<1>3b. PICK start2, S2 : Extended(sent, p, start, S, todo', start2, S2)
  BY <1>3a
<1>4. /\ Frames(sent', start2, S2)
      /\ S2 \in Seq(Byte) /\ Len(S2) = Len(S) + Len(todo')
      /\ \A i \in 1..Len(S) : S2[i] = S[i]
      /\ Segment(S2, Len(S), todo')
      /\ \A i \in 1..Len(sent) + 1 : start2[i] = start[i]
  BY <1>3, <1>3b DEF Extended
<1>5. /\ Len(sent') = Len(sent) + 1 /\ Len(sent) \in Nat
      /\ \A i \in 1..Len(sent) : sent'[i] = sent[i]
  BY <1>3, AppendProperties DEF PacketTypes
<1>5a. sent' \in Seq(Seq(Byte))
  BY <1>3, AppendProperties DEF PacketTypes
<1>6. PacketTypes'
  BY <1>3, <1>3a, <1>5a DEF PacketTypes
<1>7. FramesIntact'
  <2>1. DOMAIN sent = 1..Len(sent) /\ DOMAIN sent' = 1..Len(sent) + 1
    BY <1>3, <1>5, <1>5a DEF PacketTypes
  <2> SUFFICES ASSUME NEW i \in DOMAIN received,
                      \A j \in DOMAIN sent' : j < i => Fits(sent'[j])
               PROVE  /\ i \in DOMAIN sent'
                      /\ received[i] = SubSeq(sent'[i], 1, Len(sent'[i]) % (Base * Base))
    BY <1>3 DEF FramesIntact, Fits
  <2>2. ASSUME NEW j \in DOMAIN sent, j < i
        PROVE  Fits(sent[j])
    <3>1. j \in DOMAIN sent' /\ sent'[j] = sent[j]
      BY <1>5, <2>1
    <3> QED
      BY <2>2, <3>1
  <2>3. /\ i \in DOMAIN sent
        /\ received[i] = SubSeq(sent[i], 1, Len(sent[i]) % (Base * Base))
    BY <2>2 DEF PacketInv, FramesIntact
  <2>4. i \in DOMAIN sent' /\ sent'[i] = sent[i]
    BY <1>5, <2>1, <2>3
  <2> QED
    BY <2>3, <2>4
<1>8. Flow(S2, n)'
  <2>1. /\ Len(bytes) \in Nat /\ Len(pipe) \in Nat /\ Len(S) \in Nat
        /\ Len(todo) = 0 /\ Len(todo') \in Nat
    BY <1>2, <1>3, <1>3a DEF PacketTypes, Frames
  <2>2. /\ Segment(S, n, bytes) /\ Segment(S, n + Len(bytes), pipe)
        /\ Len(S) = n + Len(bytes) + Len(pipe)
    BY <1>2, <2>1 DEF Flow
  <2>3. Segment(S2, n, bytes)
    <3>1. \A i \in 1..Len(bytes) : n + i \in 1..Len(S) /\ bytes[i] = S[n + i]
      BY <2>1, <2>2 DEF Segment
    <3>2. n + Len(bytes) <= Len(S2)
      BY <1>4, <2>1, <2>2
    <3> QED
      BY <1>4, <3>1, <3>2 DEF Segment
  <2>4. Segment(S2, n + Len(bytes), pipe)
    <3>1. \A i \in 1..Len(pipe) :
            n + Len(bytes) + i \in 1..Len(S) /\ pipe[i] = S[n + Len(bytes) + i]
      BY <2>1, <2>2 DEF Segment
    <3>2. n + Len(bytes) + Len(pipe) <= Len(S2)
      BY <1>4, <2>1, <2>2
    <3> QED
      BY <1>4, <3>1, <3>2 DEF Segment
  <2> QED
    BY <1>3, <1>4, <2>1, <2>2, <2>3, <2>4 DEF Flow
<1>9. AllFit' => AllFit
  <2> SUFFICES ASSUME AllFit', NEW j \in 1..Len(sent), j <= Len(received)
               PROVE  Fits(sent[j])
    BY DEF AllFit
  <2>1. j \in 1..Len(sent') /\ sent'[j] = sent[j] /\ j <= Len(received')
    BY <1>3, <1>5
  <2> QED
    BY <2>1 DEF AllFit, Fits
<1>10. AtFrame(start, n) => AtFrame(start2, n)'
  <2> SUFFICES ASSUME AtFrame(start, n) PROVE AtFrame(start2, n)'
    OBVIOUS
  <2>1. Len(received) \in Nat /\ Len(received) <= Len(sent)
    BY <1>3 DEF AtFrame, PacketTypes
  <2>2. Len(received) + 1 \in 1..Len(sent) + 1 /\ Len(received) <= Len(sent) + 1
    BY <1>5, <2>1
  <2>3. start2[Len(received) + 1] = start[Len(received) + 1]
    BY <1>4, <2>2
  <2>4. Len(received) < Len(sent) =>
          Len(received) < Len(sent) + 1 /\ sent'[Len(received) + 1] = sent[Len(received) + 1]
    <3> SUFFICES ASSUME Len(received) < Len(sent)
                 PROVE  /\ Len(received) < Len(sent) + 1
                        /\ sent'[Len(received) + 1] = sent[Len(received) + 1]
      OBVIOUS
    <3>1. Len(received) + 1 \in 1..Len(sent)
      BY <1>5, <2>1
    <3> QED
      BY <1>5, <2>1, <3>1
  <2> QED
    BY <1>3, <1>5, <2>2, <2>3, <2>4 DEF AtFrame
<1>11. Over => Over'
  BY <1>3 DEF Over
<1>12. Frames(sent, start2, S2)' /\ Flow(S2, n)'
         /\ (AllFit => AtFrame(start2, n) \/ Over)'
  BY <1>2, <1>4, <1>8, <1>9, <1>10, <1>11
<1> QED
  BY <1>6, <1>7, <1>12 DEF PacketInv

(* The sequences of a flow have lengths.                                   *)
LEMMA FlowLengths ==
  ASSUME PacketTypes, NEW start, NEW S, Frames(sent, start, S)
  PROVE  /\ Len(bytes) \in Nat /\ Len(pipe) \in Nat /\ Len(todo) \in Nat
         /\ Len(S) \in Nat /\ S \in Seq(Byte)
         /\ Len(sent) \in Nat /\ Len(received) \in Nat
BY DEF PacketTypes, Frames

(* A step that sends and receives no packet.                               *)
LEMMA BytesMove ==
  ASSUME PacketInv, UNCHANGED <<sent, received>>, PacketTypes',
         \A start, S : \A n \in Nat :
           Frames(sent, start, S) /\ Flow(S, n) /\ (AllFit => AtFrame(start, n) \/ Over)
             => \E k \in Nat : Flow(S, k)' /\ (AllFit => AtFrame(start, k)' \/ Over')
  PROVE  PacketInv'
<1>1. PICK start, S : \E n \in Nat :
        Frames(sent, start, S) /\ Flow(S, n) /\ (AllFit => AtFrame(start, n) \/ Over)
  BY DEF PacketInv
<1>2. \E k \in Nat : Flow(S, k)' /\ (AllFit => AtFrame(start, k)' \/ Over')
  BY <1>1
<1>3. FramesIntact'
  BY DEF PacketInv, FramesIntact, Fits
<1>4. AllFit' = AllFit
  BY DEF AllFit, Fits
<1>5. Frames(sent, start, S)'
  BY <1>1
<1> QED
  BY <1>2, <1>3, <1>4, <1>5 DEF PacketInv

(* The reader is done with what it has.                                    *)
LEMMA BytesDone ==
  ASSUME PacketTypes, NEW start, NEW S, NEW n \in Nat,
         Frames(sent, start, S), Flow(S, n),
         bytes' = <<>>, UNCHANGED <<pipe, todo>>
  PROVE  \E k \in Nat : k = n + Len(bytes) /\ k <= Len(S) /\ Flow(S, k)'
<1>1. /\ Len(bytes) \in Nat /\ Len(pipe) \in Nat /\ Len(todo) \in Nat
      /\ Len(S) \in Nat
  BY FlowLengths
<1>2. PICK k \in Nat : k = n + Len(bytes)
  BY <1>1
<1>3. /\ Segment(S, k, pipe) /\ Segment(S, k + Len(pipe), todo)
      /\ Len(S) = k + Len(pipe) + Len(todo)
  BY <1>1, <1>2 DEF Flow
<1>4. Len(bytes') = 0 /\ k + Len(bytes') = k
  BY <1>2
<1>5. k <= Len(S)
  BY <1>1, <1>2, <1>3
<1>6. Segment(S, k, bytes')
  BY <1>4, <1>5 DEF Segment
<1>7. /\ Segment(S, k + Len(bytes'), pipe)
      /\ Segment(S, k + Len(bytes') + Len(pipe), todo)
      /\ Len(S) = k + Len(bytes') + Len(pipe) + Len(todo)
  BY <1>3, <1>4
<1>8. Flow(S, k)'
  BY <1>6, <1>7 DEF Flow
<1> QED
  BY <1>2, <1>5, <1>8

LEMMA WriteKeepsInv ==
  ASSUME PacketInv, NEW m \in 1..Capacity, io_write(m)
  PROVE  PacketInv'
<1>1. /\ ~closed /\ m <= Len(todo)
      /\ pipe' = pipe \o SubSeq(todo, 1, m)
      /\ todo' = SubSeq(todo, m + 1, Len(todo))
      /\ UNCHANGED <<sent, closed, part, want, bytes, received>>
      /\ PacketTypes
  BY DEF io_write, readerVars, PacketInv
<1>2. m \in 0..Len(todo)
  BY <1>1, PacketAssumption DEF PacketTypes
<1>3. ASSUME NEW start, NEW S, NEW n \in Nat, Frames(sent, start, S), Flow(S, n)
      PROVE  Flow(S, n)' /\ pipe' \in Seq(Byte) /\ todo' \in Seq(Byte)
  <2>1. /\ Len(bytes) \in Nat /\ Len(pipe) \in Nat /\ Len(todo) \in Nat
        /\ S \in Seq(Byte) /\ pipe \in Seq(Byte) /\ todo \in Seq(Byte)
    BY <1>1, <1>3, FlowLengths DEF PacketTypes
  <2>2. /\ Segment(S, n, bytes)
        /\ Segment(S, n + Len(bytes), pipe)
        /\ Segment(S, n + Len(bytes) + Len(pipe), todo)
        /\ Len(S) = n + Len(bytes) + Len(pipe) + Len(todo)
        /\ n + Len(bytes) \in Nat
    BY <1>3, <2>1 DEF Flow
  <2>3. /\ pipe' \in Seq(Byte) /\ todo' \in Seq(Byte)
        /\ Len(pipe') = Len(pipe) + m /\ Len(todo') = Len(todo) - m
        /\ Segment(S, n + Len(bytes), pipe')
        /\ Segment(S, n + Len(bytes) + Len(pipe'), todo')
    BY <1>1, <1>2, <2>1, <2>2, MoveBytes
  <2>4. Len(S) = n + Len(bytes) + Len(pipe') + Len(todo')
    BY <1>2, <2>1, <2>2, <2>3
  <2> QED
    BY <1>1, <2>2, <2>3, <2>4 DEF Flow
<1>4. PacketTypes'
  <2>1. PICK start, S : \E n \in Nat : Frames(sent, start, S) /\ Flow(S, n)
    BY DEF PacketInv
  <2>2. pipe' \in Seq(Byte) /\ todo' \in Seq(Byte)
    BY <1>3, <2>1
  <2> QED
    BY <1>1, <2>2 DEF PacketTypes
<1>5. ASSUME NEW start, NEW S, NEW n \in Nat,
             Frames(sent, start, S), Flow(S, n), AllFit => AtFrame(start, n) \/ Over
      PROVE  Flow(S, n)' /\ (AllFit => AtFrame(start, n)' \/ Over')
  <2>1. Flow(S, n)'
    BY <1>3, <1>5
  <2>2. AtFrame(start, n)' <=> AtFrame(start, n)
    BY <1>1 DEF AtFrame
  <2>3. ~Over
    BY <1>1 DEF Over
  <2> QED
    BY <1>5, <2>1, <2>2, <2>3
<1> QED
  BY <1>1, <1>4, <1>5, BytesMove

LEMMA ReadKeepsInv ==
  ASSUME PacketInv, NEW m \in 1..Capacity, io_read(m)
  PROVE  PacketInv'
<1>1. /\ part # "none" /\ m <= Len(pipe)
      /\ bytes' = bytes \o SubSeq(pipe, 1, m)
      /\ pipe' = SubSeq(pipe, m + 1, Len(pipe))
      /\ UNCHANGED <<sent, todo, closed, part, want, received>>
      /\ PacketTypes
  BY DEF io_read, writerVars, PacketInv
<1>2. m \in 0..Len(pipe) /\ m > 0
  BY <1>1, PacketAssumption DEF PacketTypes
<1>3. ASSUME NEW start, NEW S, NEW n \in Nat, Frames(sent, start, S), Flow(S, n)
      PROVE  Flow(S, n)' /\ bytes' \in Seq(Byte) /\ pipe' \in Seq(Byte)
  <2>1. /\ Len(bytes) \in Nat /\ Len(pipe) \in Nat /\ Len(todo) \in Nat
        /\ S \in Seq(Byte) /\ pipe \in Seq(Byte) /\ bytes \in Seq(Byte)
    BY <1>1, <1>3, FlowLengths DEF PacketTypes
  <2>2. /\ Segment(S, n, bytes)
        /\ Segment(S, n + Len(bytes), pipe)
        /\ Segment(S, n + Len(bytes) + Len(pipe), todo)
        /\ Len(S) = n + Len(bytes) + Len(pipe) + Len(todo)
    BY <1>3, <2>1 DEF Flow
  <2>3. /\ bytes' \in Seq(Byte) /\ pipe' \in Seq(Byte)
        /\ Len(bytes') = Len(bytes) + m /\ Len(pipe') = Len(pipe) - m
        /\ Segment(S, n, bytes')
        /\ Segment(S, n + Len(bytes'), pipe')
    BY <1>1, <1>2, <2>1, <2>2, MoveBytes
  <2>4. /\ n + Len(bytes') + Len(pipe') = n + Len(bytes) + Len(pipe)
        /\ Len(S) = n + Len(bytes') + Len(pipe') + Len(todo)
    BY <1>2, <2>1, <2>2, <2>3
  <2> QED
    BY <1>1, <2>2, <2>3, <2>4 DEF Flow
<1>4. PacketTypes'
  <2>1. PICK start, S : \E n \in Nat : Frames(sent, start, S) /\ Flow(S, n)
    BY DEF PacketInv
  <2>2. pipe' \in Seq(Byte) /\ bytes' \in Seq(Byte)
    BY <1>3, <2>1
  <2> QED
    BY <1>1, <2>2 DEF PacketTypes
<1>5. ASSUME NEW start, NEW S, NEW n \in Nat,
             Frames(sent, start, S), Flow(S, n), AllFit => AtFrame(start, n) \/ Over
      PROVE  Flow(S, n)' /\ (AllFit => AtFrame(start, n)' \/ Over')
  <2>1. Flow(S, n)'
    BY <1>3, <1>5
  <2>2. AtFrame(start, n) => AtFrame(start, n)'
    BY <1>1 DEF AtFrame
  <2>3. ~Over
    <3>1. Len(pipe) > 0
      BY <1>1, <1>2 DEF PacketTypes
    <3> QED
      BY <3>1 DEF Over
  <2> QED
    BY <1>5, <2>1, <2>2, <2>3
<1> QED
  BY <1>1, <1>4, <1>5, BytesMove

(* A header is read where the frame of the next packet begins, and has its *)
(* length.                                                                 *)
LEMMA HeaderKeepsInv ==
  ASSUME ~CharSigned, PacketInv, HeaderRead
  PROVE  PacketInv'
<1>1. /\ part = "header" /\ Len(bytes) = want
      /\ UNCHANGED <<sent, todo, closed, pipe, received>>
      /\ PacketTypes
  BY DEF HeaderRead, writerVars, PacketInv
<1>2. bytes' = <<>>
  BY DEF HeaderRead, Returns, Reading
<1>3. PacketTypes'
  BY <1>1, <1>2 DEF PacketTypes
<1>4. ASSUME NEW start, NEW S, NEW n \in Nat,
             Frames(sent, start, S), Flow(S, n), AllFit => AtFrame(start, n) \/ Over
      PROVE  \E k \in Nat : Flow(S, k)' /\ (AllFit => AtFrame(start, k)' \/ Over')
  <2>1. /\ Len(bytes) \in Nat /\ Len(S) \in Nat
        /\ Len(sent) \in Nat /\ Len(received) \in Nat
    BY <1>1, <1>4, FlowLengths
  <2>2. Segment(S, n, bytes)
    BY <1>4 DEF Flow
  <2>3. PICK k \in Nat : k = n + Len(bytes) /\ k <= Len(S) /\ Flow(S, k)'
    BY <1>1, <1>2, <1>4, BytesDone
  <2>4. ASSUME AllFit
        PROVE  AtFrame(start, k)'
    <3> DEFINE i == Len(received) + 1
    <3>1. ~Over
      <4>1. Over => Len(bytes) = 0 /\ want = 2
        BY <1>1 DEF Over
      <4> QED
        BY <1>1, <4>1
    <3>2. Len(received) <= Len(sent) /\ want = 2 /\ n = start[i]
      BY <1>1, <1>4, <2>4, <3>1 DEF AtFrame
    <3>3. k = n + 2 /\ k <= Len(S) /\ Len(bytes) = 2
      BY <1>1, <2>3, <3>2
    <3>4. i \in 1..Len(sent)
      <4>1. CASE Len(received) = Len(sent)
        <5>1. n = Len(S)
          BY <1>4, <3>2, <4>1 DEF Frames
        <5> QED
          BY <2>1, <3>3, <5>1
      <4>2. CASE Len(received) < Len(sent)
        BY <2>1, <4>2
      <4> QED
        BY <2>1, <3>2, <4>1, <4>2
    <3> DEFINE length == Len(sent[i])
    <3>5. length \in Nat
      BY <1>1, <3>4 DEF PacketTypes
    <3>6. S[n + 1] = Header(length)[1] /\ S[n + 2] = Header(length)[2]
      BY <1>4, <3>2, <3>4 DEF Frames
    <3>7. bytes[1] = Header(length)[1] /\ bytes[2] = Header(length)[2]
      BY <2>2, <3>3, <3>6 DEF Segment
    <3> HIDE DEF i, length
    <3>8. /\ Header(length)[1] \in Byte /\ Header(length)[2] \in Byte
          /\ Base * Header(length)[1] + Header(length)[2] = length % (Base * Base)
      BY <3>5, HeaderModulo
    <3>9. HeaderLength(bytes) = Base * bytes[1] + bytes[2] /\ bytes[2] \in Byte
      BY <3>7, <3>8, PacketAssumption DEF HeaderLength, Char, Byte
    <3>10. HeaderLength(bytes) = length % (Base * Base)
      BY <3>7, <3>8, <3>9
    <3>11. ~(length % (Base * Base) < 0)
      <4>1. Base * Base \in Nat /\ Base * Base > 0
        BY PacketAssumption
      <4> QED
        BY <3>5, <4>1
    <3>12. part' = "body" /\ want' = HeaderLength(bytes)
      BY <3>10, <3>11 DEF HeaderRead, Reading
    <3>13. Len(received) < Len(sent)
      BY <2>1, <3>4 DEF i
    <3>14. k = start[i] + 2 /\ want' = length % (Base * Base)
      BY <3>2, <3>3, <3>10, <3>12
    <3> QED
      BY <1>1, <3>2, <3>12, <3>13, <3>14 DEF AtFrame, i, length
  <2> QED
    BY <2>3, <2>4
<1> QED
  BY <1>1, <1>3, <1>4, BytesMove

(* The body is what its frame has after the header, as many bytes as the   *)
(* header says.                                                            *)
LEMMA BodyIsPacket ==
  ASSUME PacketTypes, NEW start, NEW S, NEW n \in Nat,
         Frames(sent, start, S), Flow(S, n), AtFrame(start, n),
         part = "body", Len(bytes) = want
  PROVE  /\ Len(received) + 1 \in 1..Len(sent)
         /\ bytes = SubSeq(sent[Len(received) + 1], 1,
                           Len(sent[Len(received) + 1]) % (Base * Base))
         /\ Fits(sent[Len(received) + 1]) =>
              n + Len(bytes) = start[Len(received) + 2]
<1> DEFINE i == Len(received) + 1
           packet == sent[i]
           length == Len(packet)
           cut == length % (Base * Base)
<1>1. /\ i \in 1..Len(sent) /\ n = start[i] + 2 /\ want = cut
      /\ Len(received) \in Nat
  BY FlowLengths DEF AtFrame
<1>2. packet \in Seq(Byte) /\ length \in Nat
  BY <1>1 DEF PacketTypes
<1>3. /\ start[i] \in Nat /\ start[i + 1] = start[i] + 2 + length
      /\ \A b \in 1..length : S[start[i] + 2 + b] = packet[b]
  <2>1. i \in 1..Len(sent) + 1
    BY <1>1, FlowLengths
  <2> QED
    BY <1>1, <2>1 DEF Frames
<1>4. \A b \in 1..Len(bytes) : bytes[b] = S[n + b]
  BY DEF Flow, Segment
<1>5. Base * Base \in Nat /\ Base * Base > 0
  BY PacketAssumption
<1>6. i + 1 = Len(received) + 2
  BY <1>1
<1> HIDE DEF i, packet, length
<1>7. cut \in 0..length /\ (length < Base * Base => cut = length)
  <2> DEFINE b == Base * Base
  <2>1. b \in Nat /\ b > 0
    BY <1>5
  <2> HIDE DEF b
  <2>2. length % b \in 0..length /\ (length < b => length % b = length)
    BY <1>2, <2>1
  <2> QED
    BY <2>2 DEF b
<1> HIDE DEF cut
<1>8. /\ SubSeq(packet, 1, cut) \in Seq(Byte) /\ Len(SubSeq(packet, 1, cut)) = cut
      /\ \A b \in 1..cut : SubSeq(packet, 1, cut)[b] = packet[b]
  <2>1. cut \in Nat /\ \A b \in 1..cut : packet[b] \in Byte
    BY <1>2, <1>7 DEF length
  <2>2. /\ SubSeq(packet, 1, cut) \in Seq(Byte)
        /\ Len(SubSeq(packet, 1, cut)) = IF 1 <= cut THEN cut - 1 + 1 ELSE 0
        /\ \A b \in 1..(cut - 1 + 1) : SubSeq(packet, 1, cut)[b] = packet[1 + b - 1]
    BY <2>1, SubSeqProperties
  <2>3. Len(SubSeq(packet, 1, cut)) = cut
    BY <2>1, <2>2
  <2>4. \A b \in 1..cut : SubSeq(packet, 1, cut)[b] = packet[b]
    BY <2>1, <2>2
  <2> QED
    BY <2>2, <2>3, <2>4
<1>9. bytes = SubSeq(packet, 1, cut)
  <2>1. bytes \in Seq(Byte) /\ Len(bytes) = cut
    BY <1>1 DEF PacketTypes
  <2>2. ASSUME NEW b \in 1..cut
        PROVE  bytes[b] = SubSeq(packet, 1, cut)[b]
    <3>1. b \in 1..length
      BY <1>2, <1>7
    <3>2. bytes[b] = S[start[i] + 2 + b]
      BY <1>1, <1>4, <2>1
    <3> QED
      BY <1>3, <1>8, <3>1, <3>2
  <2> QED
    BY <1>8, <2>1, <2>2, SeqEqual
<1>10. Fits(packet) => n + Len(bytes) = start[i + 1]
  <2> SUFFICES ASSUME Fits(packet) PROVE n + Len(bytes) = start[i + 1]
    OBVIOUS
  <2>1. cut = length
    BY <1>7 DEF Fits, length
  <2> QED
    BY <1>1, <1>2, <1>3, <2>1
<1> QED
  BY <1>1, <1>6, <1>9, <1>10 DEF i, packet, length, cut

LEMMA BodyKeepsInv ==
  ASSUME PacketInv, BodyRead
  PROVE  PacketInv'
<1>1. /\ part = "body" /\ Len(bytes) = want
      /\ received' = Append(received, bytes)
      /\ part' = "none" /\ want' = 0 /\ bytes' = <<>>
      /\ UNCHANGED <<sent, todo, closed, pipe>>
      /\ PacketTypes
  BY DEF BodyRead, Returns, Reading, writerVars, PacketInv
<1>2. PICK start, S : \E n \in Nat :
        Frames(sent, start, S) /\ Flow(S, n) /\ (AllFit => AtFrame(start, n) \/ Over)
  BY DEF PacketInv
<1>3. PICK n \in Nat :
        Frames(sent, start, S) /\ Flow(S, n) /\ (AllFit => AtFrame(start, n) \/ Over)
  BY <1>2
<1>4. /\ Len(bytes) \in Nat /\ Len(pipe) \in Nat /\ Len(todo) \in Nat
      /\ Len(S) \in Nat /\ Len(sent) \in Nat /\ Len(received) \in Nat
  BY <1>1, <1>3, FlowLengths
<1>5. /\ received \in Seq(Seq(Byte)) /\ bytes \in Seq(Byte)
      /\ sent \in Seq(Seq(Byte))
  BY <1>1 DEF PacketTypes
<1>6. /\ received' \in Seq(Seq(Byte)) /\ Len(received') = Len(received) + 1
      /\ \A i \in 1..Len(received) : received'[i] = received[i]
      /\ received'[Len(received) + 1] = bytes
      /\ DOMAIN received' = 1..Len(received) + 1
      /\ DOMAIN received = 1..Len(received) /\ DOMAIN sent = 1..Len(sent)
  <2>1. Len(received') = Len(received) + 1 /\ received' \in Seq(Seq(Byte))
    BY <1>1, <1>5, AppendProperties
  <2>2. /\ \A i \in 1..Len(received) : received'[i] = received[i]
        /\ received'[Len(received) + 1] = bytes
    BY <1>1, <1>5, AppendProperties
  <2> QED
    BY <1>5, <2>1, <2>2, LenProperties
<1>7. PacketTypes'
  BY <1>1, <1>6 DEF PacketTypes
<1>8. ~Over
  BY <1>1 DEF Over
<1>9. AllFit =>
        /\ Len(received) + 1 \in 1..Len(sent)
        /\ bytes = SubSeq(sent[Len(received) + 1], 1,
                          Len(sent[Len(received) + 1]) % (Base * Base))
        /\ Fits(sent[Len(received) + 1]) =>
             n + Len(bytes) = start[Len(received) + 2]
  BY <1>1, <1>3, <1>8, BodyIsPacket
<1>10. FramesIntact'
  <2> SUFFICES ASSUME NEW i \in DOMAIN received',
                      \A j \in DOMAIN sent : j < i => Fits(sent[j])
               PROVE  /\ i \in DOMAIN sent
                      /\ received'[i] = SubSeq(sent[i], 1, Len(sent[i]) % (Base * Base))
    BY <1>1 DEF FramesIntact, Fits
  <2>1. CASE i \in DOMAIN received
    <3>1. received'[i] = received[i]
      BY <1>6, <2>1
    <3> QED
      BY <2>1, <3>1 DEF PacketInv, FramesIntact
  <2>2. CASE i = Len(received) + 1
    <3>1. AllFit
      <4> SUFFICES ASSUME NEW j \in 1..Len(sent), j <= Len(received)
                   PROVE  Fits(sent[j])
        BY DEF AllFit
      <4>1. j \in DOMAIN sent /\ j < i
        BY <1>4, <1>6, <2>2
      <4> QED
        BY <4>1
    <3> QED
      BY <1>6, <1>9, <2>2, <3>1
  <2> QED
    BY <1>4, <1>6, <2>1, <2>2
<1>11. PICK k \in Nat : k = n + Len(bytes) /\ Flow(S, k)'
  BY <1>1, <1>3, BytesDone
<1>13. ASSUME AllFit'
       PROVE  AtFrame(start, k)'
  <2>1. \A j \in 1..Len(sent) : j <= Len(received) + 1 => Fits(sent[j])
    BY <1>1, <1>6, <1>13 DEF AllFit, Fits
  <2>2. AllFit
    BY <1>4, <2>1 DEF AllFit
  <2>3. Len(received) + 1 \in 1..Len(sent)
    BY <1>9, <2>2
  <2>4. Fits(sent[Len(received) + 1])
    BY <1>4, <2>1, <2>3
  <2>5. k = start[Len(received) + 2]
    BY <1>9, <1>11, <2>2, <2>4
  <2>6. Len(received') <= Len(sent) /\ Len(received') + 1 = Len(received) + 2
    BY <1>4, <1>6, <2>3
  <2> QED
    BY <1>1, <2>5, <2>6 DEF AtFrame
<1>12. Frames(sent, start, S)'
  BY <1>1, <1>3
<1> QED
  BY <1>7, <1>10, <1>11, <1>12, <1>13 DEF PacketInv

LEMMA NextPacket ==
  ASSUME ~CharSigned, PacketInv, [Next]_vars
  PROVE  PacketInv'
<1>1. ASSUME UNCHANGED <<sent, todo, pipe, received>>, bytes' = bytes \/ bytes' = <<>>
      PROVE  PacketTypes'
  <2>1. bytes' \in Seq(Byte)
    BY <1>1, EmptySeq DEF PacketInv, PacketTypes
  <2> QED
    BY <1>1, <2>1 DEF PacketInv, PacketTypes
<1>2. CASE UNCHANGED vars
  <2>1. PacketTypes'
    BY <1>1, <1>2 DEF vars, writerVars, readerVars
  <2>2. ASSUME NEW start, NEW S, NEW n \in Nat,
               Frames(sent, start, S), Flow(S, n), AllFit => AtFrame(start, n) \/ Over
        PROVE  Flow(S, n)' /\ (AllFit => AtFrame(start, n)' \/ Over')
    BY <1>2, <2>2 DEF vars, writerVars, readerVars, Flow, AtFrame, Over
  <2> QED
    BY <1>2, <2>1, <2>2, BytesMove DEF vars, writerVars, readerVars
<1>3. CASE \E p \in Packets : io_write_packet2(p)
  BY <1>3, SendKeepsInv
<1>4. CASE \E m \in 1..Capacity : io_write(m) \/ io_read(m)
  BY <1>4, WriteKeepsInv, ReadKeepsInv
<1>5. CASE Close
  <2>1. PacketTypes'
    BY <1>1, <1>5 DEF Close, readerVars
  <2>2. ASSUME NEW start, NEW S, NEW n \in Nat,
               Frames(sent, start, S), Flow(S, n), AllFit => AtFrame(start, n) \/ Over
        PROVE  Flow(S, n)' /\ (AllFit => AtFrame(start, n)' \/ Over')
    BY <1>5, <2>2 DEF Close, readerVars, Flow, AtFrame, Over
  <2> QED
    BY <1>5, <2>1, <2>2, BytesMove DEF Close, readerVars
<1>6. CASE io_read_packet2
  <2>1. PacketTypes'
    BY <1>1, <1>6 DEF io_read_packet2, Reading, writerVars
  <2>2. ASSUME NEW start, NEW S, NEW n \in Nat,
               Frames(sent, start, S), Flow(S, n), AllFit => AtFrame(start, n) \/ Over
        PROVE  \E k \in Nat : Flow(S, k)' /\ (AllFit => AtFrame(start, k)' \/ Over')
    <3>1. /\ part = "none" /\ part' = "header" /\ want' = 2 /\ bytes' = <<>>
          /\ UNCHANGED <<sent, todo, closed, pipe, received>>
      BY <1>6 DEF io_read_packet2, Reading, writerVars
    <3>2. PICK k \in Nat : k = n + Len(bytes) /\ Flow(S, k)'
      BY <2>2, <3>1, BytesDone DEF PacketInv
    <3>3. AtFrame(start, n) => AtFrame(start, k)'
      <4>1. AtFrame(start, n) => k = n
        BY <3>1, <3>2 DEF AtFrame
      <4> QED
        BY <3>1, <4>1 DEF AtFrame
    <3>4. Over => Over'
      BY <3>1 DEF Over
    <3> QED
      BY <2>2, <3>2, <3>3, <3>4
  <2> QED
    BY <1>6, <2>1, <2>2, BytesMove DEF io_read_packet2, writerVars
<1>7. CASE HeaderRead
  BY <1>7, HeaderKeepsInv
<1>8. CASE BodyRead
  BY <1>8, BodyKeepsInv
<1>9. CASE EndOfFile
  <2>1. PacketTypes'
    BY <1>1, <1>9 DEF EndOfFile, Returns, Reading, writerVars
  <2>2. ASSUME NEW start, NEW S, NEW n \in Nat,
               Frames(sent, start, S), Flow(S, n), AllFit => AtFrame(start, n) \/ Over
        PROVE  \E k \in Nat : Flow(S, k)' /\ (AllFit => AtFrame(start, k)' \/ Over')
    <3>1. /\ part' = "none" /\ bytes' = <<>> /\ closed /\ pipe = <<>>
          /\ UNCHANGED <<sent, todo, closed, pipe, received>>
      BY <1>9 DEF EndOfFile, Returns, Reading, writerVars
    <3>2. PICK k \in Nat : k = n + Len(bytes) /\ Flow(S, k)'
      BY <2>2, <3>1, BytesDone DEF PacketInv
    <3>3. Over'
      BY <3>1 DEF Over
    <3> QED
      BY <3>2, <3>3
  <2> QED
    BY <1>9, <2>1, <2>2, BytesMove DEF EndOfFile, writerVars
<1> QED
  BY <1>2, <1>3, <1>4, <1>5, <1>6, <1>7, <1>8, <1>9 DEF Next

(* Where char is unsigned the packets received are those sent, complete    *)
(* and in order, however reads and writes are cut and wherever the writer  *)
(* stops, until one does not fit in its header.                            *)
THEOREM PacketsIntact ==
  ASSUME ~CharSigned
  PROVE  Spec => []FramesIntact
<1>1. PacketInv => FramesIntact
  BY DEF PacketInv
<1>2. PacketInv /\ [Next]_vars => PacketInv'
  BY NextPacket
<1> QED
  BY <1>1, <1>2, InitPacket, PTL DEF Spec

-----------------------------------------------------------------------------
(* The bytes of a body that have been read are the first of its packet.    *)
LEMMA BodyIsPart ==
  ASSUME PacketTypes, NEW start, NEW S, NEW n \in Nat,
         Frames(sent, start, S), Flow(S, n), AtFrame(start, n),
         part = "body", Len(bytes) < want
  PROVE  /\ Len(received) < Len(sent)
         /\ Len(bytes) < Len(sent[Len(received) + 1])
         /\ bytes = SubSeq(sent[Len(received) + 1], 1, Len(bytes))
<1> DEFINE i == Len(received) + 1
           packet == sent[i]
           length == Len(packet)
           got == Len(bytes)
<1>1. /\ i \in 1..Len(sent) /\ Len(received) < Len(sent)
      /\ n = start[i] + 2 /\ want = length % (Base * Base)
  BY FlowLengths DEF AtFrame
<1>2. packet \in Seq(Byte) /\ length \in Nat /\ got \in Nat /\ bytes \in Seq(Byte)
  BY <1>1 DEF PacketTypes
<1>3. start[i] \in Nat /\ \A b \in 1..length : S[start[i] + 2 + b] = packet[b]
  <2>1. i \in 1..Len(sent) + 1
    BY <1>1, FlowLengths
  <2> QED
    BY <1>1, <2>1 DEF Frames
<1>4. \A b \in 1..got : bytes[b] = S[n + b]
  BY DEF Flow, Segment
<1> HIDE DEF i, packet, length
<1>5. got < length
  <2> DEFINE b == Base * Base
  <2>1. b \in Nat /\ b > 0
    BY PacketAssumption
  <2> HIDE DEF b
  <2>2. length % b \in 0..length
    BY <1>2, <2>1
  <2>3. got < length % b
    BY <1>1 DEF b
  <2> QED
    BY <1>2, <2>2, <2>3
<1>6. /\ SubSeq(packet, 1, got) \in Seq(Byte) /\ Len(SubSeq(packet, 1, got)) = got
      /\ \A b \in 1..got : SubSeq(packet, 1, got)[b] = packet[b]
  <2>1. \A b \in 1..got : packet[b] \in Byte
    BY <1>2, <1>5 DEF length
  <2> HIDE DEF got
  <2>2. /\ SubSeq(packet, 1, got) \in Seq(Byte)
        /\ Len(SubSeq(packet, 1, got)) = IF 1 <= got THEN got - 1 + 1 ELSE 0
        /\ \A b \in 1..(got - 1 + 1) : SubSeq(packet, 1, got)[b] = packet[1 + b - 1]
    BY <1>2, <2>1, SubSeqProperties
  <2> QED
    BY <1>2, <2>2
<1>7. bytes = SubSeq(packet, 1, got)
  <2>1. ASSUME NEW b \in 1..got
        PROVE  bytes[b] = SubSeq(packet, 1, got)[b]
    <3>1. b \in 1..length /\ n + b = start[i] + 2 + b
      BY <1>1, <1>2, <1>5
    <3> QED
      BY <1>3, <1>4, <1>6, <3>1
  <2> QED
    BY <1>2, <1>6, <2>1, SeqEqual
<1> QED
  BY <1>1, <1>5, <1>7 DEF i, packet, length

PartTypes == part \in {"none", "header", "body"}

(* What io_read_packet2 leaves in its buffer is a whole packet, or the     *)
(* writer is gone and it is a part of the next one.                        *)
LEMMA ReturnStep ==
  ASSUME ~CharSigned, PacketInv, PartTypes, Next, part # "none", part' = "none",
         \A j \in DOMAIN sent : j <= Len(received) => Fits(sent[j])
  PROVE  \/ received' = Append(received, bytes) /\ result' = Len(bytes)
         \/ /\ closed /\ pipe = <<>> /\ received' = received
            /\ \/ part = "header" /\ result' = -1
               \/ /\ part = "body" /\ result' = 0
                  /\ Len(received) < Len(sent)
                  /\ Len(bytes) < Len(sent[Len(received) + 1])
                  /\ bytes = SubSeq(sent[Len(received) + 1], 1, Len(bytes))
<1>1. PacketTypes
  BY DEF PacketInv
<1>2. AllFit
  BY <1>1 DEF AllFit, PacketTypes
<1>3. PICK start, S : \E n \in Nat :
        Frames(sent, start, S) /\ Flow(S, n) /\ (AllFit => AtFrame(start, n) \/ Over)
  BY DEF PacketInv
<1>4. PICK n \in Nat :
        Frames(sent, start, S) /\ Flow(S, n) /\ (AtFrame(start, n) \/ Over)
  BY <1>2, <1>3
<1>5. CASE BodyRead
  BY <1>5 DEF BodyRead, Returns
<1>6. CASE EndOfFile
  <2>1. /\ closed /\ pipe = <<>> /\ received' = received /\ Len(bytes) < want
        /\ result' = IF part = "header" THEN -1 ELSE 0
    BY <1>6 DEF EndOfFile, Returns
  <2>2. CASE part = "header"
    BY <2>1, <2>2
  <2>3. CASE part = "body"
    <3>1. AtFrame(start, n)
      BY <1>4, <2>3 DEF Over
    <3> QED
      BY <1>1, <1>4, <2>1, <2>3, <3>1, BodyIsPart
  <2> QED
    BY <2>2, <2>3 DEF PartTypes
<1>7. ~HeaderRead
  <2> SUFFICES ASSUME HeaderRead PROVE FALSE
    OBVIOUS
  <2>1. part = "header" /\ Len(bytes) = want /\ HeaderLength(bytes) < 0
    BY DEF HeaderRead, Reading
  <2>2. Len(bytes) = 2
    BY <1>4, <2>1 DEF AtFrame, Over
  <2>3. bytes[1] \in Byte /\ bytes[2] \in Byte
    <3>1. bytes \in Seq(Byte)
      BY <1>1 DEF PacketTypes
    <3>2. 1 \in 1..Len(bytes) /\ 2 \in 1..Len(bytes)
      BY <2>2
    <3> QED
      BY <3>1, <3>2
  <2>4. Base * bytes[1] >= 0 /\ Base * bytes[1] \in Int
    BY <2>3, PacketAssumption DEF Byte
  <2>5. HeaderLength(bytes) = Base * bytes[1] + bytes[2]
    BY <2>3, PacketAssumption DEF HeaderLength, Char, Byte
  <2> QED
    BY <2>1, <2>3, <2>4, <2>5, PacketAssumption DEF Byte
<1>8. CASE \/ \E packet \in Packets : io_write_packet2(packet)
           \/ \E m \in 1..Capacity : io_write(m) \/ io_read(m)
           \/ Close \/ io_read_packet2
  BY <1>8 DEF io_write_packet2, io_write, io_read, Close, io_read_packet2, Reading, readerVars
<1> QED
  BY <1>5, <1>6, <1>7, <1>8 DEF Next

LEMMA NextPart == PartTypes /\ [Next]_vars => PartTypes'
BY DEF PartTypes, Next, vars, readerVars, io_write_packet2, io_write, io_read, Close,
       io_read_packet2, HeaderRead, BodyRead, EndOfFile, Returns, Reading

(* Where char is unsigned and packets fit, erlm_handle_input_event finds   *)
(* a whole packet in its buffer until the writer closes the pipe, and      *)
(* after that at most a proper part of the next one.                       *)
THEOREM PartsAtEndOnly ==
  ASSUME ~CharSigned
  PROVE  Spec => PartsOnlyAtEnd
<1> DEFINE Step ==
      part # "none" /\ part' = "none"
        /\ (\A j \in DOMAIN sent : j <= Len(received) => Fits(sent[j])) =>
      \/ received' = Append(received, bytes) /\ result' = Len(bytes)
      \/ /\ closed /\ pipe = <<>> /\ received' = received
         /\ \/ part = "header" /\ result' = -1
            \/ /\ part = "body" /\ result' = 0
               /\ Len(received) < Len(sent)
               /\ Len(bytes) < Len(sent[Len(received) + 1])
               /\ bytes = SubSeq(sent[Len(received) + 1], 1, Len(bytes))
<1>1. Init => PacketInv /\ PartTypes
  BY InitPacket DEF Init, PartTypes
<1>2. PacketInv /\ PartTypes /\ [Next]_vars => (PacketInv /\ PartTypes)'
  BY NextPacket, NextPart
<1>3. PacketInv /\ PartTypes /\ [Next]_vars => [Step]_vars
  BY ReturnStep
<1>4. PartsOnlyAtEnd <=> [][Step]_vars
  BY DEF PartsOnlyAtEnd
<1> HIDE DEF Step
<1> QED
  BY <1>1, <1>2, <1>3, <1>4, PTL DEF Spec
=============================================================================
