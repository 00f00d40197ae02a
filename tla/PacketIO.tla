------------------------------ MODULE PacketIO ------------------------------
(***************************************************************************)
(* Packets with a header of two bytes over a pipe (src/src/io.c): a writer *)
(* in io_write_packet2, a reader in io_read_packet2, and short reads and   *)
(* writes in between.  Erlang's end of the port ({packet, 2}) does what    *)
(* the code here does when bytes are unsigned.                             *)
(***************************************************************************)
EXTENDS Integers, Sequences

CONSTANTS
  Base,       \* the values of a byte are 0..Base-1 (256 in the code)
  CharSigned, \* whether the compiler's char is signed, as on x86
  Packets,    \* the packets sent, sequences of bytes
  MaxPackets, \* how many are sent
  Capacity    \* the bytes the pipe holds

ASSUME PacketAssumption ==
  /\ Base \in Nat /\ Base > 1
  /\ CharSigned \in BOOLEAN
  /\ Packets \subseteq Seq(0..Base - 1)
  /\ MaxPackets \in Nat /\ Capacity \in Nat \ {0}

VARIABLES
  sent,     \* history: the packets given to io_write_packet2
  todo,     \* the bytes of the last one that are not written yet
  pipe,     \* the bytes in the pipe
  closed,   \* the writer has closed the pipe, or died
  part,     \* what io_read_packet2 reads: "none", "header" or "body"
  want,     \* the length io_read was asked for
  bytes,    \* what it got so far
  result,   \* what io_read_packet2 returned last
  received  \* history: the packets it read completely

writerVars == <<sent, todo, closed>>
readerVars == <<part, want, bytes, result, received>>
vars == <<writerVars, pipe, readerVars>>

-----------------------------------------------------------------------------
(* A header byte as the code reads it, through a pointer to char.          *)
Char(b) == IF CharSigned /\ 2 * b >= Base THEN b - Base ELSE b

(* Mutant: the bytes of the header swapped.                                *)
LittleEndian(length) == <<length % Base, (length \div Base) % Base>>

Header(length) == <<(length \div Base) % Base, length % Base>>

(* buffer[0] << 8 | buffer[1], with both read as char: the sign bits of a  *)
(* negative low byte cover the high byte.                                  *)
HeaderLength(h) ==
  IF Char(h[2]) < 0 THEN Char(h[2]) ELSE Base * Char(h[1]) + h[2]

-----------------------------------------------------------------------------
Init ==
  /\ sent = <<>> /\ todo = <<>> /\ pipe = <<>> /\ closed = FALSE
  /\ part = "none" /\ want = 0 /\ bytes = <<>> /\ result = 0 /\ received = <<>>

io_write_packet2(packet) ==
  /\ todo = <<>> /\ ~closed /\ Len(sent) < MaxPackets
  /\ sent' = Append(sent, packet)
  /\ todo' = Header(Len(packet)) \o packet
  /\ UNCHANGED <<pipe, closed, readerVars>>

(* write() takes as many bytes as it likes and the pipe has room for.      *)
io_write(n) ==
  /\ ~closed
  /\ n <= Len(todo) /\ Len(pipe) + n <= Capacity
  /\ pipe' = pipe \o SubSeq(todo, 1, n)
  /\ todo' = SubSeq(todo, n + 1, Len(todo))
  /\ UNCHANGED <<sent, closed, readerVars>>

Close ==
  /\ ~closed
  /\ closed' = TRUE
  /\ UNCHANGED <<sent, todo, pipe, readerVars>>

(* io_read is called for a part of the packet.                             *)
Reading(p, length) == part' = p /\ want' = length /\ bytes' = <<>>

(* io_read_packet2 returns; bytes are at the beginning of its buffer.      *)
Returns(value) == Reading("none", 0) /\ result' = value

io_read_packet2 ==
  /\ part = "none"
  /\ Reading("header", 2)
  /\ UNCHANGED <<writerVars, pipe, result, received>>

(* Mutant: a single read; half a header is given up.                       *)
ReadOnce(n) ==
  /\ part # "none" /\ Len(bytes) + n <= want /\ n <= Len(pipe)
  /\ pipe' = SubSeq(pipe, n + 1, Len(pipe))
  /\ IF part = "header" /\ Len(bytes) + n < want
     THEN Returns(-1)
     ELSE /\ bytes' = bytes \o SubSeq(pipe, 1, n)
          /\ want' = Len(bytes')
          /\ UNCHANGED <<part, result>>
  /\ UNCHANGED <<writerVars, received>>

(* read() returns some of the bytes that are there, and blocks while there *)
(* are none.                                                               *)
io_read(n) ==
  /\ part # "none" /\ Len(bytes) + n <= want /\ n <= Len(pipe)
  /\ pipe' = SubSeq(pipe, n + 1, Len(pipe))
  /\ bytes' = bytes \o SubSeq(pipe, 1, n)
  /\ UNCHANGED <<writerVars, part, want, result, received>>

(* A header whose length is negative makes the read of the body fail.      *)
HeaderRead ==
  /\ part = "header" /\ Len(bytes) = want
  /\ IF HeaderLength(bytes) < 0
     THEN Returns(-1)
     ELSE Reading("body", HeaderLength(bytes)) /\ UNCHANGED result
  /\ UNCHANGED <<writerVars, pipe, received>>

BodyRead ==
  /\ part = "body" /\ Len(bytes) = want
  /\ received' = Append(received, bytes)
  /\ Returns(Len(bytes))
  /\ UNCHANGED <<writerVars, pipe>>

(* Mutant: io_read returns what it got.                                    *)
GotReturned ==
  /\ part # "none" /\ Len(bytes) < want /\ pipe = <<>> /\ closed
  /\ Returns(IF part = "header" THEN -1 ELSE Len(bytes))
  /\ UNCHANGED <<writerVars, pipe, received>>

(* read() returns 0 and so does io_read, which is not the 2 a header has,  *)
(* but is the length of an empty body.  The part that was read stays in    *)
(* the buffer.                                                             *)
EndOfFile ==
  /\ part # "none" /\ Len(bytes) < want /\ pipe = <<>> /\ closed
  /\ Returns(IF part = "header" THEN -1 ELSE 0)
  /\ UNCHANGED <<writerVars, pipe, received>>

Next ==
  \/ \E packet \in Packets : io_write_packet2(packet)
  \/ \E n \in 1..Capacity : io_write(n) \/ io_read(n)
  \/ Close
  \/ io_read_packet2 \/ HeaderRead \/ BodyRead \/ EndOfFile

Spec == Init /\ [][Next]_vars

(* Both ends keep calling, and neither read nor write takes forever.       *)
FairSpec ==
  /\ Spec
  /\ WF_vars(\E n \in 1..Capacity : io_write(n))
  /\ WF_vars(io_read_packet2)
  /\ WF_vars(HeaderRead \/ BodyRead \/ \E n \in 1..Capacity : io_read(n))

-----------------------------------------------------------------------------
(* The header can carry the length of the packet.                          *)
Fits(packet) == Len(packet) < Base * Base

(* The packets received are the packets sent, complete and in order,       *)
(* however reads and writes are cut, and even if the writer stops in the   *)
(* middle of a packet.  The first packet whose length the header can not   *)
(* carry is cut to its length modulo the range of the header, and nothing  *)
(* is said of what comes after it.                                         *)
FramesIntact ==
  \A i \in DOMAIN received :
    (\A j \in DOMAIN sent : j < i => Fits(sent[j])) =>
      /\ i \in DOMAIN sent
      /\ received[i] = SubSeq(sent[i], 1, Len(sent[i]) % (Base * Base))

(* erlm_handle_input_event decodes what is in the buffer, whatever         *)
(* io_read_packet2 returns.  As long as the writer keeps the pipe open and *)
(* packets fit, that is a whole packet.  When it stops in the middle of a  *)
(* body, the buffer begins with a proper part of the next packet, and the  *)
(* result is 0, which it is for an empty packet, too.                      *)
PartsOnlyAtEnd ==
  [][part # "none" /\ part' = "none"
       /\ (\A j \in DOMAIN sent : j <= Len(received) => Fits(sent[j])) =>
       \/ received' = Append(received, bytes) /\ result' = Len(bytes)
       \/ /\ closed /\ pipe = <<>> /\ received' = received
          /\ \/ part = "header" /\ result' = -1
             \/ /\ part = "body" /\ result' = 0
                /\ Len(received) < Len(sent)
                /\ Len(bytes) < Len(sent[Len(received) + 1])
                /\ bytes = SubSeq(sent[Len(received) + 1], 1, Len(bytes))]_vars

(* Unless the writer closes the pipe, every packet gets through, as long   *)
(* as all of them fit.                                                     *)
SentIsReceived ==
  \A n \in 1..MaxPackets :
    Len(sent) = n ~>
      \/ closed
      \/ Len(received) >= n
      \/ \E i \in DOMAIN sent : ~Fits(sent[i])
=============================================================================
