-------------------------- MODULE StreamQueryProofs --------------------------
(***************************************************************************)
(* A query over a stream, for any query, any bytes a server may have to    *)
(* say, and any way of cutting either into pieces: what goes out is the    *)
(* query, what is returned is the first message of the server.             *)
(***************************************************************************)
EXTENDS StreamQuery, SequenceTheorems, TLAPS

Byte == 0..255

\* A prefix is as long at most, and agrees everywhere.
LEMMA PrefixDef ==
    ASSUME NEW s \in Seq(Byte), NEW t \in Seq(Byte)
    PROVE  IsPrefix(s, t) <=> Len(s) <= Len(t) /\ \A i \in 1..Len(s) : s[i] = t[i]
<1>1. CASE Len(s) <= Len(t)
  <2>1. SubSeq(s, 1, Len(s)) = s
    BY SubSeqFull
  <2>2. /\ SubSeq(t, 1, Len(s)) \in Seq(Byte)
        /\ Len(SubSeq(t, 1, Len(s))) = Len(s)
        /\ \A i \in 1..Len(s) : SubSeq(t, 1, Len(s))[i] = t[i]
    BY <1>1, SubSeqProperties, LenProperties, ElementOfSeq
  <2>3. s = SubSeq(t, 1, Len(s)) <=> \A i \in 1..Len(s) : s[i] = SubSeq(t, 1, Len(s))[i]
    BY <2>2, SeqEqual
  <2> QED
    BY <1>1, <2>1, <2>2, <2>3 DEF IsPrefix
<1>2. CASE ~(Len(s) <= Len(t))
  BY <1>2 DEF IsPrefix
<1> QED
  BY <1>1, <1>2

\* Two bytes are a number below 65536, from which they can be told.
LEMMA TwoBytes ==
    ASSUME NEW a \in Byte, NEW b \in Byte, NEW n, n = 256 * a + b
    PROVE  /\ n \in Nat /\ n <= 65535
           /\ (n \div 256) % 256 = a
           /\ n % 256 = b
<1>1. n \div 256 = a
  BY DEF Byte
<1>2. a % 256 = a
  BY DEF Byte
<1>3. n % 256 = b
  BY DEF Byte
<1>4. n \in Nat /\ n <= 65535
  BY DEF Byte
<1> QED
  BY <1>1, <1>2, <1>3, <1>4

LEMMA ByteOf == ASSUME NEW n \in Nat PROVE n \div 256 \in Nat /\ n % 256 \in Byte
BY DEF Byte

\* The size of a frame is the first two bytes, big-endian (dns_client.cpp, dot_client.cpp).
LEMMA FrameProperties ==
    ASSUME NEW packet \in Seq(Byte)
    PROVE  /\ Frame(packet) \in Seq(Byte)
           /\ Len(Frame(packet)) = 2 + Len(packet)
           /\ Frame(packet)[1] = (Len(packet) \div 256) % 256
           /\ Frame(packet)[2] = Len(packet) % 256
           /\ \A i \in 1..Len(packet) : Frame(packet)[i + 2] = packet[i]
<1> DEFINE high == (Len(packet) \div 256) % 256
           low == Len(packet) % 256
           head == <<high, low>>
<1>1. Len(packet) \in Nat
  BY LenProperties
<1>2. high \in Byte /\ low \in Byte
  BY <1>1, ByteOf
<1>3. Frame(packet) = head \o packet
  BY DEF Frame
<1> HIDE DEF high, low
<1>4. head \in Seq(Byte) /\ Len(head) = 2 /\ head[1] = high /\ head[2] = low
  BY <1>2
<1> HIDE DEF head
<1>5. /\ head \o packet \in Seq(Byte)
      /\ Len(head \o packet) = 2 + Len(packet)
      /\ \A i \in 1..2 + Len(packet) :
            (head \o packet)[i] = IF i <= 2 THEN head[i] ELSE packet[i - 2]
  <2>1. /\ head \o packet \in Seq(Byte)
        /\ Len(head \o packet) = Len(head) + Len(packet)
        /\ \A i \in 1..Len(head) + Len(packet) : (head \o packet)[i] =
              IF i <= Len(head) THEN head[i] ELSE packet[i - Len(head)]
    BY <1>4, ConcatProperties
  <2> QED
    BY <1>4, <2>1
<1>6. \A i \in 1..Len(packet) : (head \o packet)[i + 2] = packet[i]
  BY <1>1, <1>5
<1>7. (head \o packet)[1] = head[1] /\ (head \o packet)[2] = head[2]
  BY <1>1, <1>5
<1> QED
  BY <1>3, <1>5, <1>6, <1>7, <1>4 DEF high, low

\* A message whose size the first two bytes of a stream say is framed there.
LEMMA FrameIsPrefix ==
    ASSUME NEW packet \in Seq(Byte), NEW bytes \in Seq(Byte),
           Len(bytes) >= 2 + Len(packet), U16(bytes) = Len(packet),
           \A i \in 1..Len(packet) : packet[i] = bytes[i + 2]
    PROVE  IsPrefix(Frame(packet), bytes)
<1>1. Len(packet) \in Nat /\ Len(bytes) \in Nat
  BY LenProperties
<1>2. bytes[1] \in Byte /\ bytes[2] \in Byte
  BY <1>1, ElementOfSeq
<1>3. (Len(packet) \div 256) % 256 = bytes[1] /\ Len(packet) % 256 = bytes[2]
  <2> DEFINE a == bytes[1]
             b == bytes[2]
             n == Len(packet)
  <2>1. a \in Byte /\ b \in Byte /\ n = 256 * a + b
    BY <1>2 DEF U16
  <2> HIDE DEF a, b, n
  <2>2. (n \div 256) % 256 = a /\ n % 256 = b
    BY <2>1, TwoBytes
  <2> QED
    BY <2>2 DEF a, b, n
<1>4. ASSUME NEW i \in 1..Len(Frame(packet))
      PROVE  Frame(packet)[i] = bytes[i]
  <2>1. CASE i \in {1, 2}
    <3>1. Frame(packet)[1] = bytes[1] /\ Frame(packet)[2] = bytes[2]
      BY <1>3, FrameProperties
    <3> QED
      BY <2>1, <3>1
  <2>2. CASE i \notin {1, 2}
    <3>1. i - 2 \in 1..Len(packet)
      BY <1>1, <2>2, FrameProperties
    <3>2. Frame(packet)[(i - 2) + 2] = packet[i - 2] /\ packet[i - 2] = bytes[(i - 2) + 2]
      BY <3>1, FrameProperties
    <3> QED
      BY <1>1, <3>1, <3>2
  <2> QED
    BY <2>1, <2>2
<1> QED
  BY <1>1, <1>4, FrameProperties, PrefixDef

\* part is what is in whole, behind the first skip elements of it.
CopiedFrom(part, whole, skip) == \A i \in 1..Len(part) : part[i] = whole[i + skip]

\* What lies between two places of a sequence.
LEMMA Piece ==
    ASSUME NEW whole \in Seq(Byte), NEW a \in Nat, NEW b \in Nat,
           1 <= a, a <= b + 1, b <= Len(whole)
    PROVE  /\ SubSeq(whole, a, b) \in Seq(Byte)
           /\ Len(SubSeq(whole, a, b)) = b - a + 1
           /\ CopiedFrom(SubSeq(whole, a, b), whole, a - 1)
<1> DEFINE piece == SubSeq(whole, a, b)
<1>1. Len(whole) \in Nat /\ \A i \in a..b : whole[i] \in Byte
  BY LenProperties, ElementOfSeq
<1>2. /\ piece \in Seq(Byte)
      /\ Len(piece) = IF a <= b THEN b - a + 1 ELSE 0
      /\ \A i \in 1..b - a + 1 : piece[i] = whole[a + i - 1]
  BY <1>1, SubSeqProperties
<1> HIDE DEF piece
<1>3. Len(piece) = b - a + 1
  BY <1>2
<1>4. CopiedFrom(piece, whole, a - 1)
  <2>1. ASSUME NEW i \in 1..Len(piece) PROVE piece[i] = whole[i + (a - 1)]
    <3>1. a + i - 1 = i + (a - 1) /\ i \in 1..b - a + 1
      BY <1>3
    <3> QED
      BY <1>2, <3>1
  <2> QED
    BY <2>1 DEF CopiedFrom
<1> QED
  BY <1>2, <1>3, <1>4 DEF piece

\* What is appended to a part of a sequence from the rest of it, makes a longer part.
LEMMA Extend ==
    ASSUME NEW whole \in Seq(Byte), NEW part \in Seq(Byte), NEW more \in Seq(Byte),
           NEW skip \in Nat, NEW from \in Nat, from = skip + Len(part),
           CopiedFrom(part, whole, skip), CopiedFrom(more, whole, from)
    PROVE  /\ part \o more \in Seq(Byte)
           /\ Len(part \o more) = Len(part) + Len(more)
           /\ CopiedFrom(part \o more, whole, skip)
<1> DEFINE n == Len(more)
<1>1. Len(part) \in Nat /\ n \in Nat
  BY LenProperties
<1>2. \A i \in 1..n : more[i] = whole[i + from]
  BY DEF CopiedFrom
<1>3. /\ part \o more \in Seq(Byte)
      /\ Len(part \o more) = Len(part) + n
      /\ \A i \in 1..Len(part) + n :
            (part \o more)[i] = IF i <= Len(part) THEN part[i] ELSE more[i - Len(part)]
  BY ConcatProperties
<1> HIDE DEF n
<1>4. ASSUME NEW i \in 1..Len(part) + n
      PROVE  (part \o more)[i] = whole[i + skip]
  <2>1. CASE i <= Len(part)
    BY <1>1, <1>3, <2>1 DEF CopiedFrom
  <2>2. CASE ~(i <= Len(part))
    <3>1. i - Len(part) \in 1..n
      BY <1>1, <2>2
    <3>2. (part \o more)[i] = whole[(i - Len(part)) + from]
      BY <1>2, <1>3, <2>2, <3>1
    <3>3. (i - Len(part)) + from = i + skip
      BY <1>1
    <3> QED
      BY <3>2, <3>3
  <2> QED
    BY <2>1, <2>2
<1> QED
  BY <1>3, <1>4 DEF n, CopiedFrom

\* The first of what is left of a sequence, are those that come next in it.
LEMMA FirstOfRest ==
    ASSUME NEW whole \in Seq(Byte), NEW k \in Nat, k <= Len(whole), NEW n \in Nat,
           LET rest == SubSeq(whole, k + 1, Len(whole)) IN n <= Len(rest)
    PROVE  LET rest == SubSeq(whole, k + 1, Len(whole))
           IN  /\ k + n <= Len(whole)
               /\ SubSeq(rest, 1, n) = SubSeq(whole, k + 1, k + n)
<1> DEFINE rest == SubSeq(whole, k + 1, Len(whole))
           one == SubSeq(rest, 1, n)
           two == SubSeq(whole, k + 1, k + n)
<1>1. Len(whole) \in Nat
  BY LenProperties
<1>2. /\ rest \in Seq(Byte) /\ Len(rest) = Len(whole) - (k + 1) + 1
      /\ CopiedFrom(rest, whole, k + 1 - 1)
  BY <1>1, Piece
<1> HIDE DEF rest
<1>3. Len(rest) = Len(whole) - k /\ CopiedFrom(rest, whole, k)
  BY <1>1, <1>2
<1>4. n <= Len(rest)
  BY DEF rest
<1>5. /\ one \in Seq(Byte) /\ Len(one) = n - 1 + 1 /\ CopiedFrom(one, rest, 1 - 1)
  BY <1>1, <1>2, <1>4, Piece
<1>6. /\ two \in Seq(Byte) /\ Len(two) = k + n - (k + 1) + 1
      /\ CopiedFrom(two, whole, k + 1 - 1)
  BY <1>1, <1>3, <1>4, Piece
<1> HIDE DEF one, two
<1>7. Len(one) = n /\ Len(two) = n /\ CopiedFrom(one, rest, 0) /\ CopiedFrom(two, whole, k)
  BY <1>5, <1>6
<1>8. ASSUME NEW i \in 1..n PROVE one[i] = two[i]
  <2>1. one[i] = rest[i + 0] /\ two[i] = whole[i + k]
    BY <1>7 DEF CopiedFrom
  <2>2. i \in 1..Len(rest)
    BY <1>1, <1>3, <1>4
  <2>3. rest[i] = whole[i + k]
    BY <1>3, <2>2 DEF CopiedFrom
  <2> QED
    BY <2>1, <2>3
<1>9. one = two
  BY <1>5, <1>6, <1>7, <1>8, SeqEqual
<1> QED
  BY <1>1, <1>3, <1>4, <1>9 DEF one, two, rest
-----------------------------------------------------------------------------
(***************************************************************************)
(* The inductive invariant: what is in the buffer is what was read of the  *)
(* stream, from its start or from behind the size; what is sent, sent to a *)
(* server whose certificate passed.                                        *)
(***************************************************************************)
Asking == {"send", "size", "body"}
Reading == {"size", "body"}

Skipped == IF pc = "body" THEN 2 ELSE 0

Bytes == stream \in Seq(Byte)
Secured ==
    /\ secure => trusted
    /\ IsDot /\ pc \in Asking => secure
    /\ IsDot /\ request # << >> => trusted
Asked ==
    /\ IsPrefix(request, Frame(Query))
    /\ pc \in Reading \/ result # Nothing => request = Frame(Query)
BufferIsRead ==
    pc # "end" =>
        /\ result = Nothing
        /\ read = Skipped + Len(buffer)
        /\ CopiedFrom(buffer, stream, Skipped)
SizeIsRead ==
    /\ pc \notin {"body", "end"} => Len(buffer) < 2
    /\ pc \notin {"size", "body", "end"} => buffer = << >>
    /\ pc = "body" => size = U16(stream) /\ Len(buffer) <= size
Framed == result # Nothing => IsPrefix(Frame(result), stream) /\ result # << >>

IInv == TypeOK /\ Bytes /\ Secured /\ Asked /\ BufferIsRead /\ SizeIsRead /\ Framed

\* The parts of the type invariant.
Pc == pc \in {"open", "connect", "select", "handshake", "send", "size", "body", "end"}
Sockets == socket \in {"none", "open", "closed"}
Flags == secure \in BOOLEAN /\ alive \in BOOLEAN /\ trusted \in BOOLEAN
Others ==
    /\ transport \in Transports
    /\ server \in {"listening", "refusing", "absent", "closed", "reset", "gone"}
    /\ arrived \in 0..Len(stream)
Bufs ==
    /\ request \in Seq(0..255) /\ buffer \in Seq(0..255)
    /\ read \in 0..arrived /\ size \in Nat /\ size < 65536
Result == result \in Seq(0..255) \cup {Nothing}

LEMMA TypeParts == TypeOK <=> Pc /\ Sockets /\ Flags /\ Others /\ Bufs /\ Result
BY DEF TypeOK, Pc, Sockets, Flags, Others, Bufs, Result

LEMMA InitInv == Init => IInv
<1> SUFFICES ASSUME Init PROVE IInv
  OBVIOUS
<1>1. stream \in Seq(Byte)
  BY StreamAssumption DEF Init, Byte
<1>2. << >> \in Seq(Byte) /\ Len(<< >>) = 0
  OBVIOUS
<1>3. IsPrefix(<< >>, Frame(Query))
  <2> DEFINE none == << >>
             frame == Frame(Query)
  <2>1. frame \in Seq(Byte) /\ Len(frame) \in Nat
    BY StreamAssumption, FrameProperties, LenProperties DEF Byte
  <2>2. none \in Seq(Byte) /\ Len(none) = 0
    BY <1>2
  <2> HIDE DEF none, frame
  <2>3. Len(none) <= Len(frame) /\ \A i \in 1..Len(none) : none[i] = frame[i]
    BY <2>1, <2>2
  <2>4. IsPrefix(none, frame)
    BY <2>1, <2>2, <2>3, PrefixDef
  <2> QED
    BY <2>4 DEF none, frame
<1>4. CopiedFrom(<< >>, stream, 0)
  BY <1>2 DEF CopiedFrom
<1>5. TypeOK
  <2>1. Len(stream) \in Nat
    BY <1>1, LenProperties
  <2>2. Pc /\ Sockets /\ Flags /\ Result
    BY DEF Init, Pc, Sockets, Flags, Result
  <2>3. Others
    BY <2>1 DEF Init, Others
  <2>4. Bufs
    BY <1>2 DEF Init, Bufs, Byte
  <2> QED
    BY <2>2, <2>3, <2>4, TypeParts
<1>6. Secured /\ Asked
  BY <1>3 DEF Init, Secured, Asked, Asking, Reading
<1>7. BufferIsRead /\ SizeIsRead /\ Framed
  BY <1>2, <1>4 DEF Init, BufferIsRead, SizeIsRead, Framed, Skipped
<1> QED
  BY <1>1, <1>5, <1>6, <1>7 DEF IInv, Bytes

\* A return, with r, or the end of the process.
Leaves(r) ==
    /\ \/ pc' = "end" /\ result' = r
       \/ pc' = pc /\ result' = result
    /\ socket' \in {socket, "closed"} /\ alive' \in {alive, FALSE}

LEMMA EndLeaves == ASSUME NEW r, End(r) PROVE Leaves(r)
BY DEF End, Close, Killed, Leaves

LEMMA FailLeaves == ASSUME Fail PROVE Leaves(Nothing)
BY DEF Fail, Close, Killed, Leaves

(***************************************************************************)
(* The steps of the client that neither send nor read: it goes on to its   *)
(* next call, or leaves with nothing, or with a buffer that is full.       *)
(***************************************************************************)
Advances ==
    /\ pc \notin Reading
    /\ pc' \in {"connect", "select", "handshake", "send"}
    /\ IsDot /\ pc' = "send" => secure'
    /\ result' = result /\ socket' \in {socket, "open"} /\ alive' = alive

Quiet ==
    /\ pc # "end"
    /\ UNCHANGED <<environment, stream, server, arrived, buffers>>
    /\ secure' = secure \/ (secure' = TRUE /\ trusted)
    /\ \/ Advances
       \/ Leaves(Nothing)
       \/ Whole /\ size > 0 /\ Leaves(buffer)

LEMMA QuietSteps ==
    ASSUME Open \/ Connect \/ Select \/ Handshake \/ Broken \/ Return
    PROVE  Quiet
<1> USE EndLeaves, FailLeaves DEF Running, Quiet, Reading
<1>1. CASE Open
  BY <1>1 DEF Open, Advances
<1>2. CASE Connect
  BY <1>2 DEF Connect, Connected, Advances
<1>3. CASE Select
  BY <1>3 DEF Select, Connected, Advances
<1>4. CASE Handshake
  BY <1>4 DEF Handshake, Connected, Advances, Killed, Leaves
<1>5. CASE Broken
  BY <1>5 DEF Broken
<1>6. CASE Return
  BY <1>6 DEF Return
<1> QED
  BY <1>1, <1>2, <1>3, <1>4, <1>5, <1>6

LEMMA TypeFacts == ASSUME IInv PROVE Pc /\ Sockets /\ Flags /\ Others /\ Bufs /\ Result
BY TypeParts DEF IInv

LEMMA QuietInv == ASSUME IInv, Quiet PROVE IInv'
<1>1. /\ UNCHANGED <<transport, trusted, stream, server, arrived, request, read, size, buffer>>
      /\ secure' = secure \/ (secure' = TRUE /\ trusted)
      /\ pc # "end"
  BY DEF Quiet, environment, buffers
<1>2. \/ Advances
      \/ pc' = "end" /\ result' = Nothing
      \/ pc' = "end" /\ Whole /\ size > 0 /\ result' = buffer
      \/ pc' = pc /\ result' = result
  BY DEF Quiet, Leaves
<1>3. result = Nothing
  BY <1>1 DEF IInv, BufferIsRead
<1>4. TypeOK'
  <2>1. Pc'
    BY <1>2, TypeFacts DEF Pc, Advances
  <2>2. Sockets'
    BY TypeFacts DEF Sockets, Advances, Quiet, Leaves
  <2>3. Flags'
    BY <1>1, TypeFacts DEF Flags, Advances, Quiet, Leaves
  <2>4. Others' /\ Bufs'
    BY <1>1, TypeFacts DEF Others, Bufs
  <2>5. Result'
    BY <1>2, <1>3, TypeFacts DEF Result, Advances, Bufs
  <2> QED
    BY <2>1, <2>2, <2>3, <2>4, <2>5 DEF TypeOK, Pc, Sockets, Flags, Others, Bufs, Result
<1>5. Bytes'
  BY <1>1 DEF IInv, Bytes
<1>6. Secured'
  BY <1>1, <1>2, TypeFacts DEF IInv, Pc, Secured, Advances, IsDot, Asking, Reading
<1>7. Asked'
  BY <1>1, <1>2, <1>3 DEF IInv, Asked, Advances, Reading, Whole
<1>8. BufferIsRead'
  BY <1>1, <1>2, <1>3 DEF IInv, BufferIsRead, Advances, Reading, Skipped
<1>9. SizeIsRead'
  BY <1>1, <1>2 DEF IInv, SizeIsRead, Advances, Reading
<1>10. Framed'
  <2>1. CASE result' = Nothing
    BY <2>1 DEF Framed
  <2>2. CASE result' # Nothing
    <3>1. result' = buffer /\ pc = "body" /\ Len(buffer) >= size /\ size > 0
      BY <1>2, <1>3, <2>2 DEF Advances, Whole
    <3>2. /\ buffer \in Seq(Byte) /\ stream \in Seq(Byte)
          /\ Len(buffer) \in Nat /\ Len(stream) \in Nat
          /\ size \in Nat /\ read \in Nat /\ arrived \in Nat
          /\ read <= arrived /\ arrived <= Len(stream)
      BY LenProperties DEF IInv, TypeOK, Bytes, Byte
    <3>3. /\ size = U16(stream) /\ Len(buffer) <= size
          /\ read = 2 + Len(buffer) /\ CopiedFrom(buffer, stream, 2)
      BY <3>1 DEF IInv, SizeIsRead, BufferIsRead, Skipped
    <3>4. Len(buffer) = U16(stream) /\ Len(stream) >= 2 + Len(buffer) /\ Len(buffer) > 0
      BY <3>1, <3>2, <3>3
    <3>5. IsPrefix(Frame(buffer), stream)
      BY <3>2, <3>3, <3>4, FrameIsPrefix DEF CopiedFrom
    <3>6. buffer # << >>
      BY <3>4
    <3> QED
      BY <1>1, <3>1, <3>5, <3>6 DEF Framed
  <2> QED
    BY <2>1, <2>2
<1> QED
  BY <1>4, <1>5, <1>6, <1>7, <1>8, <1>9, <1>10 DEF IInv

LEMMA ArriveInv == ASSUME IInv, Arrive PROVE IInv'
<1>1. /\ UNCHANGED <<transport, trusted, stream, server, pc, socket, secure, request, read, size,
                     buffer, result, alive>>
      /\ arrived' \in arrived + 1..Len(stream)
  BY DEF Arrive, environment, buffers
<1>2. TypeOK'
  <2>1. arrived' \in 0..Len(stream) /\ read' \in 0..arrived'
    BY <1>1, LenProperties DEF IInv, TypeOK, Bytes
  <2> QED
    BY <1>1, <2>1 DEF IInv, TypeOK
<1> QED
  BY <1>1, <1>2 DEF IInv, Bytes, Secured, Asked, BufferIsRead, SizeIsRead, Framed, IsDot,
     Skipped, CopiedFrom, Frame, IsPrefix

LEMMA SendInv == ASSUME IInv, Send PROVE IInv'
<1>1. /\ UNCHANGED <<transport, trusted, stream, server, arrived, secure, read, size, buffer>>
      /\ pc = "send" /\ result = Nothing
  BY DEF Send, environment, IInv, BufferIsRead
<1>2. /\ Frame(Query) \in Seq(Byte) /\ Len(Frame(Query)) \in Nat
      /\ request \in Seq(Byte) /\ Len(request) \in Nat
      /\ Len(request) <= Len(Frame(Query)) /\ CopiedFrom(request, Frame(Query), 0)
      /\ Len(Rest) \in Nat
  <2> DEFINE whole == Frame(Query)
  <2>1. whole \in Seq(Byte) /\ Len(whole) \in Nat
    BY StreamAssumption, FrameProperties, LenProperties DEF Byte
  <2>2. request \in Seq(Byte) /\ Len(request) \in Nat /\ IsPrefix(request, whole)
    BY TypeFacts, LenProperties DEF Bufs, Byte, IInv, Asked
  <2> HIDE DEF whole
  <2>3. Len(request) <= Len(whole) /\ \A i \in 1..Len(request) : request[i] = whole[i]
    BY <2>1, <2>2, PrefixDef
  <2>4. CopiedFrom(request, whole, 0)
    BY <2>2, <2>3 DEF CopiedFrom
  <2>5. Len(SubSeq(whole, Len(request) + 1, Len(whole))) \in Nat
    <3>1. \A i \in Len(request) + 1..Len(whole) : whole[i] \in Byte
      BY <2>1, <2>2, ElementOfSeq
    <3>2. SubSeq(whole, Len(request) + 1, Len(whole)) \in Seq(Byte)
      BY <2>1, <2>2, <3>1, SubSeqProperties
    <3> QED
      BY <3>2, LenProperties
  <2> QED
    BY <2>1, <2>2, <2>3, <2>4, <2>5 DEF whole, Rest
<1>3. PICK n \in Nat :
        /\ n <= Len(Rest)
        /\ request' = IF n = 0 THEN request ELSE request \o SubSeq(Rest, 1, n)
        /\ \/ Leaves(Nothing)
           \/ /\ result' = result /\ socket' = socket /\ alive' = alive
              /\ pc' = IF Len(request') < Len(Frame(Query)) THEN "send" ELSE "size"
  <2>1. CASE /\ server \in {"refusing", "reset", "gone"}
             /\ IF server = "gone" THEN Killed ELSE Fail
             /\ UNCHANGED request
    <3>1. Leaves(Nothing)
      BY <2>1, FailLeaves DEF Killed, Leaves
    <3>2. 0 <= Len(Rest)
      BY <1>2
    <3> QED
      BY <2>1, <3>1, <3>2
  <2>2. CASE \E n \in 1..Len(Rest) :
               /\ request' = request \o SubSeq(Rest, 1, n)
               /\ LET call == IF request = << >> THEN 2 ELSE Len(Rest)
                  IN  IF ~IsDot /\ n < call THEN End(Nothing)
                      ELSE /\ pc' = IF Len(request') < Len(Frame(Query)) THEN "send"
                                                                        ELSE "size"
                           /\ UNCHANGED <<socket, result, alive>>
    <3>1. PICK n \in 1..Len(Rest) :
               /\ request' = request \o SubSeq(Rest, 1, n)
               /\ \/ End(Nothing)
                  \/ /\ pc' = IF Len(request') < Len(Frame(Query)) THEN "send" ELSE "size"
                     /\ UNCHANGED <<socket, result, alive>>
      BY <2>2
    <3>2. n \in Nat /\ n <= Len(Rest) /\ n # 0
      BY <1>2
    <3>3. Leaves(Nothing) \/ ~End(Nothing)
      BY EndLeaves
    <3> QED
      BY <3>1, <3>2, <3>3
  <2> QED
    BY <2>1, <2>2 DEF Send
<1> DEFINE whole == Frame(Query)
<1>4. /\ whole \in Seq(Byte) /\ Len(whole) \in Nat
      /\ Len(request) <= Len(whole) /\ CopiedFrom(request, whole, 0)
      /\ pc' = (IF Len(request') < Len(whole) THEN "send" ELSE "size") \/ Leaves(Nothing)
  BY <1>3, <1>2
<1>5. Rest = SubSeq(whole, Len(request) + 1, Len(whole))
  BY DEF Rest
<1> HIDE DEF whole
<1> DEFINE more == SubSeq(whole, Len(request) + 1, Len(request) + n)
<1>6. /\ n <= Len(whole) - Len(request)
      /\ n # 0 => request' = request \o more
      /\ n = 0 => request' = request
  <2>1. SubSeq(Rest, 1, n) = SubSeq(whole, Len(request) + 1, Len(request) + n)
        /\ Len(request) + n <= Len(whole)
    BY <1>3, <1>2, <1>4, <1>5, FirstOfRest
  <2>2. SubSeq(Rest, 1, n) = more
    BY <2>1
  <2> HIDE DEF more
  <2>3. n <= Len(whole) - Len(request)
    BY <1>2, <1>4, <2>1
  <2>4. request' = IF n = 0 THEN request ELSE request \o more
    BY <1>3, <2>2
  <2> QED
    BY <2>3, <2>4
<1>7. request' \in Seq(Byte) /\ Len(request') <= Len(whole) /\ CopiedFrom(request', whole, 0)
  <2>1. CASE n = 0
    BY <1>2, <1>6, <1>4, <2>1
  <2>2. CASE n # 0
    <3>1. /\ more \in Seq(Byte) /\ Len(more) = Len(request) + n - (Len(request) + 1) + 1
          /\ CopiedFrom(more, whole, Len(request) + 1 - 1)
      BY <1>2, <1>6, <1>4, Piece
    <3> HIDE DEF more
    <3>2. Len(more) = n /\ CopiedFrom(more, whole, Len(request)) /\ Len(request) = 0 + Len(request)
      BY <1>2, <3>1
    <3>3. /\ request \o more \in Seq(Byte) /\ Len(request \o more) = Len(request) + n
          /\ CopiedFrom(request \o more, whole, 0)
      <4>1. \A skip, from \in Nat :
               /\ from = skip + Len(request)
               /\ CopiedFrom(request, whole, skip) /\ CopiedFrom(more, whole, from)
               => /\ request \o more \in Seq(Byte)
                  /\ Len(request \o more) = Len(request) + Len(more)
                  /\ CopiedFrom(request \o more, whole, skip)
        BY <1>2, <1>4, <3>1, Extend
      <4> QED
        BY <1>2, <1>4, <3>1, <3>2, <4>1
    <3>4. Len(request) + n <= Len(whole)
      BY <1>2, <1>6, <1>4
    <3> QED
      BY <1>6, <2>2, <3>3, <3>4
  <2> QED
    BY <2>1, <2>2
<1>8. Len(request') >= Len(whole) => request' = whole
  <2>1. Len(request') \in Nat
    BY <1>7, LenProperties
  <2>2. ASSUME Len(request') >= Len(whole) PROVE request' = whole
    <3>1. Len(request') = Len(whole) /\ \A i \in 1..Len(request') : request'[i] = whole[i]
      BY <1>4, <1>7, <2>1, <2>2 DEF CopiedFrom
    <3> QED
      BY <1>4, <1>7, <3>1, SeqEqual
  <2> QED
    BY <2>2
<1>9. IsPrefix(request', whole)
  <2>1. Len(request') \in Nat /\ \A i \in 1..Len(request') : request'[i] = whole[i]
    BY <1>7, LenProperties DEF CopiedFrom
  <2> QED
    BY <1>4, <1>7, <2>1, PrefixDef
<1>10. \/ result' = Nothing /\ pc' = "end"
       \/ result' = Nothing /\ pc' = "send"
       \/ result' = Nothing /\ pc' = "size" /\ request' = whole
  <2>1. Len(request') \in Nat
    BY <1>7, LenProperties
  <2>2. CASE Leaves(Nothing)
    BY <1>1, <2>2 DEF Leaves
  <2>3. CASE ~Leaves(Nothing)
    <3>1. result' = Nothing /\ pc' = IF Len(request') < Len(whole) THEN "send" ELSE "size"
      BY <1>1, <1>3, <1>4, <2>3
    <3>2. Len(request') < Len(whole) \/ Len(request') >= Len(whole)
      BY <1>4, <2>1
    <3> QED
      BY <1>8, <3>1, <3>2
  <2> QED
    BY <2>2, <2>3
<1>11. TypeOK'
  <2>1. Pc' /\ Result'
    BY <1>10 DEF Pc, Result
  <2>2. Sockets' /\ Flags'
    BY <1>1, <1>3, TypeFacts DEF Sockets, Flags, Leaves
  <2>3. Others' /\ Bufs'
    BY <1>1, <1>7, TypeFacts DEF Others, Bufs, Byte
  <2> QED
    BY <2>1, <2>2, <2>3 DEF TypeOK, Pc, Sockets, Flags, Others, Bufs, Result
<1>12. Bytes'
  BY <1>1 DEF IInv, Bytes
<1>13. Secured'
  BY <1>1, <1>10 DEF IInv, Secured, IsDot, Asking
<1>14. Asked'
  BY <1>9, <1>10 DEF Asked, Reading, whole
<1>15. BufferIsRead'
  BY <1>1, <1>10 DEF IInv, BufferIsRead, Skipped
<1>16. SizeIsRead'
  BY <1>1, <1>10 DEF IInv, SizeIsRead
<1>17. Framed'
  BY <1>10 DEF Framed
<1> QED
  BY <1>11, <1>12, <1>13, <1>14, <1>15, <1>16, <1>17 DEF IInv

LEMMA ReadInv == ASSUME IInv, Read PROVE IInv'
<1>1. /\ UNCHANGED <<transport, trusted, stream, server, arrived, socket, secure, request,
                     result, alive>>
      /\ pc \in Reading
  BY DEF Read, environment, Reading
<1>2. PICK n \in 1..Wanted :
        LET filled == buffer \o SubSeq(stream, read + 1, read + n)
        IN  /\ n <= Ready
            /\ read' = read + n
            /\ \/ /\ pc = "size" /\ Len(filled) = 2
                  /\ pc' = "body" /\ size' = U16(filled) /\ buffer' = << >>
               \/ /\ pc = "body" \/ (pc = "size" /\ IsDot /\ Len(filled) = 1)
                  /\ buffer' = filled /\ UNCHANGED <<pc, size>>
  BY DEF Read
<1> DEFINE filled == buffer \o SubSeq(stream, read + 1, read + n)
<1>3. /\ buffer \in Seq(Byte) /\ stream \in Seq(Byte)
      /\ Len(buffer) \in Nat /\ Len(stream) \in Nat /\ Skipped \in {0, 2}
      /\ read \in Nat /\ arrived \in Nat /\ read <= arrived /\ arrived <= Len(stream)
      /\ size \in Nat /\ size < 65536
  BY TypeFacts, LenProperties DEF IInv, Bufs, Others, Bytes, Byte, Skipped
<1>4. read = Skipped + Len(buffer) /\ CopiedFrom(buffer, stream, Skipped) /\ result = Nothing
  BY <1>1 DEF IInv, BufferIsRead, Reading
<1>5. n \in Nat /\ n > 0 /\ read + n <= arrived
  BY <1>2, <1>3, <1>4 DEF Ready, Wanted
<1>6. /\ filled \in Seq(Byte) /\ Len(filled) = Len(buffer) + n
      /\ CopiedFrom(filled, stream, Skipped)
  <2> DEFINE more == SubSeq(stream, read + 1, read + n)
  <2>1. /\ more \in Seq(Byte) /\ Len(more) = read + n - (read + 1) + 1
        /\ CopiedFrom(more, stream, read + 1 - 1)
    BY <1>3, <1>5, Piece
  <2> HIDE DEF more
  <2>2. Len(more) = n /\ CopiedFrom(more, stream, read) /\ Skipped \in Nat
    BY <1>3, <1>5, <2>1
  <2>3. /\ buffer \o more \in Seq(Byte) /\ Len(buffer \o more) = Len(buffer) + n
        /\ CopiedFrom(buffer \o more, stream, Skipped)
    <3>1. \A skip, from \in Nat :
             /\ from = skip + Len(buffer)
             /\ CopiedFrom(buffer, stream, skip) /\ CopiedFrom(more, stream, from)
             => /\ buffer \o more \in Seq(Byte)
                /\ Len(buffer \o more) = Len(buffer) + Len(more)
                /\ CopiedFrom(buffer \o more, stream, skip)
      <4>1. buffer \in Seq(Byte) /\ stream \in Seq(Byte) /\ more \in Seq(Byte)
        BY <1>3, <2>1
      <4> QED
        BY <4>1, Extend
    <3>2. /\ read = Skipped + Len(buffer) /\ read \in Nat /\ Skipped \in Nat
          /\ CopiedFrom(buffer, stream, Skipped) /\ CopiedFrom(more, stream, read)
      BY <1>3, <1>4, <2>2
    <3> QED
      BY <2>2, <3>1, <3>2
  <2> QED
    BY <2>3 DEF more
<1> HIDE DEF filled
<1>7. CASE pc = "size" /\ Len(filled) = 2 /\ pc' = "body" /\ size' = U16(filled) /\ buffer' = << >>
  <2>1. Skipped = 0
    BY <1>7 DEF Skipped
  <2>2. read + n = 2
    <3>1. Len(filled) = 2
      BY <1>7
    <3> QED
      <4>1. Len(buffer) + n = 2
        BY <1>6, <3>1
      <4>2. read = Len(buffer)
        BY <1>3, <1>4, <2>1
      <4> QED
        BY <4>1, <4>2
  <2>3. filled[1] = stream[1] /\ filled[2] = stream[2] /\ stream[1] \in Byte /\ stream[2] \in Byte
    <3>1. filled[1] = stream[1 + 0] /\ filled[2] = stream[2 + 0]
      <4>1. \A i \in 1..2 : filled[i] = stream[i + 0]
        BY <1>6, <1>7, <2>1 DEF CopiedFrom
      <4> QED
        BY <4>1
    <3>2. Len(stream) >= 2
      BY <1>3, <1>5, <2>2
    <3> QED
      BY <1>3, <3>1, <3>2, ElementOfSeq
  <2>4. size' = U16(stream) /\ size' \in Nat /\ size' < 65536
    <3> DEFINE a == stream[1]
               b == stream[2]
    <3>1. size' = 256 * a + b /\ U16(stream) = 256 * a + b
      BY <1>7, <2>3 DEF U16
    <3>2. a \in Byte /\ b \in Byte
      BY <2>3
    <3> HIDE DEF a, b
    <3> QED
      BY <3>1, <3>2 DEF Byte
  <2>5. buffer' \in Seq(Byte) /\ Len(buffer') = 0
    BY <1>7
  <2>6. TypeOK'
    <3>1. Pc' /\ Sockets' /\ Flags' /\ Result'
      BY <1>1, <1>7, TypeFacts DEF Pc, Sockets, Flags, Result
    <3>2. Others'
      BY <1>1, TypeFacts DEF Others
    <3>3. Bufs'
      BY <1>1, <1>2, <1>3, <1>5, <2>4, <2>5, TypeFacts DEF Bufs, Byte
    <3> QED
      BY <3>1, <3>2, <3>3 DEF TypeOK, Pc, Sockets, Flags, Others, Bufs, Result
  <2>7. Bytes' /\ Secured' /\ Asked'
    BY <1>1, <1>7 DEF IInv, Bytes, Secured, Asked, IsDot, Asking, Reading
  <2>8. BufferIsRead'
    BY <1>1, <1>2, <1>4, <1>7, <2>2, <2>5 DEF BufferIsRead, Skipped, CopiedFrom
  <2>9. SizeIsRead'
    BY <1>1, <1>7, <2>4, <2>5 DEF SizeIsRead, U16
  <2>10. Framed'
    BY <1>1, <1>4 DEF Framed
  <2> QED
    BY <2>6, <2>7, <2>8, <2>9, <2>10 DEF IInv
<1>8. CASE /\ pc = "body" \/ (pc = "size" /\ IsDot /\ Len(filled) = 1)
           /\ buffer' = filled /\ UNCHANGED <<pc, size>>
  <2>1. TypeOK'
    <3>1. Pc' /\ Sockets' /\ Flags' /\ Result'
      BY <1>1, <1>8, TypeFacts DEF Pc, Sockets, Flags, Result
    <3>2. Others'
      BY <1>1, TypeFacts DEF Others
    <3>3. Bufs'
      BY <1>1, <1>2, <1>3, <1>5, <1>6, <1>8, TypeFacts DEF Bufs, Byte
    <3> QED
      BY <3>1, <3>2, <3>3 DEF TypeOK, Pc, Sockets, Flags, Others, Bufs, Result
  <2>2. Bytes' /\ Secured' /\ Asked'
    BY <1>1, <1>8 DEF IInv, Bytes, Secured, Asked, IsDot, Asking, Reading
  <2>3. BufferIsRead'
    BY <1>1, <1>2, <1>3, <1>4, <1>6, <1>8 DEF BufferIsRead, Skipped
  <2>4. SizeIsRead'
    <3>1. pc = "body" => Len(filled) <= size
      BY <1>2, <1>3, <1>6 DEF Wanted
    <3>2. pc = "body" => size = U16(stream)
      BY DEF IInv, SizeIsRead
    <3> QED
      BY <1>1, <1>8, <3>1, <3>2 DEF SizeIsRead, U16, Reading
  <2>5. Framed'
    BY <1>1, <1>4 DEF Framed
  <2> QED
    BY <2>1, <2>2, <2>3, <2>4, <2>5 DEF IInv
<1> QED
  BY <1>2, <1>7, <1>8 DEF filled

LEMMA GoAwayInv == ASSUME IInv, GoAway PROVE IInv'
<1>1. /\ UNCHANGED <<transport, trusted, arrived, pc, socket, secure, request, read, size,
                     buffer, result, alive>>
      /\ stream' = SubSeq(stream, 1, arrived)
      /\ server' \in {"closed", "reset", "gone"}
      /\ pc \in {"handshake", "send", "size", "body"}
  BY DEF GoAway, environment, buffers
<1>2. /\ buffer \in Seq(Byte) /\ stream \in Seq(Byte)
      /\ Len(buffer) \in Nat /\ Len(stream) \in Nat /\ Skipped \in {0, 2}
      /\ read \in Nat /\ arrived \in Nat /\ read <= arrived /\ arrived <= Len(stream)
  BY TypeFacts, LenProperties DEF IInv, Bufs, Others, Bytes, Byte, Skipped
<1>3. /\ stream' \in Seq(Byte) /\ Len(stream') = arrived
      /\ \A i \in 1..arrived : stream'[i] = stream[i]
  BY <1>1, <1>2, SubSeqProperties, ElementOfSeq
<1>4. read = Skipped + Len(buffer) /\ CopiedFrom(buffer, stream, Skipped) /\ result = Nothing
  BY <1>1 DEF IInv, BufferIsRead
<1>5. TypeOK'
  <2>1. Pc' /\ Sockets' /\ Flags'
    BY <1>1, TypeFacts DEF Pc, Sockets, Flags
  <2>2. Others'
    BY <1>1, <1>2, <1>3, TypeFacts DEF Others
  <2>3. Bufs' /\ Result'
    BY <1>1, TypeFacts DEF Bufs, Result
  <2> QED
    BY <2>1, <2>2, <2>3 DEF TypeOK, Pc, Sockets, Flags, Others, Bufs, Result
<1>6. Bytes'
  BY <1>3 DEF Bytes
<1>7. Secured' /\ Asked'
  BY <1>1 DEF IInv, Secured, Asked, IsDot, Asking, Reading
<1>8. CopiedFrom(buffer, stream', Skipped)
  BY <1>2, <1>3, <1>4 DEF CopiedFrom
<1>9. BufferIsRead'
  BY <1>1, <1>4, <1>8 DEF BufferIsRead, Skipped
<1>10. SizeIsRead'
  <2>1. pc = "body" => U16(stream') = U16(stream)
    <3>1. pc = "body" => arrived >= 2
      BY <1>2, <1>4 DEF Skipped
    <3> QED
      BY <1>2, <1>3, <3>1 DEF U16
  <2> QED
    BY <1>1, <2>1 DEF IInv, SizeIsRead
<1>11. Framed'
  BY <1>1, <1>4 DEF Framed
<1> QED
  BY <1>5, <1>6, <1>7, <1>9, <1>10, <1>11 DEF IInv

LEMMA Invariance == Spec => []IInv
<1>1. ASSUME IInv, [Next]_vars PROVE IInv'
  <2>1. CASE Quiet
    BY <2>1, <1>1, QuietInv
  <2>2. CASE Arrive
    BY <2>2, <1>1, ArriveInv
  <2>3. CASE Send
    BY <2>3, <1>1, SendInv
  <2>4. CASE Read
    BY <2>4, <1>1, ReadInv
  <2>5. CASE GoAway
    BY <2>5, <1>1, GoAwayInv
  <2>6. CASE UNCHANGED vars
    <3>1. UNCHANGED <<transport, trusted, stream, server, arrived, pc, socket, secure,
                      request, read, size, buffer, result, alive>>
      BY <2>6 DEF vars, environment, buffers
    <3> QED
      BY <3>1, <1>1 DEF IInv, TypeOK, Bytes, Secured, Asked, BufferIsRead, SizeIsRead,
         Framed, IsDot, Skipped
  <2> QED
    BY <1>1, <2>1, <2>2, <2>3, <2>4, <2>5, <2>6, QuietSteps DEF Next, Client
<1> QED
  BY <1>1, InitInv, PTL DEF Spec
-----------------------------------------------------------------------------
\* Every variable has a value of its kind: no read or size leaves what has arrived.
THEOREM StreamTypeCorrect == Spec => []TypeOK
<1>1. IInv => TypeOK
  BY DEF IInv
<1> QED
  BY <1>1, Invariance, PTL

\* Whatever each call of send takes, the request is the query behind its size, whole
\* when an answer is taken, and goes over TLS to a server whose certificate passed only
\* (DOTClient::sendQuery, DNSClient::queryTcp).
THEOREM RequestFramedTheorem == Spec => []RequestIsFramed
<1>1. IInv => RequestIsFramed
  BY DEF IInv, Asked, Secured, RequestIsFramed
<1> QED
  BY <1>1, Invariance, PTL

\* Whatever the server says, and however it arrives, what is returned is the first
\* message it framed, all of it (DOTClient::receiveResponse, DNSClient::queryTcp).
THEOREM ResultFramedTheorem == Spec => []ResultIsFramed
<1>1. IInv => ResultIsFramed
  BY DEF IInv, SizeIsRead, Framed, ResultIsFramed
<1> QED
  BY <1>1, Invariance, PTL
=============================================================================
