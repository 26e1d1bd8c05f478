-------------------------- MODULE DnsMessageProofs --------------------------
(***************************************************************************)
(* What holds of every packet DnsMessage parses or builds, of any length   *)
(* and with any bytes: its type, records that lie inside the packet one    *)
(* after the other, decoders that stay inside their record, and names that *)
(* are those the format spells.  Then: of every message that is built,     *)
(* what is found by who parses it.                                         *)
(***************************************************************************)
EXTENDS DnsMessage, SequenceTheorems, FiniteSetTheorems, WellFoundedInduction, TLAPS

\* Numbers of 8 and of 16 bits.
LEMMA ByteRange == \A n : n \in Byte <=> n \in Nat /\ n < 256
BY DEF Byte

LEMMA WordRange == \A n : n \in Word <=> n \in Nat /\ n < 65536
BY DEF Word

\* A set of numbers has a least one: what stands for induction here.
LEMMA LeastNat ==
    ASSUME NEW T \in SUBSET Nat, T # {}
    PROVE  \E n \in T : \A m \in T : n <= m
<1> DEFINE R == {ss \in Nat \X Nat : ss[1] < ss[2]}
<1>1. IsWellFoundedOn(R, Nat)
    BY NatLessThanWellFounded DEF OpToRel
<1>2. \A m, n \in Nat : m < n => <<m, n>> \in R
    OBVIOUS
<1> HIDE DEF R
<1>3. PICK n \in T : \A m \in T : ~(<<m, n>> \in R)
    BY <1>1, WFMin
<1>4. \A m \in T : ~(m < n) /\ m \in Nat /\ n \in Nat
    BY <1>2, <1>3
<1> QED
    BY <1>3, <1>4

\* What is read of a string inside it.
LEMMA AtType ==
    ASSUME NEW b \in Strings, NEW i \in Nat, i < Len(b)
    PROVE  At(b, i) \in Byte
BY DEF Strings, At

LEMMA U16Type ==
    ASSUME NEW b \in Strings, NEW i \in Nat, i + 2 <= Len(b)
    PROVE  U16(b, i) \in Word
<1>1. At(b, i) \in Byte /\ At(b, i + 1) \in Byte
    <2>1. i + 1 \in Nat /\ i < Len(b) /\ i + 1 < Len(b)
        BY DEF Strings
    <2> QED
        BY <2>1, AtType
<1>2. 256 * At(b, i) + At(b, i + 1) \in Nat /\ 256 * At(b, i) + At(b, i + 1) < 65536
    BY <1>1, ByteRange
<1> QED
    BY <1>2, WordRange DEF U16

LEMMA BytesType ==
    ASSUME NEW b \in Strings, NEW i \in Nat, NEW n \in Nat, i + n <= Len(b)
    PROVE  /\ Bytes(b, i, n) \in Strings /\ Len(Bytes(b, i, n)) = n
           /\ \A k \in 0..n - 1 : At(Bytes(b, i, n), k) = At(b, i + k)
<1>1. /\ Len(b) \in Nat /\ i + 1 \in 1..Len(b) + 1 /\ i + n \in i..Len(b)
    BY DEF Strings
<1>2. SubSeq(b, i + 1, i + n) \in Seq(Byte) /\ Len(SubSeq(b, i + 1, i + n)) = n
    BY <1>1 DEF Strings
<1>3. \A k \in 0..n - 1 : SubSeq(b, i + 1, i + n)[k + 1] = b[i + k + 1]
    BY <1>1 DEF Strings
<1> QED
    BY <1>2, <1>3 DEF Bytes, At, Strings

-----------------------------------------------------------------------------
\* buildQuery writes bytes.

LEMMA LabelEndDef ==
    ASSUME NEW name \in Strings, NEW i \in 0..Len(name)
    PROVE  /\ LabelEnd(name, i) \in i..Len(name)
           /\ LabelEnd(name, i) = Len(name) \/ At(name, LabelEnd(name, i)) = Dot
           /\ \A j \in i..LabelEnd(name, i) - 1 : At(name, j) # Dot
<1> DEFINE Ends == {e \in i..Len(name) : e = Len(name) \/ At(name, e) = Dot}
<1>1. Len(name) \in Nat
    BY DEF Strings
<1>2. Ends \in SUBSET Nat /\ Len(name) \in Ends
    BY <1>1
<1>3. PICK e \in Ends : \A j \in Ends : e <= j
    BY <1>2, LeastNat
<1>4. \A j \in i..e - 1 : At(name, j) # Dot
    BY <1>1, <1>3
<1>5. \E x \in i..Len(name) : /\ x = Len(name) \/ At(name, x) = Dot
                              /\ \A j \in i..x - 1 : At(name, j) # Dot
    BY <1>3, <1>4
<1> QED
    BY <1>5 DEF LabelEnd

LEMMA LabelsType ==
    ASSUME NEW name \in Strings
    PROVE  /\ Labels(name) \in Strings /\ Len(Labels(name)) = Len(name) + 1
           /\ \A k \in 1..Len(name) + 1 :
                Labels(name)[k] = IF StartsLabel(name, k - 1) THEN LabelSize(name, k - 1)
                                  ELSE name[k - 1]
<1>1. Len(name) \in Nat
    BY DEF Strings
<1>2. ASSUME NEW k \in 1..Len(name) + 1
      PROVE  (IF StartsLabel(name, k - 1) THEN LabelSize(name, k - 1)
              ELSE name[k - 1]) \in Byte
    <2>1. CASE StartsLabel(name, k - 1)
        <3>1. k - 1 \in 0..Len(name)
            BY <1>1
        <3>2. LabelEnd(name, k - 1) \in k - 1..Len(name)
            BY <3>1, LabelEndDef
        <3>3. LabelSize(name, k - 1) \in Nat /\ LabelSize(name, k - 1) < 256
            BY <1>1, <3>2 DEF LabelSize
        <3> QED
            BY <2>1, <3>3, ByteRange
    <2>2. CASE ~StartsLabel(name, k - 1)
        <3>1. k # 1
            BY <2>2 DEF StartsLabel
        <3>2. k - 1 \in 1..Len(name)
            BY <1>1, <3>1
        <3> QED
            BY <2>2, <3>2 DEF Strings
    <2> QED
        BY <2>1, <2>2
<1> QED
    BY <1>1, <1>2 DEF Labels, Strings

LEMMA LastLabelDef ==
    ASSUME NEW name \in Strings
    PROVE  /\ LastLabel(name) \in 0..Len(name)
           /\ StartsLabel(name, LastLabel(name))
           /\ LabelEnd(name, LastLabel(name)) = Len(name)
<1> DEFINE Left == {n \in 0..Len(name) : StartsLabel(name, Len(name) - n)}
<1>1. Len(name) \in Nat
    BY DEF Strings
<1>2. Left \in SUBSET Nat /\ Len(name) \in Left
    BY <1>1 DEF StartsLabel
<1>3. PICK n \in Left : \A m \in Left : n <= m
    BY <1>2, LeastNat
<1> DEFINE i == Len(name) - n
<1>4. i \in 0..Len(name) /\ StartsLabel(name, i)
    BY <1>1, <1>3
<1>5. LabelEnd(name, i) = Len(name)
    <2> SUFFICES ASSUME LabelEnd(name, i) # Len(name) PROVE FALSE
        OBVIOUS
    <2> DEFINE e == LabelEnd(name, i)
    <2>1. e \in i..Len(name) - 1 /\ At(name, e) = Dot
        BY <1>1, <1>4, LabelEndDef
    <2> HIDE DEF e
    <2>2. /\ Len(name) - (e + 1) \in 0..Len(name) /\ Len(name) - (e + 1) < n
          /\ Len(name) - (Len(name) - (e + 1)) = e + 1 /\ e + 1 - 1 = e
        BY <1>1, <1>3, <1>4, <2>1
    <2>3. StartsLabel(name, e + 1)
        BY <2>1, <2>2 DEF StartsLabel
    <2>4. Len(name) - (e + 1) \in Left
        BY <2>2, <2>3
    <2> QED
        BY <1>1, <1>3, <2>2, <2>4
<1> QED
    BY <1>4, <1>5 DEF LastLabel

LEMMA AddLabelsType ==
    ASSUME NEW name \in Strings
    PROVE  AddLabels(name) \in Strings
<1>1. Len(name) \in Nat /\ LastLabel(name) \in 0..Len(name)
    BY LastLabelDef DEF Strings
<1>2. SubSeq(Labels(name), 1, LastLabel(name)) \in Strings
    BY <1>1, LabelsType DEF Strings
<1> QED
    BY <1>2, LabelsType DEF AddLabels

LEMMA AddUint16Type ==
    ASSUME NEW v \in Word
    PROVE  AddUint16(v) \in Strings /\ Len(AddUint16(v)) = 2
<1>1. v \div 256 \in Byte /\ v % 256 \in Byte
    <2>1. v \div 256 \in Nat /\ v \div 256 < 256 /\ v % 256 \in Nat /\ v % 256 < 256
        BY WordRange
    <2> QED
        BY <2>1, ByteRange
<1> QED
    BY <1>1 DEF AddUint16, Strings

LEMMA Concat ==
    ASSUME NEW s \in Strings, NEW t \in Strings
    PROVE  /\ Len(s) \in Nat /\ Len(t) \in Nat
           /\ s \o t \in Strings /\ Len(s \o t) = Len(s) + Len(t)
BY DEF Strings

LEMMA SixPairs ==
    ASSUME NEW a \in Strings, NEW b \in Strings, NEW c \in Strings,
           NEW d \in Strings, NEW e \in Strings, NEW f \in Strings,
           Len(a) = 2, Len(b) = 2, Len(c) = 2, Len(d) = 2, Len(e) = 2, Len(f) = 2
    PROVE  /\ a \o b \o c \o d \o e \o f \in Strings
           /\ Len(a \o b \o c \o d \o e \o f) = 12
<1>1. a \o b \in Strings /\ Len(a \o b) = Len(a) + Len(b)
    BY Concat
<1>2. a \o b \o c \in Strings /\ Len(a \o b \o c) = 6
    BY <1>1, Concat
<1>3. a \o b \o c \o d \in Strings /\ Len(a \o b \o c \o d) = 8
    BY <1>2, Concat
<1>4. a \o b \o c \o d \o e \in Strings /\ Len(a \o b \o c \o d \o e) = 10
    BY <1>3, Concat
<1> QED
    BY <1>4, Concat

LEMMA HeaderBytesType ==
    ASSUME NEW h \in Header
    PROVE  HeaderBytes(h) \in Strings /\ Len(HeaderBytes(h)) = 12
<1>1. \A i \in 1..6 : AddUint16(h[i]) \in Strings /\ Len(AddUint16(h[i])) = 2
    BY AddUint16Type DEF Header
<1> QED
    BY <1>1, SixPairs DEF HeaderBytes

LEMMA BuildQueryType ==
    ASSUME NEW h \in Header, NEW q \in Question
    PROVE  BuildQuery(h, q) \in Strings
<1>1. q.name \in Strings /\ q.type \in Word /\ q.class \in Word
    BY DEF Question
<1>2. <<0>> \in Strings
    <2>1. 0 \in Byte
        BY ByteRange
    <2> QED
        BY <2>1 DEF Strings
<1>3. /\ HeaderBytes(h) \in Strings /\ AddLabels(q.name) \in Strings
      /\ AddUint16(q.type) \in Strings /\ AddUint16(q.class) \in Strings
    BY <1>1, HeaderBytesType, AddLabelsType, AddUint16Type
<1> QED
    BY <1>2, <1>3, Concat DEF BuildQuery

-----------------------------------------------------------------------------
\* The pieces of a TXT or an OPT: a recursive function, by induction on the bytes
\* that are left.

LEMMA Induction ==
    ASSUME NEW T, 0 \in T, \A n \in Nat : n \in T => n + 1 \in T
    PROVE  \A n \in Nat : n \in T
<1> SUFFICES ASSUME Nat \ T # {} PROVE FALSE
    OBVIOUS
<1>1. PICK n \in Nat \ T : \A m \in Nat \ T : n <= m
    BY LeastNat
<1>2. n # 0 /\ n - 1 \in Nat /\ n - 1 < n /\ n - 1 + 1 = n
    BY <1>1
<1> QED
    BY <1>1, <1>2

ChunksOf(length) == {c \in [first : Nat, size : Nat] : c.first + c.size <= length}

LEMMA PiecesType ==
    ASSUME NEW rdata \in Strings, NEW head \in Nat, head > 0, NEW size,
           \A i \in Nat : i + head <= Len(rdata) => size[i] \in Nat
    PROVE  Pieces(rdata, head, size) \in Seq(ChunksOf(Len(rdata)))
<1> DEFINE L == Len(rdata)
           Stops(i) == i + head > Len(rdata) \/ i + head + size[i] > Len(rdata)
           After(i) == i + head + size[i]
           Piece(f, i) == IF Stops(i) THEN << >>
                          ELSE <<Chunk(i + head, size[i])>> \o f[After(i)]
           from[i \in Nat] ==
               IF i + head > Len(rdata) \/ i + head + size[i] > Len(rdata) THEN << >>
               ELSE <<Chunk(i + head, size[i])>> \o from[i + head + size[i]]
<1>1. L \in Nat
    BY DEF Strings
<1>2. \A i \in Nat : /\ i >= L => Stops(i)
                     /\ ~Stops(i) => After(i) \in Nat /\ After(i) > i
    BY <1>1
<1>3. \E f : f = [i \in Nat |-> Piece(f, i)]
    <2> HIDE DEF Stops, After
    <2> DEFINE Defined(n) ==
                   \E f : f = [i \in Nat |-> IF i + n >= L THEN Piece(f, i) ELSE << >>]
    <2>1. Defined(0)
        <3> DEFINE f == [i \in Nat |-> << >>]
        <3>1. f = [i \in Nat |-> IF i + 0 >= L THEN Piece(f, i) ELSE << >>]
            BY <1>1, <1>2
        <3> QED
            BY <3>1
    <2>2. ASSUME NEW n \in Nat, Defined(n)
          PROVE  Defined(n + 1)
        <3>1. PICK f : f = [i \in Nat |-> IF i + n >= L THEN Piece(f, i) ELSE << >>]
            BY <2>2
        <3> DEFINE g == [i \in Nat |-> IF i + (n + 1) >= L THEN Piece(f, i) ELSE << >>]
        <3>2. ASSUME NEW i \in Nat, i + (n + 1) >= L
              PROVE  Piece(f, i) = Piece(g, i)
            <4>1. CASE ~Stops(i)
                <5>1. After(i) \in Nat /\ After(i) + n >= L /\ After(i) + (n + 1) >= L
                    BY <1>1, <1>2, <3>2, <4>1
                <5>2. f[After(i)] = Piece(f, After(i)) /\ g[After(i)] = Piece(f, After(i))
                    BY <3>1, <5>1
                <5> QED
                    BY <5>2
            <4> QED
                BY <4>1
        <3>3. g = [i \in Nat |-> IF i + (n + 1) >= L THEN Piece(g, i) ELSE << >>]
            BY <3>2
        <3> HIDE DEF g
        <3> QED
            BY <3>3
    <2> DEFINE Fine == {n \in Nat : Defined(n)}
    <2>3. Defined(L)
        <3> HIDE DEF Defined, L
        <3>1. 0 \in Fine /\ \A n \in Nat : n \in Fine => n + 1 \in Fine
            BY <2>1, <2>2
        <3> HIDE DEF Fine
        <3>2. L \in Fine
            BY <1>1, <3>1, Induction
        <3> QED
            BY <3>2 DEF Fine
    <2>4. PICK f : f = [i \in Nat |-> IF i + L >= L THEN Piece(f, i) ELSE << >>]
        BY <2>3
    <2> HIDE DEF L, Piece
    <2>5. \A i \in Nat : i + L >= L
        BY <1>1
    <2>6. f = [i \in Nat |-> Piece(f, i)]
        BY <2>4, <2>5
    <2> QED
        BY <2>6
<1>4. from = [i \in Nat |-> Piece(from, i)]
    <2> HIDE DEF L
    <2>1. from = CHOOSE f : f = [i \in Nat |-> Piece(f, i)]
        BY DEF from
    <2> QED
        BY <1>3, <2>1
<1>5. Pieces(rdata, head, size) = from[0]
    BY DEF Pieces
<1> HIDE DEF from
<1>6. \A n \in Nat : \A i \in Nat : i + n >= L => from[i] \in Seq(ChunksOf(L))
    <2> DEFINE Right(n) == \A i \in Nat : i + n >= L => from[i] \in Seq(ChunksOf(L))
    <2>1. Right(0)
        BY <1>2, <1>4
    <2>2. ASSUME NEW n \in Nat, Right(n)
          PROVE  Right(n + 1)
        <3> SUFFICES ASSUME NEW i \in Nat, i + (n + 1) >= L
                     PROVE  from[i] \in Seq(ChunksOf(L))
            OBVIOUS
        <3>1. CASE Stops(i)
            BY <1>4, <3>1
        <3>2. CASE ~Stops(i)
            <4>1. from[After(i)] \in Seq(ChunksOf(L))
                BY <1>1, <1>2, <2>2, <3>2
            <4>2. Chunk(i + head, size[i]) \in ChunksOf(L)
                BY <1>1, <3>2 DEF Chunk, ChunksOf
            <4>3. from[i] = <<Chunk(i + head, size[i])>> \o from[After(i)]
                BY <1>4, <3>2
            <4> QED
                BY <4>1, <4>2, <4>3
        <3> QED
            BY <3>1, <3>2
    <2> DEFINE Fine == {n \in Nat : Right(n)}
    <2> HIDE DEF Right
    <2>3. 0 \in Fine /\ \A n \in Nat : n \in Fine => n + 1 \in Fine
        BY <2>1, <2>2
    <2> HIDE DEF Fine
    <2>4. \A n \in Nat : n \in Fine
        BY <2>3, Induction
    <2> QED
        BY <2>4 DEF Fine, Right
<1>7. from[0] \in Seq(ChunksOf(L))
    <2> HIDE DEF L
    <2>1. 0 \in Nat /\ L \in Nat /\ 0 + L >= L
        BY <1>1
    <2> QED
        BY <1>6, <2>1
<1> QED
    BY <1>5, <1>7

-----------------------------------------------------------------------------
\* The invariant.

\* A name of the question or of an owner is read forward from pos until its first
\* pointer; the way back is behind that.
NameIsAhead ==
    pc = "name" /\ call.of # "rdata" =>
        /\ call.of # "none"
        /\ ~call.jumped => pos <= call.pos /\ call.pos <= Len(data)
        /\ call.jumped => pos + 2 <= call.original /\ call.original <= Len(data)

LastEnds(p) ==
    records # << >> =>
        records[Len(records)].at + records[Len(records)].length <= p

\* The record being read begins behind the last one, with its name if there is
\* anything left ...
OwnerIsRead ==
    pc = "record" => /\ LastEnds(rr.first)
                     /\ rr.first <= pos
                     /\ rr.first < pos \/ pos = Len(data)

\* ... and a name in its rdata leaves pos behind it.
RdataIsRead ==
    pc = "name" /\ call.of = "rdata" =>
        /\ LastEnds(rr.first)
        /\ rr.first + 11 <= rr.at /\ rr.at + rr.length = pos
        /\ HasName(rr)

IInv ==
    /\ TypeOK
    /\ NameIsAhead /\ OwnerIsRead /\ RdataIsRead
    /\ RecordsInOrder /\ DecodersStayInside
-----------------------------------------------------------------------------
\* What a step makes of call and rr has their type.

LEMMA NewCall ==
    ASSUME NEW of \in {"question", "owner", "rdata"}, NEW p \in Nat, ReadName(of, p)
    PROVE  /\ call' \in Call /\ pc' = "name" /\ call'.of = of /\ call'.pos = p
           /\ call'.original = p /\ ~call'.jumped /\ call'.steps = 0
           /\ call'.name = << >>
<1>1. << >> \in Strings /\ 0 \in 0..MaxSteps
    BY MessageAssumption DEF Strings
<1>2. call' = [of |-> of, pos |-> p, name |-> << >>, jumped |-> FALSE, original |-> p,
               steps |-> 0]
    BY DEF ReadName, NoCall
<1>3. call' \in Call
    BY <1>1, <1>2 DEF Call
<1>4. ~call'.jumped
    BY <1>2
<1>5. /\ call'.of = of /\ call'.pos = p /\ call'.original = p /\ call'.steps = 0
      /\ call'.name = << >>
    BY <1>2
<1>6. pc' = "name"
    BY DEF ReadName
<1> QED
    BY <1>3, <1>4, <1>5, <1>6

LEMMA NextTurn ==
    ASSUME call \in Call, call.steps < MaxSteps, NEW p \in Nat, NEW jumped \in BOOLEAN,
           NEW original \in Nat, NEW name \in Strings, Turn(p, jumped, original, name)
    PROVE  /\ call' \in Call /\ call'.of = call.of /\ call'.pos = p
           /\ call'.jumped = jumped /\ call'.original = original /\ call'.name = name
           /\ call'.steps = call.steps + 1
<1>1. call.steps + 1 \in 0..MaxSteps
    BY MessageAssumption DEF Call
<1>2. call' = [of |-> call.of, pos |-> p, name |-> name, jumped |-> jumped,
               original |-> original, steps |-> call.steps + 1]
    BY DEF Turn, Call
<1>3. call' \in Call
    BY <1>1, <1>2 DEF Call
<1> QED
    BY <1>2, <1>3

LEMMA ParsedTypes ==
    /\ << >> \in Strings /\ 0 \in Word
    /\ Undecoded \in ParsedValue /\ Undecodable \in ParsedValue
    /\ \A names \in Seq(Strings), chunks \in Seq([first : Nat, size : Nat]) :
          /\ Decoded(names, chunks) \in ParsedValue
          /\ Decoded(names, chunks).names = names /\ Decoded(names, chunks).chunks = chunks
    /\ Undecodable.chunks = << >> /\ Undecoded.chunks = << >>
<1>1. << >> \in Strings /\ 0 \in Word
    BY WordRange DEF Strings
<1>2. << >> \in Seq(Strings) /\ << >> \in Seq([first : Nat, size : Nat])
    OBVIOUS
<1>3. Undecoded \in ParsedValue
    BY <1>2 DEF Undecoded, ParsedValue
<1>4. Undecodable = [ok |-> FALSE, names |-> << >>, chunks |-> << >>]
    BY DEF Undecodable
<1>5. Undecodable \in ParsedValue
    BY <1>2, <1>4 DEF ParsedValue
<1>6. ASSUME NEW names \in Seq(Strings), NEW chunks \in Seq([first : Nat, size : Nat])
      PROVE  /\ Decoded(names, chunks) \in ParsedValue
             /\ Decoded(names, chunks).names = names
             /\ Decoded(names, chunks).chunks = chunks
    BY DEF Decoded, ParsedValue
<1> QED
    BY <1>1, <1>3, <1>4, <1>5, <1>6 DEF Undecoded

LEMMA NewRecord ==
    ASSUME NEW first \in Nat, NEW name \in Strings
    PROVE  LET r == [NoRecord EXCEPT !.first = first, !.name = name]
           IN  r \in Record /\ r.first = first
<1>1. NoRecord \in Record
    BY ParsedTypes DEF NoRecord, Record
<1> HIDE DEF NoRecord
<1>2. ASSUME NEW r \in Record
      PROVE  /\ [r EXCEPT !.first = first] \in Record
             /\ [r EXCEPT !.name = name] \in Record
             /\ [r EXCEPT !.name = name].first = r.first
             /\ [r EXCEPT !.first = first].first = first
    BY DEF Record
<1> QED
    BY <1>1, <1>2

LEMMA KeepParsed ==
    ASSUME NEW r \in Record, NEW parsed \in ParsedValue
    PROVE  LET s == [r EXCEPT !.parsed = parsed]
           IN  /\ s \in Record /\ s.first = r.first /\ s.at = r.at /\ s.length = r.length
               /\ s.type = r.type /\ s.parsed = parsed
<1>1. /\ r.first \in Nat /\ r.name \in Strings /\ r.type \in Word /\ r.class \in Word
      /\ r.ttl \in Word \X Word /\ r.at \in Nat /\ r.length \in Word
      /\ [r EXCEPT !.parsed = parsed] =
          [first |-> r.first, name |-> r.name, type |-> r.type, class |-> r.class,
           ttl |-> r.ttl, at |-> r.at, length |-> r.length, parsed |-> parsed]
    BY DEF Record
<1> QED
    BY <1>1 DEF Record

-----------------------------------------------------------------------------
\* Every step keeps the invariant.

LEMMA DefaultTypes ==
    /\ DefaultHeader \in Header /\ DefaultQuestion \in Question
    /\ NoCall \in Call /\ NoRecord \in Record
<1>1. DefaultHeader \in Header
    <2>1. 0 \in Word /\ 1 \in Word /\ 256 \in Word
        BY WordRange
    <2> QED
        BY <2>1 DEF DefaultHeader, Header
<1>2. DefaultQuestion \in Question
    <2>1. 1 \in Word
        BY WordRange
    <2> QED
        BY <2>1, ParsedTypes DEF DefaultQuestion, Question
<1>3. NoCall \in Call
    <2>1. 0 \in 0..MaxSteps
        BY MessageAssumption
    <2> QED
        BY <2>1, ParsedTypes DEF NoCall, Call
<1>4. NoRecord \in Record
    BY ParsedTypes DEF NoRecord, Record
<1> QED
    BY <1>1, <1>2, <1>3, <1>4

LEMMA ParsingInv ==
    ASSUME NEW b \in Strings, Parsing(b),
           built \in Seq([header : Header, question : Question]), Len(built) <= 1
    PROVE  IInv
<1> USE DEF Parsing
<1>1. TypeOK
    BY DefaultTypes DEF TypeOK
<1>2. RecordsInOrder /\ DecodersStayInside
    BY DEF RecordsInOrder, DecodersStayInside, Strings
<1> QED
    BY <1>1, <1>2 DEF IInv, NameIsAhead, OwnerIsRead, RdataIsRead

LEMMA BuiltType ==
    ASSUME NEW h \in Header, NEW q \in Question
    PROVE  /\ <<[header |-> h, question |-> q]>>
                  \in Seq([header : Header, question : Question])
           /\ Len(<<[header |-> h, question |-> q]>>) = 1
OBVIOUS

LEMMA InitInv == Init => IInv
<1> SUFFICES ASSUME Init PROVE IInv
    OBVIOUS
<1>1. CASE \E b \in Packets : Parsing(b) /\ built = << >>
    BY <1>1, ParsingInv, MessageAssumption
<1>2. ASSUME NEW q \in Questions,
             Parsing(BuildQuery(DefaultHeader,
                                [DefaultQuestion EXCEPT !.name = q.name, !.type = q.type])),
             built = <<[header |-> DefaultHeader,
                        question |-> [DefaultQuestion EXCEPT !.name = q.name,
                                                             !.type = q.type]]>>
      PROVE  IInv
    <2> DEFINE asked == [DefaultQuestion EXCEPT !.name = q.name, !.type = q.type]
    <2>1. q.name \in Strings /\ q.type \in Word
        BY MessageAssumption
    <2>2. asked \in Question
        BY <2>1, DefaultTypes DEF Question
    <2> HIDE DEF asked
    <2>3. BuildQuery(DefaultHeader, asked) \in Strings
        BY <2>2, DefaultTypes, BuildQueryType
    <2>4. Parsing(BuildQuery(DefaultHeader, asked))
          /\ built = <<[header |-> DefaultHeader, question |-> asked]>>
        BY <1>2 DEF asked
    <2> QED
        BY <2>2, <2>3, <2>4, DefaultTypes, BuiltType, ParsingInv
<1> QED
    BY <1>1, <1>2 DEF Init

LEMMA ToNextRecord ==
    ASSUME call \in Call, NEW h \in Header, NEW k \in Nat, NextRecord(h, k),
           pos' \in Nat, pos' <= Len(data)'
    PROVE  /\ call' \in Call /\ pc' \in {"name", "done"}
           /\ pc' = "name" => call'.of = "owner"
           /\ NameIsAhead'
<1>1. CASE ReadName("owner", pos')
    <2>1. /\ call' \in Call /\ pc' = "name" /\ call'.of = "owner" /\ call'.pos = pos'
          /\ ~call'.jumped
        BY <1>1, NewCall
    <2> QED
        BY <2>1 DEF NameIsAhead
<1>2. CASE pc' = "done" /\ UNCHANGED call
    BY <1>2 DEF NameIsAhead
<1> QED
    BY <1>1, <1>2 DEF NextRecord

\* A record that is kept lies behind the last one and before pos.
LEMMA KeepInv ==
    ASSUME IInv, NEW r \in Record, KeepRecord(r),
           UNCHANGED <<data, built, header, question>>,
           pos' \in Nat, pos' <= Len(data),
           r.first + 11 <= r.at, r.at + r.length = pos', LastEnds(r.first),
           r.parsed.chunks \in Seq(ChunksOf(r.length))
    PROVE  IInv'
<1>1. /\ records' = Append(records, r) /\ rr' = r /\ NextRecord(header, Len(records) + 1)
      /\ records \in Seq(Record) /\ header \in Header /\ call \in Call
    BY DEF KeepRecord, IInv, TypeOK
<1>2. /\ call' \in Call /\ pc' \in {"name", "done"} /\ NameIsAhead'
      /\ pc' = "name" => call'.of = "owner"
    BY <1>1, ToNextRecord
<1>3. /\ records' \in Seq(Record) /\ Len(records') = Len(records) + 1
      /\ Len(records) \in Nat
      /\ \A k \in 1..Len(records) : records'[k] = records[k] /\ records[k] \in Record
      /\ records'[Len(records) + 1] = r
    BY <1>1
<1>4. TypeOK'
    BY <1>1, <1>2, <1>3 DEF IInv, TypeOK
<1>5. RecordsInOrder'
    <2> SUFFICES ASSUME NEW k \in 1..Len(records) + 1
                 PROVE  /\ records'[k].first + 11 <= records'[k].at
                        /\ records'[k].at + records'[k].length
                              <= (IF k < Len(records) + 1 THEN records'[k + 1].first
                                  ELSE pos')
        BY <1>3 DEF RecordsInOrder
    <2>1. CASE k = Len(records) + 1
        BY <1>3, <2>1 DEF Record
    <2>2. CASE k = Len(records) /\ k # 0
        <3>1. /\ records'[k] = records[k] /\ records'[k + 1] = r
              /\ records[k].first + 11 <= records[k].at
            BY <1>3, <2>2 DEF IInv, RecordsInOrder
        <3>2. records[k].at + records[k].length <= r.first
            BY <1>3, <2>2 DEF LastEnds
        <3> QED
            BY <2>2, <3>1, <3>2, <1>3
    <2>3. CASE k < Len(records)
        <3>1. k \in 1..Len(records) /\ k + 1 \in 1..Len(records) /\ k \in DOMAIN records
            BY <1>3, <2>3
        <3>2. records'[k] = records[k] /\ records'[k + 1] = records[k + 1]
            BY <1>3, <3>1
        <3>3. /\ records[k].first + 11 <= records[k].at
              /\ records[k].at + records[k].length <= records[k + 1].first
            BY <2>3, <3>1 DEF IInv, RecordsInOrder
        <3> QED
            BY <1>3, <2>3, <3>2, <3>3
    <2> QED
        BY <1>3, <2>1, <2>2, <2>3
<1>6. DecodersStayInside'
    <2> SUFFICES ASSUME NEW k \in 1..Len(records) + 1,
                        NEW c \in DOMAIN records'[k].parsed.chunks
                 PROVE  records'[k].parsed.chunks[c].first
                            + records'[k].parsed.chunks[c].size <= records'[k].length
        BY <1>3 DEF DecodersStayInside
    <2>1. CASE k = Len(records) + 1
        BY <1>3, <2>1 DEF ChunksOf
    <2>2. CASE k \in 1..Len(records)
        <3>1. records'[k] = records[k] /\ k \in DOMAIN records
            BY <1>3, <2>2
        <3> QED
            BY <3>1 DEF IInv, DecodersStayInside
    <2> QED
        BY <1>3, <2>1, <2>2
<1> QED
    BY <1>2, <1>4, <1>5, <1>6 DEF IInv, OwnerIsRead, RdataIsRead

LEMMA RecordsType == TypeOK => Len(records) \in Nat /\ Len(data) \in Nat
BY DEF TypeOK, Strings

\* What RecordsInOrder says of the last record.
LEMMA LastIsBefore == IInv => LastEnds(pos)
<1> SUFFICES ASSUME IInv, records # << >>
             PROVE  records[Len(records)].at + records[Len(records)].length <= pos
    BY DEF LastEnds
<1>1. Len(records) \in DOMAIN records /\ ~(Len(records) < Len(records))
    BY DEF IInv, TypeOK
<1> QED
    BY <1>1 DEF IInv, RecordsInOrder

\* Positions may only grow, as far as the packet goes.
LEMMA OrderKept ==
    ASSUME IInv, UNCHANGED <<data, records>>, pos' \in Nat, pos <= pos', pos' <= Len(data)
    PROVE  RecordsInOrder' /\ DecodersStayInside'
<1>1. DecodersStayInside'
    BY DEF IInv, DecodersStayInside
<1>2. ASSUME NEW k \in DOMAIN records
      PROVE  /\ records[k].first + 11 <= records[k].at
             /\ records[k].at + records[k].length
                   <= (IF k < Len(records) THEN records[k + 1].first ELSE pos')
    <2>1. /\ records[k].first + 11 <= records[k].at
          /\ records[k].at + records[k].length
                   <= (IF k < Len(records) THEN records[k + 1].first ELSE pos)
        BY DEF IInv, RecordsInOrder
    <2>2. records[k] \in Record /\ pos \in Nat
        BY DEF IInv, TypeOK
    <2>3. records[k].at \in Nat /\ records[k].length \in Nat
        BY <2>2, WordRange DEF Record
    <2> QED
        BY <2>1, <2>2, <2>3
<1>3. RecordsInOrder'
    BY <1>2 DEF RecordsInOrder
<1> QED
    BY <1>1, <1>3

\* A step after which no record is being read.
LEMMA NoRecordRead ==
    ASSUME TypeOK', NameIsAhead', RecordsInOrder', DecodersStayInside', pc' # "record",
           pc' = "name" => call'.of # "rdata"
    PROVE  IInv'
BY DEF IInv, OwnerIsRead, RdataIsRead

LEMMA ReadHeaderInv == IInv /\ ReadHeader => IInv'
<1> SUFFICES ASSUME IInv, ReadHeader PROVE IInv'
    OBVIOUS
<1>1. UNCHANGED <<data, built, question, rr>> /\ pc = "header" /\ data \in Strings
    BY DEF ReadHeader, IInv, TypeOK
<1>2. CASE pc' = "error" /\ UNCHANGED <<pos, call, header, records>>
    <2>1. TypeOK'
        BY <1>1, <1>2 DEF IInv, TypeOK
    <2> QED
        BY <1>1, <1>2, <2>1
           DEF IInv, NameIsAhead, OwnerIsRead, RdataIsRead, RecordsInOrder,
               DecodersStayInside
<1>3. CASE /\ ~(Len(data) < 12) /\ pos' = 12 /\ records' = << >>
           /\ header' = [i \in 1..6 |-> U16(data, 2 * (i - 1))]
           /\ IF Questioned(header') THEN ReadName("question", 12)
                                     ELSE NextRecord(header', 0)
    <2>1. Len(data) \in Nat /\ 12 <= Len(data)
        BY <1>1, <1>3 DEF Strings
    <2>2. header' \in Header
        <3>1. ASSUME NEW i \in 1..6
              PROVE  U16(data, 2 * (i - 1)) \in Word
            <4>1. 2 * (i - 1) \in Nat /\ 2 * (i - 1) + 2 <= Len(data)
                BY <2>1
            <4> QED
                BY <1>1, <4>1, U16Type
        <3> QED
            BY <1>3, <3>1 DEF Header
    <2>3. /\ call' \in Call /\ pc' \in {"name", "done"} /\ NameIsAhead'
          /\ pc' = "name" => call'.of # "rdata"
        <3>1. CASE ReadName("question", 12)
            <4>1. /\ call' \in Call /\ pc' = "name" /\ call'.of = "question"
                  /\ call'.pos = 12 /\ ~call'.jumped
                BY <3>1, NewCall
            <4> QED
                BY <1>1, <1>3, <2>1, <4>1 DEF NameIsAhead
        <3>2. CASE NextRecord(header', 0)
            <4>1. call \in Call /\ pos' \in Nat /\ pos' <= Len(data)'
                BY <1>1, <1>3, <2>1 DEF IInv, TypeOK
            <4> QED
                BY <2>2, <3>2, <4>1, ToNextRecord
        <3> QED
            BY <1>3, <3>1, <3>2
    <2>4. pos' \in Nat /\ records' \in Seq(Record) /\ records' = << >> /\ pos' = 12
        BY <1>3
    <2>5. TypeOK'
        BY <1>1, <2>2, <2>3, <2>4 DEF IInv, TypeOK
    <2>6. RecordsInOrder' /\ DecodersStayInside'
        BY <1>1, <2>4, <2>1 DEF RecordsInOrder, DecodersStayInside
    <2> QED
        BY <2>3, <2>5, <2>6, NoRecordRead
<1> QED
    BY <1>2, <1>3 DEF ReadHeader

LEMMA ReadTypeAndClassInv == IInv /\ ReadTypeAndClass => IInv'
<1> SUFFICES ASSUME IInv, ReadTypeAndClass PROVE IInv'
    OBVIOUS
<1>1. /\ UNCHANGED <<data, built, header, records, rr>>
      /\ pc = "type_class" /\ data \in Strings /\ pos \in Nat /\ Len(data) \in Nat
    BY RecordsType DEF ReadTypeAndClass, IInv, TypeOK
<1>2. CASE pc' = "error" /\ UNCHANGED <<pos, call, question>>
    <2>1. TypeOK'
        BY <1>1, <1>2 DEF IInv, TypeOK
    <2> QED
        BY <1>1, <1>2, <2>1
           DEF IInv, NameIsAhead, OwnerIsRead, RdataIsRead, RecordsInOrder,
               DecodersStayInside
<1>3. CASE /\ ~(pos + 4 > Len(data)) /\ pos' = pos + 4 /\ NextRecord(header, 0)
           /\ question' = [question EXCEPT !.type = U16(data, pos),
                                           !.class = U16(data, pos + 2)]
    <2>1. U16(data, pos) \in Word /\ U16(data, pos + 2) \in Word
        <3>1. pos + 2 \in Nat /\ pos + 2 <= Len(data) /\ pos + 2 + 2 <= Len(data)
            BY <1>1, <1>3
        <3> QED
            BY <1>1, <3>1, U16Type
    <2>2. question' \in Question
        BY <1>3, <2>1 DEF IInv, TypeOK, Question
    <2>3. /\ call' \in Call /\ pc' \in {"name", "done"} /\ NameIsAhead'
          /\ pc' = "name" => call'.of = "owner"
        <3>1. call \in Call /\ header \in Header /\ pos' \in Nat /\ pos' <= Len(data)'
            BY <1>1, <1>3 DEF IInv, TypeOK
        <3> QED
            BY <1>3, <3>1, ToNextRecord
    <2>4. pos' \in Nat /\ pos <= pos' /\ pos' <= Len(data)
        BY <1>1, <1>3
    <2>5. TypeOK'
        BY <1>1, <2>2, <2>3, <2>4 DEF IInv, TypeOK
    <2>6. RecordsInOrder' /\ DecodersStayInside'
        BY <1>1, <2>4, OrderKept
    <2> QED
        BY <2>3, <2>5, <2>6, NoRecordRead
<1> QED
    BY <1>2, <1>3 DEF ReadTypeAndClass

LEMMA RebuildInv == IInv /\ Rebuild => IInv'
<1> SUFFICES ASSUME IInv, Rebuild PROVE IInv'
    OBVIOUS
<1>1. data' = BuildQuery(header, question) /\ data' \in Strings
    BY BuildQueryType DEF Rebuild, IInv, TypeOK
<1>2. built' \in Seq([header : Header, question : Question]) /\ Len(built') <= 1
    BY BuiltType DEF Rebuild, IInv, TypeOK
<1>3. /\ pc' = "header" /\ pos' = 0 /\ call' = NoCall
      /\ header' = DefaultHeader /\ question' = DefaultQuestion
      /\ records' = << >> /\ rr' = NoRecord
    BY DEF Rebuild
<1>4. TypeOK'
    BY <1>1, <1>2, <1>3, DefaultTypes DEF TypeOK
<1>5. RecordsInOrder' /\ DecodersStayInside'
    BY <1>1, <1>3 DEF RecordsInOrder, DecodersStayInside, Strings
<1> QED
    BY <1>3, <1>4, <1>5 DEF IInv, NameIsAhead, OwnerIsRead, RdataIsRead

\* The bytes readName was given are bytes.
LEMMA BufferType ==
    ASSUME IInv, pc = "name"
    PROVE  /\ Buffer \in Strings /\ Len(Buffer) \in Nat
           /\ call.of # "rdata" => Buffer = data
           /\ call.of = "rdata" => Buffer = Rdata(rr) /\ Len(Buffer) = rr.length
<1>1. CASE call.of # "rdata"
    BY <1>1, RecordsType DEF Buffer, IInv, TypeOK
<1>2. CASE call.of = "rdata"
    <2>1. rr.at \in Nat /\ rr.length \in Nat /\ rr.at + rr.length <= Len(data)
        BY <1>2 DEF IInv, TypeOK, RdataIsRead, RecordsInOrder, Record, Word
    <2>2. Rdata(rr) \in Strings /\ Len(Rdata(rr)) = rr.length
        BY <2>1, BytesType DEF Rdata, IInv, TypeOK
    <2> QED
        BY <1>2, <2>1, <2>2 DEF Buffer
<1> QED
    BY <1>1, <1>2

\* A record whose rdata had names is kept once it is decoded.
LEMMA KeepParsedInv ==
    ASSUME IInv, pc = "name", call.of = "rdata", NEW parsed \in ParsedValue,
           parsed.chunks \in Seq(ChunksOf(rr.length)),
           KeepRecord([rr EXCEPT !.parsed = parsed]),
           UNCHANGED <<data, built, pos, header, question>>
    PROVE  IInv'
<1> DEFINE r == [rr EXCEPT !.parsed = parsed]
<1>1. /\ r \in Record /\ r.first = rr.first /\ r.at = rr.at /\ r.length = rr.length
      /\ r.parsed = parsed
    BY KeepParsed DEF IInv, TypeOK
<1>2. KeepRecord(r)
    OBVIOUS
<1> HIDE DEF r
<1>3. r.parsed.chunks \in Seq(ChunksOf(r.length))
    BY <1>1
<1>4. /\ pos' \in Nat /\ pos' <= Len(data) /\ r.first + 11 <= r.at
      /\ r.at + r.length = pos' /\ LastEnds(r.first)
    BY <1>1 DEF IInv, TypeOK, RdataIsRead, RecordsInOrder
<1> QED
    BY <1>1, <1>2, <1>3, <1>4, KeepInv

\* A name that throws ends the parse, or its record is kept undecoded.
LEMMA ThrowInv ==
    ASSUME IInv, pc = "name", NEW how \in {"error", "loop"}, Throw(how),
           UNCHANGED <<data, built, pos, header, question>>
    PROVE  IInv'
<1>1. CASE call.of = "rdata" /\ KeepRecord([rr EXCEPT !.parsed = Undecodable])
    <2>1. Undecodable.chunks \in Seq(ChunksOf(rr.length))
        BY ParsedTypes
    <2> QED
        BY <1>1, <2>1, ParsedTypes, KeepParsedInv
<1>2. CASE pc' = how /\ UNCHANGED <<call, records, rr>>
    <2>1. TypeOK'
        BY <1>2 DEF IInv, TypeOK
    <2>2. RecordsInOrder' /\ DecodersStayInside'
        BY <1>2 DEF IInv, RecordsInOrder, DecodersStayInside
    <2> QED
        BY <1>2, <2>1, <2>2 DEF IInv, NameIsAhead, OwnerIsRead, RdataIsRead
<1> QED
    BY <1>1, <1>2 DEF Throw

\* One more turn of readName's loop.
LEMMA TurnInv ==
    ASSUME IInv, pc = "name", call.steps < MaxSteps,
           NEW p \in Nat, NEW jumped \in BOOLEAN, NEW original \in Nat, NEW name \in Strings,
           Turn(p, jumped, original, name),
           UNCHANGED <<data, built, pos, header, question>>,
           call.of # "rdata" =>
               /\ ~jumped => pos <= p /\ p <= Len(data)
               /\ jumped => pos + 2 <= original /\ original <= Len(data)
    PROVE  IInv'
<1>1. UNCHANGED <<pc, records, rr>> /\ call \in Call
    BY DEF Turn, IInv, TypeOK
<1>2. /\ call' \in Call /\ call'.of = call.of /\ call'.pos = p
      /\ call'.jumped = jumped /\ call'.original = original
    BY <1>1, NextTurn
<1>3. TypeOK'
    BY <1>1, <1>2 DEF IInv, TypeOK
<1>4. NameIsAhead'
    BY <1>1, <1>2 DEF IInv, NameIsAhead
<1>5. RdataIsRead'
    BY <1>1, <1>2 DEF IInv, RdataIsRead, HasName, LastEnds
<1>6. RecordsInOrder' /\ DecodersStayInside'
    BY <1>1 DEF IInv, RecordsInOrder, DecodersStayInside
<1> QED
    BY <1>1, <1>3, <1>4, <1>5, <1>6 DEF IInv, OwnerIsRead

LEMMA TooManyStepsInv == IInv /\ TooManySteps => IInv'
BY ThrowInv DEF TooManySteps

LEMMA FollowPointerInv == IInv /\ FollowPointer => IInv'
<1> SUFFICES ASSUME IInv, FollowPointer PROVE IInv'
    OBVIOUS
<1>1. /\ pc = "name" /\ call.pos < Len(Buffer) /\ call.steps < MaxSteps
      /\ At(Buffer, call.pos) >= 192
      /\ UNCHANGED <<data, built, pos, header, question>>
    BY DEF FollowPointer, InLoop, Size
<1>2. CASE Throw("error")
    BY <1>1, <1>2, ThrowInv
<1>3. CASE /\ ~(call.pos + 1 >= Len(Buffer))
           /\ Turn(U16(Buffer, call.pos) - 256 * 192, TRUE,
                   IF call.jumped THEN call.original ELSE call.pos + 2, call.name)
    <2> DEFINE original == IF call.jumped THEN call.original ELSE call.pos + 2
    <2>1. /\ call.pos \in Nat /\ call.original \in Nat /\ call.name \in Strings
          /\ call.jumped \in BOOLEAN /\ Buffer \in Strings /\ Len(Buffer) \in Nat
          /\ pos \in Nat
        BY <1>1, BufferType DEF IInv, TypeOK, Call
    <2>2. U16(Buffer, call.pos) - 256 * 192 \in Nat
        <3>1. At(Buffer, call.pos) \in Byte /\ At(Buffer, call.pos + 1) \in Byte
            BY <1>3, <2>1, AtType
        <3> QED
            BY <1>1, <3>1, ByteRange DEF U16
    <2>3. original \in Nat
        BY <2>1
    <2>4. call.of # "rdata" => pos + 2 <= original /\ original <= Len(data)
        <3> SUFFICES ASSUME call.of # "rdata"
                     PROVE  pos + 2 <= original /\ original <= Len(data)
            OBVIOUS
        <3>1. Buffer = data
            BY <1>1, BufferType
        <3>2. CASE call.jumped
            BY <1>1, <3>2 DEF IInv, NameIsAhead
        <3>3. CASE ~call.jumped
            <4>1. pos <= call.pos
                BY <1>1, <3>3 DEF IInv, NameIsAhead
            <4> QED
                BY <1>3, <2>1, <3>1, <3>3, <4>1
        <3> QED
            BY <3>2, <3>3
    <2>5. Turn(U16(Buffer, call.pos) - 256 * 192, TRUE, original, call.name)
        BY <1>3
    <2> HIDE DEF original
    <2> QED
        BY <1>1, <2>1, <2>2, <2>3, <2>4, <2>5, TurnInv
<1> QED
    BY <1>2, <1>3 DEF FollowPointer

LEMMA JoinType ==
    ASSUME NEW name \in Strings, NEW label \in Strings
    PROVE  Join(name, label) \in Strings
<1>1. Dot \in Byte
    BY ByteRange DEF Dot
<1> HIDE DEF Dot
<1>2. <<Dot>> \in Strings
    BY <1>1 DEF Strings
<1> QED
    BY <1>2 DEF Join, Strings

LEMMA AppendLabelInv == IInv /\ AppendLabel => IInv'
<1> SUFFICES ASSUME IInv, AppendLabel PROVE IInv'
    OBVIOUS
<1>1. /\ pc = "name" /\ call.pos < Len(Buffer) /\ call.steps < MaxSteps
      /\ Size \in 1..191
      /\ UNCHANGED <<data, built, pos, header, question>>
    BY DEF AppendLabel, InLoop
<1>2. CASE Throw("error")
    BY <1>1, <1>2, ThrowInv
<1>3. CASE /\ ~(call.pos + 1 + Size > Len(Buffer))
           /\ Turn(call.pos + 1 + Size, call.jumped, call.original,
                   Join(call.name, Bytes(Buffer, call.pos + 1, Size)))
    <2>1. /\ call.pos \in Nat /\ call.original \in Nat /\ call.name \in Strings
          /\ call.jumped \in BOOLEAN /\ Buffer \in Strings /\ Len(Buffer) \in Nat
          /\ pos \in Nat
        BY <1>1, BufferType DEF IInv, TypeOK, Call
    <2>2. /\ call.pos + 1 \in Nat /\ Size \in Nat /\ call.pos + 1 + Size \in Nat
          /\ call.pos + 1 + Size <= Len(Buffer) /\ call.pos <= call.pos + 1 + Size
        BY <1>1, <1>3, <2>1
    <2>3. Join(call.name, Bytes(Buffer, call.pos + 1, Size)) \in Strings
        <3>1. Bytes(Buffer, call.pos + 1, Size) \in Strings
            BY <2>1, <2>2, BytesType
        <3> QED
            BY <2>1, <3>1, JoinType
    <2>4. call.of # "rdata" =>
              /\ ~call.jumped => pos <= call.pos + 1 + Size
                                 /\ call.pos + 1 + Size <= Len(data)
              /\ call.jumped => pos + 2 <= call.original /\ call.original <= Len(data)
        <3>1. call.of # "rdata" => Buffer = data
            BY <1>1, BufferType
        <3>2. call.of # "rdata" /\ call.jumped =>
                  pos + 2 <= call.original /\ call.original <= Len(data)
            BY <1>1 DEF IInv, NameIsAhead
        <3>3. call.of # "rdata" /\ ~call.jumped => pos <= call.pos
            BY <1>1 DEF IInv, NameIsAhead
        <3> QED
            BY <2>1, <2>2, <3>1, <3>2, <3>3
    <2> QED
        BY <1>1, <1>3, <2>1, <2>2, <2>3, <2>4, TurnInv
<1> QED
    BY <1>2, <1>3 DEF AppendLabel

\* Where readName goes on behind the name it read.
LEMMA EndOfNameEnds ==
    ASSUME IInv, pc = "name",
           call.pos < Len(Buffer) => Size = 0,
           NEW end,
           end = IF call.jumped THEN call.original
                 ELSE IF call.pos < Len(Buffer) THEN call.pos + 1 ELSE call.pos
    PROVE  /\ end \in Nat
           /\ call.of # "rdata" =>
                  /\ pos <= end /\ end <= Len(data)
                  /\ pos < end \/ end = Len(data)
<1>1. /\ call.pos \in Nat /\ call.original \in Nat /\ call.jumped \in BOOLEAN
      /\ Len(Buffer) \in Nat /\ pos \in Nat
    BY BufferType DEF IInv, TypeOK, Call
<1>2. end \in Nat
    BY <1>1
<1>3. ASSUME call.of # "rdata"
      PROVE  pos <= end /\ end <= Len(data) /\ (pos < end \/ end = Len(data))
    <2>1. Buffer = data
        BY <1>3, BufferType
    <2>2. CASE call.jumped
        <3>1. pos + 2 <= call.original /\ call.original <= Len(data)
            BY <1>3, <2>2 DEF IInv, NameIsAhead
        <3> QED
            BY <1>1, <2>2, <3>1
    <2>3. CASE ~call.jumped
        <3>1. pos <= call.pos /\ call.pos <= Len(data)
            BY <1>3, <2>3 DEF IInv, NameIsAhead
        <3> QED
            BY <1>1, <2>1, <2>3, <3>1
    <2> QED
        BY <2>2, <2>3
<1> QED
    BY <1>2, <1>3

LEMMA KeepDecoded ==
    ASSUME IInv, pc = "name", call.of = "rdata", NEW names \in Seq(Strings),
           NEW chunk \in ChunksOf(rr.length),
           KeepRecord([rr EXCEPT !.parsed = Decoded(names, <<chunk>>)]),
           UNCHANGED <<data, built, pos, header, question>>
    PROVE  IInv'
<1>1. <<chunk>> \in Seq(ChunksOf(rr.length)) /\ <<chunk>> \in Seq([first : Nat, size : Nat])
    BY DEF ChunksOf
<1> QED
    BY <1>1, ParsedTypes, KeepParsedInv

\* The names a decoder reads, one after the other.
LEMMA DecodeNameInv ==
    ASSUME IInv, pc = "name", call.of = "rdata", NEW end \in Nat, DecodeName(end),
           UNCHANGED <<data, built, pos, header, question>>
    PROVE  IInv'
<1> DEFINE names == Append(rr.parsed.names, call.name)
<1>1. /\ rr \in Record /\ rr.parsed \in ParsedValue /\ call \in Call /\ call.name \in Strings
      /\ rr.parsed.names \in Seq(Strings)
    BY DEF IInv, TypeOK, Record, Call, ParsedValue
<1>2. names \in Seq(Strings)
    BY <1>1
<1>3. rr.length \in Nat
    BY <1>1, WordRange DEF Record
<1>4. CASE /\ rr' = [rr EXCEPT !.parsed.names = names]
           /\ ReadName("rdata", end) /\ UNCHANGED records
    <2>1. /\ call' \in Call /\ pc' = "name" /\ call'.of = "rdata"
        BY <1>4, NewCall
    <2> DEFINE parsed == [rr.parsed EXCEPT !.names = names]
    <2>2. parsed \in ParsedValue
        BY <1>1, <1>2 DEF ParsedValue
    <2>3. rr' = [rr EXCEPT !.parsed = parsed]
        BY <1>1, <1>4 DEF Record
    <2> HIDE DEF parsed
    <2>4. /\ rr' \in Record /\ rr'.first = rr.first /\ rr'.at = rr.at
          /\ rr'.length = rr.length /\ rr'.type = rr.type
        BY <1>1, <2>2, <2>3, KeepParsed
    <2> HIDE DEF names
    <2>5. TypeOK'
        BY <1>4, <2>1, <2>4 DEF IInv, TypeOK
    <2>6. RdataIsRead'
        BY <1>4, <2>1, <2>4 DEF IInv, RdataIsRead, LastEnds, HasName
    <2>7. RecordsInOrder' /\ DecodersStayInside'
        BY <1>4 DEF IInv, RecordsInOrder, DecodersStayInside
    <2> QED
        BY <2>1, <2>5, <2>6, <2>7 DEF IInv, NameIsAhead, OwnerIsRead
<1> HIDE DEF names
<1>5. CASE /\ SoaFits(rr, end)
           /\ KeepRecord([rr EXCEPT !.parsed = Decoded(names, <<Chunk(end, 20)>>)])
    <2>1. Chunk(end, 20) \in ChunksOf(rr.length)
        BY <1>3, <1>5 DEF SoaFits, Chunk, ChunksOf
    <2> QED
        BY <1>2, <1>5, <2>1, KeepDecoded
<1>6. CASE KeepRecord([rr EXCEPT !.parsed = Undecodable])
    <2>1. Undecodable.chunks \in Seq(ChunksOf(rr.length))
        BY ParsedTypes
    <2> QED
        BY <1>6, <2>1, ParsedTypes, KeepParsedInv
<1>7. CASE /\ rr.type = Type.MX
           /\ KeepRecord([rr EXCEPT !.parsed = Decoded(names, <<Chunk(0, 2)>>)])
    <2>1. rr.length >= 3
        BY <1>7 DEF IInv, RdataIsRead, HasName, Type
    <2>2. Chunk(0, 2) \in ChunksOf(rr.length)
        BY <1>3, <2>1 DEF Chunk, ChunksOf
    <2> QED
        BY <1>2, <1>7, <2>2, KeepDecoded
<1>8. CASE KeepRecord([rr EXCEPT !.parsed = Decoded(names, << >>)])
    <2>1. << >> \in Seq([first : Nat, size : Nat]) /\ << >> \in Seq(ChunksOf(rr.length))
        OBVIOUS
    <2> QED
        BY <1>2, <1>8, <2>1, ParsedTypes, KeepParsedInv
<1> QED
    BY <1>4, <1>5, <1>6, <1>7, <1>8 DEF DecodeName, names

LEMMA EndOfNameInv == IInv /\ EndOfName => IInv'
<1> SUFFICES ASSUME IInv, EndOfName PROVE IInv'
    OBVIOUS
<1> DEFINE here == IF call.pos < Len(Buffer) THEN call.pos + 1 ELSE call.pos
           end  == IF call.jumped THEN call.original ELSE here
<1>1. /\ pc = "name" /\ UNCHANGED <<data, built, header>>
      /\ call \in Call /\ call.name \in Strings /\ pos \in Nat
    BY DEF EndOfName, InLoop, IInv, TypeOK, Call
<1>2. call.pos < Len(Buffer) => Size = 0
    <2>1. call.pos \in Nat /\ Len(Buffer) \in Nat
        BY <1>1, BufferType DEF Call
    <2> QED
        BY <2>1 DEF EndOfName, InLoop
<1>3. /\ end \in Nat
      /\ call.of # "rdata" => /\ pos <= end /\ end <= Len(data)
                              /\ pos < end \/ end = Len(data)
    BY <1>1, <1>2, EndOfNameEnds
<1> HIDE DEF here, end
<1>4. CASE /\ call.of = "question" /\ question' = [question EXCEPT !.name = call.name]
           /\ pos' = end /\ pc' = "type_class" /\ UNCHANGED <<call, records, rr>>
    <2>1. question' \in Question
        BY <1>1, <1>4 DEF IInv, TypeOK, Question
    <2>2. pos' \in Nat /\ pos <= pos' /\ pos' <= Len(data)
        BY <1>3, <1>4
    <2>3. TypeOK'
        BY <1>1, <1>4, <2>1, <2>2 DEF IInv, TypeOK
    <2>4. RecordsInOrder' /\ DecodersStayInside'
        BY <1>1, <1>4, <2>2, OrderKept
    <2> QED
        BY <1>4, <2>3, <2>4, NoRecordRead DEF NameIsAhead
<1>5. CASE /\ call.of = "owner"
           /\ rr' = [NoRecord EXCEPT !.first = pos, !.name = call.name]
           /\ pos' = end /\ pc' = "record" /\ UNCHANGED <<call, records, question>>
    <2>1. rr' \in Record /\ rr'.first = pos
        BY <1>1, <1>5, NewRecord
    <2>2. pos' \in Nat /\ pos <= pos' /\ pos' <= Len(data)
        BY <1>3, <1>5
    <2>3. TypeOK'
        BY <1>1, <1>5, <2>1, <2>2 DEF IInv, TypeOK
    <2>4. RecordsInOrder' /\ DecodersStayInside'
        BY <1>1, <1>5, <2>2, OrderKept
    <2>5. OwnerIsRead'
        <3>1. records # << >> =>
                  records[Len(records)].at + records[Len(records)].length <= pos
            BY LastIsBefore DEF LastEnds
        <3> QED
            BY <1>1, <1>3, <1>5, <2>1, <2>2, <3>1 DEF OwnerIsRead, LastEnds
    <2> QED
        BY <1>5, <2>3, <2>4, <2>5 DEF IInv, NameIsAhead, RdataIsRead
<1>6. CASE call.of = "rdata" /\ UNCHANGED <<pos, question>> /\ DecodeName(end)
    BY <1>1, <1>3, <1>6, DecodeNameInv
<1>7. call.of \in {"question", "owner", "rdata"}
    BY <1>1 DEF IInv, NameIsAhead, Call
<1> QED
    BY <1>4, <1>5, <1>6, <1>7 DEF EndOfName, here, end

LEMMA WiderSeq ==
    ASSUME NEW S, NEW T, S \subseteq T, NEW s \in Seq(S)
    PROVE  s \in Seq(T)
OBVIOUS

\* A decoder whose record names no name looks at nothing but the rdata.
LEMMA DecodeType ==
    ASSUME NEW r \in Record, Rdata(r) \in Strings, Len(Rdata(r)) = r.length
    PROVE  Decode(r) \in ParsedValue /\ Decode(r).chunks \in Seq(ChunksOf(r.length))
<1> DEFINE Fixed(n) == IF r.length = n THEN Decoded(<< >>, <<Chunk(0, n)>>) ELSE Undecodable
           textSize == [i \in 0..r.length - 1 |-> At(Rdata(r), i)]
           optionSize == [i \in 0..r.length - 4 |-> U16(Rdata(r), i + 2)]
           Good(p) == p \in ParsedValue /\ p.chunks \in Seq(ChunksOf(r.length))
<1>1. r.length \in Nat
    BY WordRange DEF Record
<1>2. Good(Undecodable) /\ Good(Undecoded)
    BY ParsedTypes
<1>3. ASSUME NEW chunks \in Seq(ChunksOf(r.length))
      PROVE  Good(Decoded(<< >>, chunks))
    <2>1. << >> \in Seq(Strings)
        OBVIOUS
    <2>2. ChunksOf(r.length) \subseteq [first : Nat, size : Nat]
        BY DEF ChunksOf
    <2>3. chunks \in Seq([first : Nat, size : Nat])
        BY <2>2, WiderSeq
    <2> QED
        BY <2>1, <2>3, ParsedTypes
<1>4. ASSUME NEW n \in Nat
      PROVE  Good(Fixed(n))
    <2>1. CASE r.length = n
        <3>1. Chunk(0, n) \in ChunksOf(r.length)
            BY <2>1 DEF Chunk, ChunksOf
        <3>2. <<Chunk(0, n)>> \in Seq(ChunksOf(r.length))
            BY <3>1
        <3> HIDE DEF Good
        <3> QED
            BY <1>3, <2>1, <3>2
    <2>2. CASE r.length # n
        BY <1>2, <2>2
    <2> QED
        BY <2>1, <2>2
<1>5. Good(Decoded(<< >>, Pieces(Rdata(r), 1, textSize)))
    <2>1. ASSUME NEW i \in Nat, i + 1 <= Len(Rdata(r))
          PROVE  textSize[i] \in Nat
        <3>1. i < Len(Rdata(r)) /\ i \in 0..r.length - 1
            BY <1>1, <2>1
        <3>2. At(Rdata(r), i) \in Byte
            BY <3>1, AtType
        <3> QED
            BY <3>1, <3>2, ByteRange
    <2> HIDE DEF textSize, Good
    <2>2. Pieces(Rdata(r), 1, textSize) \in Seq(ChunksOf(r.length))
        BY <2>1, PiecesType
    <2> QED
        BY <1>3, <2>2
<1>6. Good(Decoded(<< >>, Pieces(Rdata(r), 4, optionSize)))
    <2>1. ASSUME NEW i \in Nat, i + 4 <= Len(Rdata(r))
          PROVE  optionSize[i] \in Nat
        <3>1. i + 2 \in Nat /\ i + 2 + 2 <= Len(Rdata(r)) /\ i \in 0..r.length - 4
            BY <1>1, <2>1
        <3>2. U16(Rdata(r), i + 2) \in Word
            BY <3>1, U16Type
        <3> QED
            BY <3>1, <3>2, WordRange
    <2> HIDE DEF optionSize, Good
    <2>2. Pieces(Rdata(r), 4, optionSize) \in Seq(ChunksOf(r.length))
        BY <2>1, PiecesType
    <2> QED
        BY <1>3, <2>2
<1>7. Good(Fixed(4)) /\ Good(Fixed(16))
    BY <1>4
<1> HIDE DEF Good, Fixed, textSize, optionSize
<1>8. Decode(r) \in {Fixed(4), Fixed(16), Decoded(<< >>, Pieces(Rdata(r), 1, textSize)),
                    Decoded(<< >>, Pieces(Rdata(r), 4, optionSize)),
                    Undecodable, Undecoded}
    BY DEF Decode, Fixed, textSize, optionSize
<1>9. Good(Decode(r))
    BY <1>2, <1>5, <1>6, <1>7, <1>8
<1> QED
    BY <1>9 DEF Good

LEMMA ReadRecordInv == IInv /\ ReadRecord => IInv'
<1> SUFFICES ASSUME IInv, ReadRecord PROVE IInv'
    OBVIOUS
<1>1. /\ UNCHANGED <<data, built, header, question>> /\ pc = "record"
      /\ data \in Strings /\ pos \in Nat /\ rr \in Record /\ Len(data) \in Nat
    BY RecordsType DEF ReadRecord, IInv, TypeOK
<1>2. CASE pc' = "error" /\ UNCHANGED <<pos, call, records, rr>>
    <2>1. TypeOK'
        BY <1>1, <1>2 DEF IInv, TypeOK
    <2>2. RecordsInOrder' /\ DecodersStayInside'
        BY <1>1, <1>2 DEF IInv, RecordsInOrder, DecodersStayInside
    <2> QED
        BY <1>2, <2>1, <2>2 DEF IInv, NameIsAhead, OwnerIsRead, RdataIsRead
<1>3. CASE ~(pos + 10 > Len(data) \/ pos + 10 + U16(data, pos + 8) > Len(data))
    <2> DEFINE r == [first |-> rr.first, name |-> rr.name,
                     type |-> U16(data, pos), class |-> U16(data, pos + 2),
                     ttl |-> <<U16(data, pos + 4), U16(data, pos + 6)>>,
                     length |-> U16(data, pos + 8), at |-> pos + 10,
                     parsed |-> Undecoded]
    <2>1. /\ U16(data, pos) \in Word /\ U16(data, pos + 2) \in Word
          /\ U16(data, pos + 4) \in Word /\ U16(data, pos + 6) \in Word
          /\ U16(data, pos + 8) \in Word
        <3>1. pos + 10 <= Len(data)
            BY <1>1, <1>3, U16Type, WordRange
        <3>2. \A k \in {0, 2, 4, 6, 8} : pos + k \in Nat /\ pos + k + 2 <= Len(data)
            BY <1>1, <3>1
        <3>3. \A k \in {0, 2, 4, 6, 8} : U16(data, pos + k) \in Word
            BY <1>1, <3>2, U16Type
        <3>4. pos + 0 = pos
            BY <1>1
        <3> QED
            BY <3>3, <3>4
    <2>2. U16(data, pos + 8) \in Nat /\ pos + 10 + U16(data, pos + 8) <= Len(data)
        BY <1>1, <1>3, <2>1, WordRange
    <2>3. rr.first \in Nat /\ rr.name \in Strings
        BY <1>1 DEF Record
    <2>4. /\ r \in Record /\ r.first = rr.first /\ r.at = pos + 10
          /\ r.length = U16(data, pos + 8)
        BY <1>1, <2>1, <2>3, ParsedTypes DEF Record
    <2>5. /\ pos' = r.at + r.length
          /\ \/ HasName(r) /\ rr' = r /\ ReadName("rdata", NameAt(r)) /\ UNCHANGED records
             \/ ~HasName(r) /\ KeepRecord([r EXCEPT !.parsed = Decode(r)])
        BY <1>3 DEF ReadRecord
    <2> HIDE DEF r
    <2>6. /\ r.at \in Nat /\ r.length \in Nat /\ r.at + r.length <= Len(data)
          /\ pos' \in Nat /\ pos' <= Len(data) /\ pos <= pos'
        BY <1>1, <2>2, <2>4, <2>5
    <2>7. LastEnds(r.first) /\ r.first + 11 <= r.at
        <3>1. rr.first < pos \/ pos = Len(data)
            BY <1>1 DEF IInv, OwnerIsRead
        <3>2. LastEnds(rr.first)
            BY <1>1 DEF IInv, OwnerIsRead
        <3> QED
            BY <1>1, <2>2, <2>3, <2>4, <3>1, <3>2
    <2>8. CASE HasName(r) /\ rr' = r /\ ReadName("rdata", NameAt(r)) /\ UNCHANGED records
        <3>1. NameAt(r) \in Nat
            BY DEF NameAt
        <3>2. call' \in Call /\ pc' = "name" /\ call'.of = "rdata"
            BY <2>8, <3>1, NewCall
        <3>3. TypeOK'
            BY <1>1, <2>4, <2>6, <2>8, <3>2 DEF IInv, TypeOK
        <3>4. RdataIsRead'
            BY <2>5, <2>7, <2>8 DEF RdataIsRead, LastEnds, HasName
        <3>5. RecordsInOrder' /\ DecodersStayInside'
            BY <1>1, <2>6, <2>8, OrderKept
        <3> QED
            BY <3>2, <3>3, <3>4, <3>5 DEF IInv, NameIsAhead, OwnerIsRead
    <2>9. CASE KeepRecord([r EXCEPT !.parsed = Decode(r)])
        <3> DEFINE s == [r EXCEPT !.parsed = Decode(r)]
        <3>1. Rdata(r) \in Strings /\ Len(Rdata(r)) = r.length
            BY <1>1, <2>6, BytesType DEF Rdata
        <3>2. Decode(r) \in ParsedValue /\ Decode(r).chunks \in Seq(ChunksOf(r.length))
            BY <2>4, <3>1, DecodeType
        <3>3. /\ s \in Record /\ s.first = r.first /\ s.at = r.at /\ s.length = r.length
              /\ s.parsed = Decode(r)
            BY <2>4, <3>2, KeepParsed
        <3>4. KeepRecord(s)
            BY <2>9
        <3> HIDE DEF s
        <3>5. s.parsed.chunks \in Seq(ChunksOf(s.length))
            BY <3>2, <3>3
        <3> QED
            BY <1>1, <2>5, <2>6, <2>7, <3>3, <3>4, <3>5, KeepInv
    <2> QED
        BY <2>5, <2>8, <2>9
<1> QED
    BY <1>2, <1>3 DEF ReadRecord

LEMMA Invariance == IInv /\ [Next]_vars => IInv'
<1> SUFFICES ASSUME IInv, [Next]_vars PROVE IInv'
    OBVIOUS
<1>1. CASE ReadNext
    BY <1>1, ReadHeaderInv, ReadTypeAndClassInv, ReadRecordInv, TooManyStepsInv,
       FollowPointerInv, AppendLabelInv, EndOfNameInv
       DEF ReadNext
<1>2. CASE Rebuild
    BY <1>2, RebuildInv
<1>3. CASE UNCHANGED vars
    <2>1. TypeOK'
        BY <1>3 DEF IInv, TypeOK, vars
    <2>2. NameIsAhead' /\ OwnerIsRead'
        BY <1>3 DEF IInv, NameIsAhead, OwnerIsRead, LastEnds, vars
    <2>3. RdataIsRead'
        BY <1>3 DEF IInv, RdataIsRead, HasName, LastEnds, vars
    <2>4. RecordsInOrder' /\ DecodersStayInside'
        BY <1>3 DEF IInv, RecordsInOrder, DecodersStayInside, vars
    <2> QED
        BY <2>1, <2>2, <2>3, <2>4 DEF IInv
<1> QED
    BY <1>1, <1>2, <1>3 DEF Next

LEMMA AlwaysInv == Spec => []IInv
<1>1. Init => IInv
    BY InitInv
<1>2. IInv /\ [Next]_vars => IInv'
    BY Invariance
<1> QED
    BY <1>1, <1>2, PTL DEF Spec
-----------------------------------------------------------------------------
\* Whatever the bytes of the packet, what is read of it has the type of the field that
\* holds it, and no name takes more than MaxSteps turns of readName's loop.
THEOREM MessageTypeCorrect == Spec => []TypeOK
<1>1. IInv => TypeOK
    BY DEF IInv
<1> QED
    BY <1>1, AlwaysInv, PTL

\* The records of a packet lie inside it, one behind the other, wherever the
\* compression pointers of their names lead: readName's way back is never before the
\* place it came from, nor behind the packet.
THEOREM RecordsInOrderTheorem == Spec => []RecordsInOrder
<1>1. IInv => RecordsInOrder
    BY DEF IInv
<1> QED
    BY <1>1, AlwaysInv, PTL

\* No decoder looks behind the rdata of its record, whatever its pieces say of their
\* sizes, and wherever a name of an SOA or MX ends.
THEOREM DecodersStayInsideTheorem == Spec => []DecodersStayInside
<1>1. IInv => DecodersStayInside
    BY DEF IInv
<1> QED
    BY <1>1, AlwaysInv, PTL

-----------------------------------------------------------------------------
\* The names that the format gives, part by part.

NamesRow(b, pointer, names, left) ==
    [i \in Nat |-> IF left = 0 THEN {} ELSE NamesAt(b, i, names[left - 1], pointer)]

\* The recursion has a value: there are functions that satisfy it up to any number of
\* parts, hence up to the length of b.
LEMMA NamesExist ==
    ASSUME NEW b, NEW pointer, NEW L \in Nat
    PROVE  \E f : f = [left \in 0..L |-> NamesRow(b, pointer, f, left)]
<1> DEFINE Row(f, left) == NamesRow(b, pointer, f, left)
           Defined(n) == \E f : f = [left \in 0..L |-> IF left <= n THEN Row(f, left)
                                                      ELSE << >>]
<1>1. ASSUME NEW f, NEW g, NEW left \in 0..L, left # 0 => f[left - 1] = g[left - 1]
      PROVE  Row(f, left) = Row(g, left)
    BY <1>1 DEF NamesRow
<1> HIDE DEF Row
<1>2. Defined(0)
    <2> DEFINE e == [left \in 0..L |-> << >>]
               f == [left \in 0..L |-> IF left <= 0 THEN Row(e, left) ELSE << >>]
    <2>1. \A left \in 0..L : left <= 0 => Row(e, left) = Row(f, left)
        BY <1>1
    <2>2. f = [left \in 0..L |-> IF left <= 0 THEN Row(f, left) ELSE << >>]
        BY <2>1
    <2> HIDE DEF f
    <2> QED
        BY <2>2
<1>3. ASSUME NEW n \in Nat, Defined(n)
      PROVE  Defined(n + 1)
    <2>1. PICK f : f = [left \in 0..L |-> IF left <= n THEN Row(f, left) ELSE << >>]
        BY <1>3
    <2> DEFINE g == [left \in 0..L |-> IF left <= n + 1 THEN Row(f, left) ELSE << >>]
    <2>2. ASSUME NEW left \in 0..L, left <= n + 1
          PROVE  Row(f, left) = Row(g, left)
        <3>1. CASE left # 0
            <4>1. left - 1 \in 0..L /\ left - 1 <= n /\ left - 1 <= n + 1
                BY <2>2, <3>1
            <4>2. f[left - 1] = Row(f, left - 1) /\ g[left - 1] = Row(f, left - 1)
                BY <2>1, <4>1
            <4> HIDE DEF g
            <4> QED
                BY <1>1, <4>2
        <3>2. CASE left = 0
            BY <1>1, <3>2
        <3> QED
            BY <3>1, <3>2
    <2>3. g = [left \in 0..L |-> IF left <= n + 1 THEN Row(g, left) ELSE << >>]
        BY <2>2
    <2> HIDE DEF g
    <2> QED
        BY <2>3
<1> DEFINE Fine == {n \in Nat : Defined(n)}
<1> HIDE DEF Defined
<1>4. 0 \in Fine /\ \A n \in Nat : n \in Fine => n + 1 \in Fine
    BY <1>2, <1>3
<1> HIDE DEF Fine
<1>5. L \in Fine
    BY <1>4, Induction
<1>6. PICK f : f = [left \in 0..L |-> IF left <= L THEN Row(f, left) ELSE << >>]
    BY <1>5 DEF Fine, Defined
<1>7. f = [left \in 0..L |-> Row(f, left)]
    <2>1. \A left \in 0..L : left <= L
        OBVIOUS
    <2> QED
        BY <1>6, <2>1
<1> QED
    BY <1>7 DEF Row

LEMMA NamesOfPartsDef ==
    ASSUME NEW b \in Strings, NEW pointer, NEW left \in 0..Len(b), NEW i \in Nat
    PROVE  NamesOfParts(b, pointer)[left][i] =
               IF left = 0 THEN {} ELSE NamesAt(b, i, NamesOfParts(b, pointer)[left - 1], pointer)
<1> DEFINE names[k \in 0..Len(b)] ==
               [j \in Nat |-> IF k = 0 THEN {} ELSE NamesAt(b, j, names[k - 1], pointer)]
<1>1. NamesOfParts(b, pointer) = names
    BY DEF NamesOfParts
<1>2. names = CHOOSE f : f = [k \in 0..Len(b) |-> NamesRow(b, pointer, f, k)]
    BY DEF names, NamesRow
<1> HIDE DEF names
<1>3. \E f : f = [k \in 0..Len(b) |-> NamesRow(b, pointer, f, k)]
    <2>1. Len(b) \in Nat
        BY DEF Strings
    <2> QED
        BY <2>1, NamesExist, Zenon
<1>4. names = [k \in 0..Len(b) |-> NamesRow(b, pointer, names, k)]
    BY <1>2, <1>3
<1>5. names[left] = NamesRow(b, pointer, names, left)
    BY <1>4
<1>6. names[left][i] = IF left = 0 THEN {} ELSE NamesAt(b, i, names[left - 1], pointer)
    BY <1>5 DEF NamesRow
<1> QED
    BY <1>1, <1>6

LEMMA JoinedType ==
    ASSUME NEW name \in Strings, NEW rest \in Strings
    PROVE  name \o <<Dot>> \o rest \in Strings
<1>1. Dot \in Byte
    BY ByteRange DEF Dot
<1> HIDE DEF Dot
<1>2. <<Dot>> \in Strings
    BY <1>1 DEF Strings
<1> QED
    BY <1>2 DEF Strings

LEMMA Associative ==
    ASSUME NEW a \in Strings, NEW b \in Strings, NEW c \in Strings
    PROVE  (a \o b) \o c = a \o (b \o c)
BY ConcatAssociative DEF Strings

\* A label joined to what has been read is what joins what has been read to the label
\* and the rest.
LEMMA JoinRest ==
    ASSUME NEW name \in Strings, NEW label \in Strings, NEW rest \in Strings, label # << >>
    PROVE  LET whole == WithRest(label, rest)
           IN  /\ whole # << >>
               /\ (IF name = << >> THEN whole ELSE WithRest(name, whole))
                      = WithRest(Join(name, label), rest)
<1> DEFINE dot == <<Dot>>
<1>1. dot \in Strings
    <2>1. Dot \in Byte
        BY ByteRange DEF Dot
    <2> HIDE DEF Dot
    <2> QED
        BY <2>1 DEF Strings
<1>2. CASE rest = << >>
    BY <1>2 DEF WithRest, Join
<1>3. CASE rest # << >>
    <2> DEFINE tail == label \o dot \o rest
    <2>1. tail # << >>
        <3>1. Len(label) \in Nat /\ Len(label) > 0
            BY DEF Strings
        <3>2. Len(tail) = Len(label) + Len(dot) + Len(rest)
            BY <1>1 DEF Strings
        <3>3. Len(tail) # 0
            BY <3>1, <3>2 DEF Strings
        <3> QED
            BY <3>3
    <2>2. (name \o dot) \o ((label \o dot) \o rest) = ((name \o dot \o label) \o dot) \o rest
        <3> DEFINE before == name \o dot
                   after == label \o dot
        <3> HIDE DEF dot
        <3>1. before \in Strings /\ after \in Strings
            BY <1>1 DEF Strings
        <3>2. before \o after = (before \o label) \o dot
            <4> HIDE DEF before
            <4>1. before \in Strings /\ dot \in Strings
                BY <1>1, <3>1
            <4>2. (before \o label) \o dot = before \o (label \o dot)
                BY <4>1, Associative, Zenon
            <4> QED
                BY <4>2
        <3> HIDE DEF before, after
        <3>3. before \o (after \o rest) = (before \o after) \o rest
            BY <3>1, Associative, Zenon
        <3>4. before \o (after \o rest) = ((before \o label) \o dot) \o rest
            BY <3>2, <3>3
        <3> QED
            BY <3>4 DEF before, after
    <2> HIDE DEF dot
    <2>3. WithRest(label, rest) = tail
        BY <1>3 DEF WithRest, dot
    <2>4. CASE name = << >>
        BY <1>3, <2>1, <2>3, <2>4 DEF WithRest, Join, dot
    <2>5. CASE name # << >>
        <3>1. WithRest(name, tail) = (name \o dot) \o tail
            BY <2>1 DEF WithRest, dot
        <3>2. WithRest(Join(name, label), rest) = ((name \o dot \o label) \o dot) \o rest
            BY <1>3, <2>5 DEF WithRest, Join, dot
        <3> QED
            BY <2>1, <2>2, <2>3, <2>5, <3>1, <3>2
    <2> QED
        BY <2>4, <2>5
<1> QED
    BY <1>2, <1>3

LEMMA NamesAreStrings ==
    ASSUME NEW b \in Strings, NEW k \in 0..Len(b), NEW j \in Nat
    PROVE  NamesOfParts(b, 192)[k][j] \subseteq Strings
<1> DEFINE All(n) == n <= Len(b) =>
                         \A i \in Nat : NamesOfParts(b, 192)[n][i] \subseteq Strings
           Fine == {n \in Nat : All(n)}
<1>1. Len(b) \in Nat
    BY DEF Strings
<1>2. All(0)
    BY <1>1, NamesOfPartsDef
<1>3. ASSUME NEW n \in Nat, All(n)
      PROVE  All(n + 1)
    <2> SUFFICES ASSUME n + 1 <= Len(b), NEW i \in Nat,
                        NEW name \in NamesOfParts(b, 192)[n + 1][i]
                 PROVE  name \in Strings
        OBVIOUS
    <2> DEFINE after == NamesOfParts(b, 192)[n]
               size == At(b, i)
    <2>1. name \in NamesAt(b, i, after, 192)
        <3>1. n + 1 \in 0..Len(b) /\ n + 1 # 0 /\ n + 1 - 1 = n
            BY <1>1
        <3> QED
            BY <3>1, NamesOfPartsDef
    <2>2. \A p \in Nat : after[p] \subseteq Strings
        BY <1>1, <1>3
    <2>3. i < Len(b) /\ ~(i >= Len(b))
        BY <1>1, <2>1 DEF NamesAt
    <2>4. size \in Nat /\ size < 256
        BY <2>3, AtType, ByteRange
    <2> HIDE DEF after
    <2>5. CASE size = 0
        BY <2>1, <2>3, <2>5, ParsedTypes DEF NamesAt
    <2>6. CASE size > 0 /\ size <= 63 /\ i + size < Len(b)
        <3> DEFINE label == Bytes(b, i + 1, size)
        <3>1. NamesAt(b, i, after, 192) = {WithRest(label, rest) : rest \in after[i + 1 + size]}
            BY <2>3, <2>4, <2>6 DEF NamesAt
        <3> HIDE DEF label
        <3>2. PICK rest \in after[i + 1 + size] : name = WithRest(label, rest)
            BY <2>1, <3>1
        <3>3. rest \in Strings
            BY <2>2, <2>4, <3>2
        <3>4. label \in Strings
            <4>1. i + 1 \in Nat /\ i + 1 + size <= Len(b)
                BY <1>1, <2>4, <2>6
            <4> QED
                BY <2>4, <4>1, BytesType DEF label
        <3> QED
            BY <3>2, <3>3, <3>4, JoinedType DEF WithRest
    <2>7. CASE size >= 192 /\ i + 1 < Len(b)
        <3>1. U16(b, i) % 2^14 \in Nat
            <4>1. U16(b, i) \in Nat
                BY <1>1, <2>7, U16Type, WordRange
            <4> QED
                BY <4>1
        <3>2. name \in after[U16(b, i) % 2^14]
            BY <2>1, <2>3, <2>4, <2>7 DEF NamesAt
        <3> QED
            BY <2>2, <3>1, <3>2
    <2> QED
        BY <2>1, <2>3, <2>5, <2>6, <2>7 DEF NamesAt
<1> HIDE DEF All
<1>4. 0 \in Fine /\ \A n \in Nat : n \in Fine => n + 1 \in Fine
    BY <1>2, <1>3
<1>5. k \in Fine
    <2> HIDE DEF Fine
    <2> QED
        BY <1>1, <1>4, Induction
<1> QED
    BY <1>1, <1>5 DEF All

\* What a name that the format gives at i says of the byte there, and of what follows.
LEMMA PartsUnroll ==
    ASSUME NEW b \in Strings, NEW left \in 0..Len(b), NEW i \in Nat,
           NEW name \in NamesOfParts(b, 192)[left][i]
    PROVE  /\ left - 1 \in 0..Len(b) /\ i < Len(b)
           /\ At(b, i) = 0 => name = << >>
           /\ At(b, i) > 0 /\ At(b, i) <= 191 =>
                  /\ i + 1 + At(b, i) <= Len(b)
                  /\ \E rest \in NamesOfParts(b, 192)[left - 1][i + 1 + At(b, i)] :
                        name = WithRest(Bytes(b, i + 1, At(b, i)), rest)
           /\ At(b, i) >= 192 => /\ i + 1 < Len(b)
                                 /\ name \in NamesOfParts(b, 192)[left - 1][U16(b, i) - 256 * 192]
<1> DEFINE after == NamesOfParts(b, 192)[left - 1]
           size == At(b, i)
<1>1. Len(b) \in Nat
    BY DEF Strings
<1>2. left # 0 /\ name \in NamesAt(b, i, after, 192)
    BY NamesOfPartsDef
<1>3. left - 1 \in 0..Len(b)
    BY <1>1, <1>2
<1>4. i < Len(b) /\ ~(i >= Len(b))
    BY <1>1, <1>2 DEF NamesAt
<1>5. size \in Nat /\ size < 256
    BY <1>4, AtType, ByteRange
<1> HIDE DEF after
<1>6. CASE size = 0
    BY <1>2, <1>3, <1>4, <1>6 DEF NamesAt
<1>7. CASE size > 0 /\ size <= 63 /\ i + size < Len(b)
    <2> DEFINE label == Bytes(b, i + 1, size)
    <2>1. NamesAt(b, i, after, 192) = {WithRest(label, rest) : rest \in after[i + 1 + size]}
        BY <1>4, <1>5, <1>7 DEF NamesAt
    <2> HIDE DEF label
    <2>2. \E rest \in after[i + 1 + size] : name = WithRest(label, rest)
        BY <1>2, <2>1
    <2>3. i + 1 + size <= Len(b) /\ size # 0 /\ ~(size >= 192)
        BY <1>1, <1>5, <1>7
    <2> QED
        BY <1>3, <1>4, <2>2, <2>3 DEF after, label
<1>8. CASE size >= 192 /\ i + 1 < Len(b)
    <2>1. At(b, i + 1) \in Byte /\ size \in Byte
        <3>1. i + 1 \in Nat
            OBVIOUS
        <3> QED
            BY <1>4, <1>8, <3>1, AtType
    <2>2. U16(b, i) % 2^14 = U16(b, i) - 256 * 192
        <3>1. U16(b, i) \in Nat /\ 49152 <= U16(b, i) /\ U16(b, i) < 65536
            BY <1>8, <2>1, ByteRange DEF U16
        <3> QED
            BY <3>1
    <2>3. ~(size = 0) /\ ~(size <= 191) /\ ~(size <= 63)
        BY <1>5, <1>8
    <2>4. name \in after[U16(b, i) % 2^14]
        BY <1>2, <1>4, <1>5, <1>8, <2>3 DEF NamesAt
    <2> QED
        BY <1>3, <1>4, <1>8, <2>2, <2>3, <2>4 DEF after
<1> QED
    BY <1>2, <1>4, <1>6, <1>7, <1>8 DEF NamesAt

\* What is written out is a name of the format, which has pointers besides.
LEMMA WrittenOutIsThere ==
    ASSUME NEW b \in Strings, NEW p \in Nat
    PROVE  WrittenOut(b, p) \subseteq NamesIn(b, p)
<1> DEFINE All(n) == n <= Len(b) =>
               \A i \in Nat : NamesOfParts(b, 256)[n][i] \subseteq NamesOfParts(b, 192)[n][i]
           Fine == {n \in Nat : All(n)}
<1>1. Len(b) \in Nat
    BY DEF Strings
<1>2. All(0)
    BY <1>1, NamesOfPartsDef
<1>3. ASSUME NEW n \in Nat, All(n)
      PROVE  All(n + 1)
    <2> SUFFICES ASSUME n + 1 <= Len(b), NEW i \in Nat,
                        NEW name \in NamesOfParts(b, 256)[n + 1][i]
                 PROVE  name \in NamesOfParts(b, 192)[n + 1][i]
        OBVIOUS
    <2> DEFINE here == NamesOfParts(b, 256)[n]
               there == NamesOfParts(b, 192)[n]
               size == At(b, i)
               label == Bytes(b, i + 1, size)
    <2>1. /\ name \in NamesAt(b, i, here, 256)
          /\ NamesOfParts(b, 192)[n + 1][i] = NamesAt(b, i, there, 192)
        <3>1. n + 1 \in 0..Len(b) /\ n + 1 # 0 /\ n + 1 - 1 = n
            BY <1>1
        <3> QED
            BY <3>1, NamesOfPartsDef
    <2>2. \A q \in Nat : here[q] \subseteq there[q]
        BY <1>1, <1>3
    <2>3. i < Len(b) /\ ~(i >= Len(b))
        BY <1>1, <2>1 DEF NamesAt
    <2>4. size \in Nat /\ size < 256
        BY <2>3, AtType, ByteRange
    <2> HIDE DEF here, there
    <2>5. CASE size = 0
        BY <2>1, <2>3, <2>5 DEF NamesAt
    <2>6. CASE size > 0 /\ size <= 63 /\ i + size < Len(b)
        <3>1. /\ NamesAt(b, i, here, 256) = {WithRest(label, rest) : rest \in here[i + 1 + size]}
              /\ NamesAt(b, i, there, 192) = {WithRest(label, rest) : rest \in there[i + 1 + size]}
            BY <2>3, <2>4, <2>6 DEF NamesAt
        <3> HIDE DEF label
        <3>2. i + 1 + size \in Nat
            BY <2>4
        <3> QED
            BY <2>1, <2>2, <3>1, <3>2
    <2> QED
        BY <2>1, <2>3, <2>4, <2>5, <2>6 DEF NamesAt
<1> HIDE DEF All
<1>4. 0 \in Fine /\ \A n \in Nat : n \in Fine => n + 1 \in Fine
    BY <1>2, <1>3
<1>5. Len(b) \in Fine
    <2> HIDE DEF Fine
    <2> QED
        BY <1>1, <1>4, Induction
<1> QED
    BY <1>1, <1>5 DEF All, NamesIn, WrittenOut

-----------------------------------------------------------------------------
\* readName against the format: with readName at p and name read so far, every name
\* the format gives at start has its rest there.
OnTheWay(b, start, p, name) ==
    \A spelled \in NamesIn(b, start) :
        \E left \in 0..Len(b) : \E rest \in NamesOfParts(b, 192)[left][p] :
            spelled = IF name = << >> THEN rest ELSE WithRest(name, rest)

IsNameAt(name, b, p) == \A spelled \in NamesIn(b, p) : name = spelled

LEMMA WayBegins ==
    ASSUME NEW b \in Strings, NEW start \in Nat
    PROVE  OnTheWay(b, start, start, << >>)
<1>1. Len(b) \in 0..Len(b)
    BY DEF Strings
<1> QED
    BY <1>1 DEF OnTheWay, NamesIn

LEMMA WayThroughPointer ==
    ASSUME NEW b \in Strings, NEW start \in Nat, NEW p \in Nat, NEW name \in Strings,
           OnTheWay(b, start, p, name), At(b, p) >= 192
    PROVE  OnTheWay(b, start, U16(b, p) - 256 * 192, name)
<1> SUFFICES ASSUME NEW spelled \in NamesIn(b, start)
             PROVE  \E left \in 0..Len(b) :
                    \E rest \in NamesOfParts(b, 192)[left][U16(b, p) - 256 * 192] :
                        spelled = IF name = << >> THEN rest ELSE WithRest(name, rest)
    BY DEF OnTheWay
<1>1. PICK left \in 0..Len(b) : \E rest \in NamesOfParts(b, 192)[left][p] :
              spelled = IF name = << >> THEN rest ELSE WithRest(name, rest)
    BY DEF OnTheWay
<1>2. PICK rest \in NamesOfParts(b, 192)[left][p] :
              spelled = IF name = << >> THEN rest ELSE WithRest(name, rest)
    BY <1>1
<1>3. /\ left - 1 \in 0..Len(b)
      /\ rest \in NamesOfParts(b, 192)[left - 1][U16(b, p) - 256 * 192]
    BY PartsUnroll
<1> QED
    BY <1>2, <1>3

LEMMA WayThroughLabel ==
    ASSUME NEW b \in Strings, NEW start \in Nat, NEW p \in Nat, NEW name \in Strings,
           OnTheWay(b, start, p, name), At(b, p) > 0, At(b, p) <= 191, p < Len(b),
           p + 1 + At(b, p) <= Len(b)
    PROVE  OnTheWay(b, start, p + 1 + At(b, p), Join(name, Bytes(b, p + 1, At(b, p))))
<1> DEFINE label == Bytes(b, p + 1, At(b, p))
           whole == Join(name, label)
<1>1. At(b, p) \in Nat /\ Len(b) \in Nat
    BY AtType, ByteRange DEF Strings
<1>2. label \in Strings /\ label # << >>
    <2>1. label \in Strings /\ Len(label) = At(b, p)
        BY <1>1, BytesType
    <2>2. Len(label) # 0
        BY <1>1, <2>1
    <2> QED
        BY <2>1, <2>2
<1> HIDE DEF label
<1>3. whole # << >>
    <2>1. name # << >> => Len(name \o <<Dot>> \o label) = Len(name) + 1 + Len(label)
        BY <1>2 DEF Strings
    <2>2. Len(name) \in Nat /\ Len(label) \in Nat
        BY <1>2 DEF Strings
    <2>3. name # << >> => name \o <<Dot>> \o label # << >>
        BY <2>1, <2>2
    <2> QED
        BY <1>2, <2>3 DEF Join
<1> SUFFICES ASSUME NEW spelled \in NamesIn(b, start)
             PROVE  \E left \in 0..Len(b) :
                    \E rest \in NamesOfParts(b, 192)[left][p + 1 + At(b, p)] :
                        spelled = WithRest(whole, rest)
    BY <1>3 DEF OnTheWay, label
<1>4. PICK left \in 0..Len(b) : \E here \in NamesOfParts(b, 192)[left][p] :
              spelled = IF name = << >> THEN here ELSE WithRest(name, here)
    BY DEF OnTheWay
<1>5. PICK here \in NamesOfParts(b, 192)[left][p] :
              spelled = IF name = << >> THEN here ELSE WithRest(name, here)
    BY <1>4
<1>6. /\ left - 1 \in 0..Len(b)
      /\ \E rest \in NamesOfParts(b, 192)[left - 1][p + 1 + At(b, p)] : here = WithRest(label, rest)
    <2>1. left - 1 \in 0..Len(b)
        BY PartsUnroll
    <2>2. \E rest \in NamesOfParts(b, 192)[left - 1][p + 1 + At(b, p)] :
              here = WithRest(Bytes(b, p + 1, At(b, p)), rest)
        BY PartsUnroll
    <2> QED
        BY <2>1, <2>2 DEF label
<1>7. PICK rest \in NamesOfParts(b, 192)[left - 1][p + 1 + At(b, p)] : here = WithRest(label, rest)
    BY <1>6
<1>8. rest \in Strings
    <2>1. p + 1 + At(b, p) \in Nat
        BY <1>1
    <2> QED
        BY <1>6, <2>1, NamesAreStrings
<1>9. (IF name = << >> THEN here ELSE WithRest(name, here)) = WithRest(whole, rest)
    BY <1>2, <1>7, <1>8, JoinRest
<1> QED
    BY <1>5, <1>6, <1>9

LEMMA WayEnds ==
    ASSUME NEW b \in Strings, NEW start \in Nat, NEW p \in Nat, NEW name \in Strings,
           OnTheWay(b, start, p, name), p < Len(b) => At(b, p) = 0
    PROVE  IsNameAt(name, b, start)
<1> SUFFICES ASSUME NEW spelled \in NamesIn(b, start)
             PROVE  name = spelled
    BY DEF IsNameAt
<1>1. PICK left \in 0..Len(b) : \E rest \in NamesOfParts(b, 192)[left][p] :
              spelled = IF name = << >> THEN rest ELSE WithRest(name, rest)
    BY DEF OnTheWay
<1>2. PICK rest \in NamesOfParts(b, 192)[left][p] :
              spelled = IF name = << >> THEN rest ELSE WithRest(name, rest)
    BY <1>1
<1>3. rest = << >>
    BY PartsUnroll
<1> QED
    BY <1>2, <1>3 DEF WithRest

-----------------------------------------------------------------------------
\* The second invariant: the names that were read are those the format gives, and the
\* one being read is on its way.
QuestionIsRight ==
    Questioned(header) /\ (\/ pc \in {"type_class", "record", "done"}
                           \/ pc = "name" /\ call.of # "question") =>
        IsNameAt(question.name, data, 12)

\* A record's own name and the first one in its data.
OwnNameIsRight(r) == IsNameAt(r.name, data, r.first)
FirstNameIsRight(r) ==
    r.parsed.names # << >> => IsNameAt(r.parsed.names[1], Rdata(r), NameAt(r))

CallIsRight ==
    /\ pc = "name" /\ call.of = "question" => pos = 12
    /\ pc = "name" /\ call.of # "rdata" => OnTheWay(data, pos, call.pos, call.name)
    /\ pc = "name" /\ call.of = "rdata" /\ rr.parsed.names = << >> =>
           OnTheWay(Rdata(rr), NameAt(rr), call.pos, call.name)

RecordIsRight ==
    /\ pc = "record" \/ (pc = "name" /\ call.of = "rdata") => OwnNameIsRight(rr)
    /\ pc = "name" /\ call.of = "rdata" => FirstNameIsRight(rr)
    /\ \A k \in DOMAIN records : OwnNameIsRight(records[k]) /\ FirstNameIsRight(records[k])

NInv == QuestionIsRight /\ CallIsRight /\ RecordIsRight

-----------------------------------------------------------------------------
\* Every step keeps it.

\* The way of the next record's name begins where the last record ends.
LEMMA NextRecordNames ==
    ASSUME IInv', NEW h, NEW k, NextRecord(h, k)
    PROVE  /\ CallIsRight'
           /\ pc' = "done" \/ (pc' = "name" /\ call'.of = "owner")
<1>1. pos' \in Nat /\ data' \in Strings
    BY DEF IInv, TypeOK
<1>2. CASE ReadName("owner", pos')
    <2>1. /\ pc' = "name" /\ call'.of = "owner" /\ call'.pos = pos'
          /\ call'.name = << >>
        BY <1>1, <1>2, NewCall
    <2>2. OnTheWay(data', pos', call'.pos, call'.name)
        BY <1>1, <2>1, WayBegins
    <2> QED
        BY <2>1, <2>2 DEF CallIsRight
<1>3. CASE pc' = "done"
    BY <1>3 DEF CallIsRight
<1> QED
    BY <1>2, <1>3 DEF NextRecord

\* Where a record's names are is all that IsNameAt sees of it.
LEMMA SameNames ==
    ASSUME NEW r, NEW s, s.at = r.at, s.length = r.length, s.type = r.type,
           UNCHANGED data
    PROVE  /\ Rdata(s)' = Rdata(r) /\ Rdata(s) = Rdata(r) /\ NameAt(s) = NameAt(r)
           /\ s.parsed.names = r.parsed.names =>
                  (FirstNameIsRight(r) => FirstNameIsRight(s) /\ FirstNameIsRight(s)')
           /\ s.first = r.first /\ s.name = r.name =>
                  (OwnNameIsRight(r) => OwnNameIsRight(s) /\ OwnNameIsRight(s)')
<1>1. Rdata(s)' = Rdata(r) /\ Rdata(s) = Rdata(r) /\ NameAt(s) = NameAt(r)
    BY DEF Rdata, NameAt
<1> QED
    BY <1>1 DEF FirstNameIsRight, OwnNameIsRight

\* The records that are read stay right.
LEMMA RecordsKept ==
    ASSUME NInv, UNCHANGED <<data, records>>
    PROVE  \A k \in DOMAIN records' :
               OwnNameIsRight(records[k])' /\ FirstNameIsRight(records[k])'
<1> SUFFICES ASSUME NEW k \in DOMAIN records
             PROVE  OwnNameIsRight(records[k])' /\ FirstNameIsRight(records[k])'
    OBVIOUS
<1>1. OwnNameIsRight(records[k]) /\ FirstNameIsRight(records[k])
    BY DEF NInv, RecordIsRight
<1> QED
    BY <1>1 DEF OwnNameIsRight, FirstNameIsRight, Rdata

LEMMA KeepNames ==
    ASSUME IInv, IInv', NInv, NEW r \in Record, KeepRecord(r),
           UNCHANGED <<data, header, question>>,
           pc = "record" \/ (pc = "name" /\ call.of = "rdata"),
           OwnNameIsRight(r), FirstNameIsRight(r)
    PROVE  NInv'
<1>1. /\ records' = Append(records, r) /\ NextRecord(header, Len(records) + 1)
      /\ records \in Seq(Record)
    BY DEF KeepRecord, IInv, TypeOK
<1>2. CallIsRight' /\ (pc' = "done" \/ (pc' = "name" /\ call'.of = "owner"))
    BY <1>1, NextRecordNames
<1>3. QuestionIsRight'
    BY DEF NInv, QuestionIsRight
<1>4. ASSUME NEW k \in DOMAIN records'
      PROVE  OwnNameIsRight(records[k])' /\ FirstNameIsRight(records[k])'
    <2>1. records'[k] = r \/ (k \in DOMAIN records /\ records'[k] = records[k])
        BY <1>1
    <2>2. OwnNameIsRight(records'[k]) /\ FirstNameIsRight(records'[k])
        BY <2>1 DEF NInv, RecordIsRight
    <2> QED
        BY <2>2 DEF OwnNameIsRight, FirstNameIsRight, Rdata
<1>5. RecordIsRight'
    BY <1>2, <1>4 DEF RecordIsRight
<1> QED
    BY <1>2, <1>3, <1>5 DEF NInv

LEMMA ReadHeaderNames == IInv /\ IInv' /\ NInv /\ ReadHeader => NInv'
<1> SUFFICES ASSUME IInv, IInv', NInv, ReadHeader PROVE NInv'
    OBVIOUS
<1>1. UNCHANGED data /\ pc = "header"
    BY DEF ReadHeader
<1>2. CASE pc' = "error" /\ UNCHANGED records
    <2>1. RecordIsRight'
        BY <1>1, <1>2, RecordsKept DEF RecordIsRight
    <2> QED
        BY <1>2, <2>1 DEF NInv, QuestionIsRight, CallIsRight
<1>3. CASE /\ pos' = 12 /\ records' = << >>
           /\ IF Questioned(header') THEN ReadName("question", 12)
                                     ELSE NextRecord(header', 0)
    <2>1. CASE Questioned(header') /\ ReadName("question", 12)
        <3>1. /\ pc' = "name" /\ call'.of = "question" /\ call'.pos = 12
              /\ call'.name = << >>
            BY <2>1, NewCall
        <3>2. OnTheWay(data', pos', call'.pos, call'.name)
            <4>1. data' \in Strings
                BY DEF IInv, TypeOK
            <4> QED
                BY <1>3, <3>1, <4>1, WayBegins
        <3> QED
            BY <1>3, <3>1, <3>2 DEF NInv, QuestionIsRight, CallIsRight, RecordIsRight
    <2>2. CASE ~Questioned(header') /\ NextRecord(header', 0)
        <3>1. CallIsRight' /\ (pc' = "done" \/ (pc' = "name" /\ call'.of = "owner"))
            BY <2>2, NextRecordNames
        <3> QED
            BY <1>3, <2>2, <3>1 DEF NInv, QuestionIsRight, RecordIsRight
    <2> QED
        BY <1>3, <2>1, <2>2
<1> QED
    BY <1>2, <1>3 DEF ReadHeader

LEMMA ReadTypeAndClassNames == IInv /\ IInv' /\ NInv /\ ReadTypeAndClass => NInv'
<1> SUFFICES ASSUME IInv, IInv', NInv, ReadTypeAndClass PROVE NInv'
    OBVIOUS
<1>1. UNCHANGED <<data, header, records>> /\ pc = "type_class"
    BY DEF ReadTypeAndClass
<1>2. CASE pc' = "error"
    <2>1. RecordIsRight'
        BY <1>1, <1>2, RecordsKept DEF RecordIsRight
    <2> QED
        BY <1>2, <2>1 DEF NInv, QuestionIsRight, CallIsRight
<1>3. CASE /\ NextRecord(header, 0)
           /\ question' = [question EXCEPT !.type = U16(data, pos),
                                           !.class = U16(data, pos + 2)]
    <2>1. CallIsRight' /\ (pc' = "done" \/ (pc' = "name" /\ call'.of = "owner"))
        BY <1>3, NextRecordNames
    <2>2. question'.name = question.name
        BY <1>3 DEF IInv, TypeOK, Question
    <2>3. QuestionIsRight'
        BY <1>1, <2>2 DEF NInv, QuestionIsRight
    <2>4. RecordIsRight'
        BY <1>1, <2>1, RecordsKept DEF RecordIsRight
    <2> QED
        BY <2>1, <2>3, <2>4 DEF NInv
<1> QED
    BY <1>2, <1>3 DEF ReadTypeAndClass

\* A decoder that reads no name gives none.
LEMMA DecodeGivesNoName ==
    ASSUME NEW r
    PROVE  Decode(r).names = << >>
<1>1. /\ Undecodable.names = << >> /\ Undecoded.names = << >>
      /\ \A chunks : Decoded(<< >>, chunks).names = << >>
    BY DEF Undecodable, Undecoded, Decoded
<1> DEFINE Fixed(n) == IF r.length = n THEN Decoded(<< >>, <<Chunk(0, n)>>) ELSE Undecodable
           textSize == [i \in 0..r.length - 1 |-> At(Rdata(r), i)]
           optionSize == [i \in 0..r.length - 4 |-> U16(Rdata(r), i + 2)]
<1>2. \A n : Fixed(n).names = << >>
    BY <1>1
<1> HIDE DEF Fixed, textSize, optionSize
<1>3. Decode(r) \in {Fixed(4), Fixed(16), Decoded(<< >>, Pieces(Rdata(r), 1, textSize)),
                    Decoded(<< >>, Pieces(Rdata(r), 4, optionSize)),
                    Undecodable, Undecoded}
    BY DEF Decode, Fixed, textSize, optionSize
<1> QED
    BY <1>1, <1>2, <1>3

LEMMA ReadRecordNames == IInv /\ IInv' /\ NInv /\ ReadRecord => NInv'
<1> SUFFICES ASSUME IInv, IInv', NInv, ReadRecord PROVE NInv'
    OBVIOUS
<1>1. UNCHANGED <<data, header, question>> /\ pc = "record" /\ rr \in Record
    BY DEF ReadRecord, IInv, TypeOK
<1>2. CASE pc' = "error" /\ UNCHANGED records
    <2>1. RecordIsRight'
        BY <1>1, <1>2, RecordsKept DEF RecordIsRight
    <2> QED
        BY <1>2, <2>1 DEF NInv, QuestionIsRight, CallIsRight
<1>3. CASE ~(pos + 10 > Len(data) \/ pos + 10 + U16(data, pos + 8) > Len(data))
    <2> DEFINE r == [first |-> rr.first, name |-> rr.name,
                     type |-> U16(data, pos), class |-> U16(data, pos + 2),
                     ttl |-> <<U16(data, pos + 4), U16(data, pos + 6)>>,
                     length |-> U16(data, pos + 8), at |-> pos + 10,
                     parsed |-> Undecoded]
               s == [r EXCEPT !.parsed = Decode(r)]
    <2>1. /\ r.first = rr.first /\ r.name = rr.name /\ r.parsed.names = << >>
          /\ s.first = rr.first /\ s.name = rr.name /\ s.parsed = Decode(r)
        BY DEF Undecoded
    <2>2. \/ HasName(r) /\ rr' = r /\ ReadName("rdata", NameAt(r)) /\ UNCHANGED records
          \/ ~HasName(r) /\ KeepRecord(s)
        BY <1>3 DEF ReadRecord
    <2> HIDE DEF r, s
    <2>3. OwnNameIsRight(rr)
        BY <1>1 DEF NInv, RecordIsRight
    <2>4. CASE HasName(r) /\ rr' = r /\ ReadName("rdata", NameAt(r)) /\ UNCHANGED records
        <3>1. NameAt(r) \in Nat
            BY DEF NameAt
        <3>2. /\ pc' = "name" /\ call'.of = "rdata" /\ call'.pos = NameAt(rr')
              /\ call'.name = << >>
            BY <2>4, <3>1, NewCall
        <3>3. Rdata(rr)' \in Strings
            <4>1. /\ data' \in Strings /\ rr'.at \in Nat /\ rr'.length \in Nat
                  /\ rr'.at + rr'.length <= Len(data')
                BY <3>2, WordRange DEF IInv, TypeOK, RdataIsRead, RecordsInOrder, Record
            <4> QED
                BY <4>1, BytesType DEF Rdata
        <3>4. CallIsRight'
            <4>1. OnTheWay(Rdata(rr)', NameAt(rr'), call'.pos, call'.name)
                BY <2>4, <3>1, <3>2, <3>3, WayBegins
            <4> QED
                BY <3>2, <4>1 DEF CallIsRight
        <3>5. OwnNameIsRight(rr)' /\ FirstNameIsRight(rr)'
            BY <1>1, <2>1, <2>3, <2>4 DEF OwnNameIsRight, FirstNameIsRight
        <3>6. RecordIsRight'
            BY <1>1, <2>4, <3>2, <3>5, RecordsKept DEF RecordIsRight
        <3>7. QuestionIsRight'
            BY <1>1, <3>2 DEF NInv, QuestionIsRight
        <3> QED
            BY <3>4, <3>6, <3>7 DEF NInv
    <2>5. CASE ~HasName(r) /\ KeepRecord(s)
        <3>1. OwnNameIsRight(s)
            BY <2>1, <2>3 DEF OwnNameIsRight
        <3>2. FirstNameIsRight(s)
            BY <2>1, <2>5, DecodeGivesNoName DEF FirstNameIsRight
        <3>3. s \in Record
            BY <2>5 DEF KeepRecord, IInv, TypeOK
        <3> QED
            BY <1>1, <2>5, <3>1, <3>2, <3>3, KeepNames
    <2> QED
        BY <2>2, <2>4, <2>5
<1> QED
    BY <1>2, <1>3 DEF ReadRecord

\* A record whose rdata had names is kept once it is decoded.
LEMMA KeepParsedNames ==
    ASSUME IInv, IInv', NInv, pc = "name", call.of = "rdata", NEW parsed \in ParsedValue,
           parsed.names # << >> => IsNameAt(parsed.names[1], Rdata(rr), NameAt(rr)),
           KeepRecord([rr EXCEPT !.parsed = parsed]),
           UNCHANGED <<data, header, question>>
    PROVE  NInv'
<1> DEFINE r == [rr EXCEPT !.parsed = parsed]
<1>1. rr \in Record
    BY DEF IInv, TypeOK
<1>2. /\ r \in Record /\ r.first = rr.first /\ r.at = rr.at /\ r.length = rr.length
      /\ r.type = rr.type /\ r.parsed = parsed
    BY <1>1, KeepParsed
<1>3. r.name = rr.name
    BY <1>1 DEF Record
<1>4. KeepRecord(r)
    OBVIOUS
<1> HIDE DEF r
<1>5. OwnNameIsRight(r)
    BY <1>2, <1>3 DEF NInv, RecordIsRight, OwnNameIsRight
<1>6. FirstNameIsRight(r)
    BY <1>2 DEF FirstNameIsRight, Rdata, NameAt
<1> QED
    BY <1>2, <1>4, <1>5, <1>6, KeepNames

\* A name that throws leaves none in its record.
LEMMA ThrowNames ==
    ASSUME IInv, IInv', NInv, pc = "name", NEW how \in {"error", "loop"}, Throw(how),
           UNCHANGED <<data, header, question>>
    PROVE  NInv'
<1>1. CASE call.of = "rdata" /\ KeepRecord([rr EXCEPT !.parsed = Undecodable])
    <2>1. Undecodable.names = << >>
        BY DEF Undecodable
    <2> QED
        BY <1>1, <2>1, ParsedTypes, KeepParsedNames
<1>2. CASE pc' = how /\ UNCHANGED records
    <2>1. RecordIsRight'
        BY <1>2, RecordsKept DEF RecordIsRight
    <2> QED
        BY <1>2, <2>1 DEF NInv, QuestionIsRight, CallIsRight
<1> QED
    BY <1>1, <1>2 DEF Throw

\* Where the name of the call under way begins.
Start == IF call.of = "rdata" THEN NameAt(rr) ELSE pos

\* A turn of readName's loop that goes the way the format goes.
LEMMA TurnNames ==
    ASSUME IInv, NInv, pc = "name", call.steps < MaxSteps,
           NEW p \in Nat, NEW jumped \in BOOLEAN, NEW original \in Nat, NEW name \in Strings,
           Turn(p, jumped, original, name),
           UNCHANGED <<data, pos, header, question>>,
           OnTheWay(Buffer, Start, call.pos, call.name) => OnTheWay(Buffer, Start, p, name)
    PROVE  NInv'
<1>1. UNCHANGED <<pc, records, rr>> /\ call \in Call
    BY DEF Turn, IInv, TypeOK
<1>2. call'.of = call.of /\ call'.pos = p /\ call'.name = name
    BY <1>1, NextTurn
<1>3. QuestionIsRight'
    BY <1>1, <1>2 DEF NInv, QuestionIsRight
<1>4. RecordIsRight'
    <2>1. OwnNameIsRight(rr) => OwnNameIsRight(rr)'
        BY <1>1 DEF OwnNameIsRight
    <2>2. FirstNameIsRight(rr) => FirstNameIsRight(rr)'
        BY <1>1 DEF FirstNameIsRight, Rdata
    <2> QED
        BY <1>1, <1>2, <2>1, <2>2, RecordsKept DEF NInv, RecordIsRight
<1>5. CallIsRight'
    <2>1. CASE call.of = "rdata"
        <3>1. Rdata(rr)' = Rdata(rr) /\ NameAt(rr') = NameAt(rr)
            BY <1>1 DEF Rdata
        <3>2. rr.parsed.names = << >> => OnTheWay(Rdata(rr), NameAt(rr), p, name)
            BY <2>1 DEF NInv, CallIsRight, Buffer, Start
        <3> QED
            BY <1>1, <1>2, <2>1, <3>1, <3>2 DEF CallIsRight
    <2>2. CASE call.of # "rdata"
        <3>1. OnTheWay(data, pos, p, name)
            BY <2>2 DEF NInv, CallIsRight, Buffer, Start
        <3>2. call.of = "question" => pos = 12
            BY DEF NInv, CallIsRight
        <3> QED
            BY <1>1, <1>2, <2>2, <3>1, <3>2 DEF CallIsRight
    <2> QED
        BY <2>1, <2>2
<1> QED
    BY <1>3, <1>4, <1>5 DEF NInv

LEMMA StartType == IInv => Start \in Nat
BY DEF IInv, TypeOK, Start, NameAt

LEMMA TooManyStepsNames == IInv /\ IInv' /\ NInv /\ TooManySteps => NInv'
BY ThrowNames DEF TooManySteps

LEMMA FollowPointerNames == IInv /\ IInv' /\ NInv /\ FollowPointer => NInv'
<1> SUFFICES ASSUME IInv, IInv', NInv, FollowPointer PROVE NInv'
    OBVIOUS
<1>1. /\ pc = "name" /\ call.pos < Len(Buffer) /\ call.steps < MaxSteps
      /\ At(Buffer, call.pos) >= 192
      /\ UNCHANGED <<data, pos, header, question>>
    BY DEF FollowPointer, InLoop, Size
<1>2. CASE Throw("error")
    BY <1>1, <1>2, ThrowNames
<1>3. CASE /\ ~(call.pos + 1 >= Len(Buffer))
           /\ Turn(U16(Buffer, call.pos) - 256 * 192, TRUE,
                   IF call.jumped THEN call.original ELSE call.pos + 2, call.name)
    <2> DEFINE original == IF call.jumped THEN call.original ELSE call.pos + 2
               p == U16(Buffer, call.pos) - 256 * 192
    <2>1. /\ call.pos \in Nat /\ call.original \in Nat /\ call.name \in Strings
          /\ call.jumped \in BOOLEAN /\ Buffer \in Strings /\ Len(Buffer) \in Nat
        BY <1>1, BufferType DEF IInv, TypeOK, Call
    <2>2. p \in Nat
        <3>1. At(Buffer, call.pos) \in Byte /\ At(Buffer, call.pos + 1) \in Byte
            BY <1>3, <2>1, AtType
        <3> QED
            BY <1>1, <3>1, ByteRange DEF U16
    <2>3. original \in Nat
        BY <2>1
    <2>4. OnTheWay(Buffer, Start, call.pos, call.name) =>
              OnTheWay(Buffer, Start, p, call.name)
        BY <1>1, <2>1, StartType, WayThroughPointer
    <2>5. Turn(p, TRUE, original, call.name)
        BY <1>3
    <2> HIDE DEF original, p
    <2> QED
        BY <1>1, <2>1, <2>2, <2>3, <2>4, <2>5, TurnNames
<1> QED
    BY <1>2, <1>3 DEF FollowPointer

LEMMA AppendLabelNames == IInv /\ IInv' /\ NInv /\ AppendLabel => NInv'
<1> SUFFICES ASSUME IInv, IInv', NInv, AppendLabel PROVE NInv'
    OBVIOUS
<1>1. /\ pc = "name" /\ call.pos < Len(Buffer) /\ call.steps < MaxSteps
      /\ Size \in 1..191
      /\ UNCHANGED <<data, pos, header, question>>
    BY DEF AppendLabel, InLoop
<1>2. CASE Throw("error")
    BY <1>1, <1>2, ThrowNames
<1>3. CASE /\ ~(call.pos + 1 + Size > Len(Buffer))
           /\ Turn(call.pos + 1 + Size, call.jumped, call.original,
                   Join(call.name, Bytes(Buffer, call.pos + 1, Size)))
    <2> DEFINE name == Join(call.name, Bytes(Buffer, call.pos + 1, Size))
    <2>1. /\ call.pos \in Nat /\ call.original \in Nat /\ call.name \in Strings
          /\ call.jumped \in BOOLEAN /\ Buffer \in Strings /\ Len(Buffer) \in Nat
        BY <1>1, BufferType DEF IInv, TypeOK, Call
    <2>2. /\ call.pos + 1 \in Nat /\ Size \in Nat /\ call.pos + 1 + Size \in Nat
          /\ call.pos + 1 + Size <= Len(Buffer) /\ Size > 0 /\ Size <= 191
        BY <1>1, <1>3, <2>1
    <2>3. name \in Strings
        <3>1. Bytes(Buffer, call.pos + 1, Size) \in Strings
            BY <2>1, <2>2, BytesType
        <3> QED
            BY <2>1, <3>1, JoinType
    <2>4. OnTheWay(Buffer, Start, call.pos, call.name) =>
              OnTheWay(Buffer, Start, call.pos + 1 + Size, name)
        BY <1>1, <2>1, <2>2, StartType, WayThroughLabel DEF Size
    <2>5. Turn(call.pos + 1 + Size, call.jumped, call.original, name)
        BY <1>3
    <2> HIDE DEF name
    <2> QED
        BY <1>1, <2>1, <2>2, <2>3, <2>4, <2>5, TurnNames
<1> QED
    BY <1>2, <1>3 DEF AppendLabel

LEMMA DecodeNameNames ==
    ASSUME IInv, IInv', NInv, pc = "name", call.of = "rdata", NEW end \in Nat,
           DecodeName(end), UNCHANGED <<data, header, question>>,
           call.pos < Len(Buffer) => Size = 0
    PROVE  NInv'
<1> DEFINE names == Append(rr.parsed.names, call.name)
<1>1. /\ rr \in Record /\ rr.parsed \in ParsedValue /\ call \in Call /\ call.name \in Strings
      /\ call.pos \in Nat /\ rr.parsed.names \in Seq(Strings) /\ rr.length \in Nat
    BY WordRange DEF IInv, TypeOK, Record, Call, ParsedValue
<1>2. names \in Seq(Strings) /\ names # << >>
    <2>1. names \in Seq(Strings) /\ Len(names) = Len(rr.parsed.names) + 1
        BY <1>1
    <2>2. Len(names) # 0
        BY <1>1, <2>1
    <2> QED
        BY <2>1, <2>2
<1>3. IsNameAt(names[1], Rdata(rr), NameAt(rr))
    <2>1. CASE rr.parsed.names = << >>
        <3>1. names[1] = call.name
            BY <1>1, <2>1
        <3>2. Buffer = Rdata(rr) /\ Buffer \in Strings /\ NameAt(rr) \in Nat
            BY BufferType DEF NameAt
        <3>3. OnTheWay(Rdata(rr), NameAt(rr), call.pos, call.name)
            BY <2>1 DEF NInv, CallIsRight
        <3>4. IsNameAt(call.name, Rdata(rr), NameAt(rr))
            BY <1>1, <3>2, <3>3, WayEnds DEF Size
        <3> QED
            BY <3>1, <3>4
    <2>2. CASE rr.parsed.names # << >>
        <3>1. names[1] = rr.parsed.names[1]
            BY <1>1, <2>2
        <3> QED
            BY <2>2, <3>1 DEF NInv, RecordIsRight, FirstNameIsRight
    <2> QED
        BY <2>1, <2>2
<1>4. CASE /\ rr' = [rr EXCEPT !.parsed.names = names]
           /\ ReadName("rdata", end) /\ UNCHANGED records
    <2>1. pc' = "name" /\ call'.of = "rdata"
        BY <1>4, NewCall
    <2>2. /\ rr'.parsed.names = names /\ rr'.first = rr.first /\ rr'.name = rr.name
          /\ rr'.at = rr.at /\ rr'.length = rr.length /\ rr'.type = rr.type
        BY <1>1, <1>4 DEF Record, ParsedValue
    <2> HIDE DEF names
    <2>3. Rdata(rr)' = Rdata(rr) /\ NameAt(rr') = NameAt(rr)
        BY <2>2 DEF Rdata, NameAt
    <2>4. OwnNameIsRight(rr)'
        BY <2>2 DEF NInv, RecordIsRight, OwnNameIsRight
    <2>5. FirstNameIsRight(rr)'
        BY <1>3, <2>2, <2>3 DEF FirstNameIsRight
    <2>6. RecordIsRight'
        BY <1>4, <2>1, <2>4, <2>5, RecordsKept DEF RecordIsRight
    <2>7. CallIsRight'
        BY <1>2, <2>1, <2>2 DEF CallIsRight
    <2>8. QuestionIsRight'
        BY <2>1 DEF NInv, QuestionIsRight
    <2> QED
        BY <2>6, <2>7, <2>8 DEF NInv
<1> HIDE DEF names
<1>5. ASSUME NEW chunks \in Seq([first : Nat, size : Nat]),
             KeepRecord([rr EXCEPT !.parsed = Decoded(names, chunks)])
      PROVE  NInv'
    <2>1. Decoded(names, chunks) \in ParsedValue /\ Decoded(names, chunks).names = names
        BY <1>2, ParsedTypes
    <2> QED
        BY <1>3, <1>5, <2>1, KeepParsedNames
<1>6. CASE KeepRecord([rr EXCEPT !.parsed = Undecodable])
    <2>1. Undecodable.names = << >>
        BY DEF Undecodable
    <2> QED
        BY <1>6, <2>1, ParsedTypes, KeepParsedNames
<1>7. /\ << >> \in Seq([first : Nat, size : Nat])
      /\ <<Chunk(0, 2)>> \in Seq([first : Nat, size : Nat])
      /\ <<Chunk(end, 20)>> \in Seq([first : Nat, size : Nat])
    BY DEF Chunk
<1>8. \/ /\ rr' = [rr EXCEPT !.parsed.names = names]
         /\ ReadName("rdata", end) /\ UNCHANGED records
      \/ KeepRecord([rr EXCEPT !.parsed = Decoded(names, <<Chunk(end, 20)>>)])
      \/ KeepRecord([rr EXCEPT !.parsed = Undecodable])
      \/ KeepRecord([rr EXCEPT !.parsed = Decoded(names, <<Chunk(0, 2)>>)])
      \/ KeepRecord([rr EXCEPT !.parsed = Decoded(names, << >>)])
    BY DEF DecodeName, names
<1> QED
    BY <1>4, <1>5, <1>6, <1>7, <1>8

LEMMA EndOfNameNames == IInv /\ IInv' /\ NInv /\ EndOfName => NInv'
<1> SUFFICES ASSUME IInv, IInv', NInv, EndOfName PROVE NInv'
    OBVIOUS
<1> DEFINE here == IF call.pos < Len(Buffer) THEN call.pos + 1 ELSE call.pos
           end  == IF call.jumped THEN call.original ELSE here
<1>1. /\ pc = "name" /\ UNCHANGED <<data, header>>
      /\ call \in Call /\ call.name \in Strings /\ pos \in Nat /\ call.pos \in Nat
      /\ data \in Strings
    BY DEF EndOfName, InLoop, IInv, TypeOK, Call
<1>2. call.pos < Len(Buffer) => Size = 0
    <2>1. Len(Buffer) \in Nat
        BY <1>1, BufferType
    <2> QED
        BY <1>1, <2>1 DEF EndOfName, InLoop
<1>3. end \in Nat
    BY <1>1, <1>2, EndOfNameEnds
<1> HIDE DEF here, end
<1>4. call.of # "rdata" => IsNameAt(call.name, data, pos)
    <2> SUFFICES ASSUME call.of # "rdata" PROVE IsNameAt(call.name, data, pos)
        OBVIOUS
    <2>1. Buffer = data
        BY <1>1, BufferType
    <2>2. OnTheWay(data, pos, call.pos, call.name)
        BY <1>1 DEF NInv, CallIsRight
    <2> QED
        BY <1>1, <1>2, <2>1, <2>2, WayEnds DEF Size
<1>5. CASE /\ call.of = "question" /\ question' = [question EXCEPT !.name = call.name]
           /\ pos' = end /\ pc' = "type_class" /\ UNCHANGED <<call, records, rr>>
    <2>1. question'.name = call.name
        BY <1>5 DEF IInv, TypeOK, Question
    <2>2. pos = 12
        BY <1>1, <1>5 DEF NInv, CallIsRight
    <2>3. QuestionIsRight'
        BY <1>1, <1>4, <1>5, <2>1, <2>2 DEF QuestionIsRight
    <2>4. RecordIsRight'
        BY <1>1, <1>5, RecordsKept DEF RecordIsRight
    <2> QED
        BY <1>5, <2>3, <2>4 DEF NInv, CallIsRight
<1>6. CASE /\ call.of = "owner"
           /\ rr' = [NoRecord EXCEPT !.first = pos, !.name = call.name]
           /\ pos' = end /\ pc' = "record" /\ UNCHANGED <<call, records, question>>
    <2>1. rr'.first = pos /\ rr'.name = call.name
        BY <1>6 DEF NoRecord
    <2>2. OwnNameIsRight(rr)'
        BY <1>1, <1>4, <1>6, <2>1 DEF OwnNameIsRight
    <2>3. RecordIsRight'
        BY <1>1, <1>6, <2>2, RecordsKept DEF RecordIsRight
    <2>4. QuestionIsRight'
        BY <1>1, <1>6 DEF NInv, QuestionIsRight
    <2> QED
        BY <1>6, <2>3, <2>4 DEF NInv, CallIsRight
<1>7. CASE call.of = "rdata" /\ UNCHANGED <<pos, question>> /\ DecodeName(end)
    BY <1>1, <1>2, <1>3, <1>7, DecodeNameNames
<1>8. call.of \in {"question", "owner", "rdata"}
    BY <1>1 DEF IInv, NameIsAhead, Call
<1> QED
    BY <1>5, <1>6, <1>7, <1>8 DEF EndOfName, here, end

LEMMA NamesInvariance == IInv /\ IInv' /\ NInv /\ [Next]_vars => NInv'
<1> SUFFICES ASSUME IInv, IInv', NInv, [Next]_vars PROVE NInv'
    OBVIOUS
<1>1. CASE ReadNext
    BY <1>1, ReadHeaderNames, ReadTypeAndClassNames, ReadRecordNames, TooManyStepsNames,
       FollowPointerNames, AppendLabelNames, EndOfNameNames
       DEF ReadNext
<1>2. CASE Rebuild
    <2>1. pc' = "header" /\ records' = << >>
        BY <1>2 DEF Rebuild
    <2> QED
        BY <2>1 DEF NInv, QuestionIsRight, CallIsRight, RecordIsRight
<1>3. CASE UNCHANGED vars
    <2>1. QuestionIsRight'
        BY <1>3 DEF NInv, QuestionIsRight, vars
    <2>2. CallIsRight'
        BY <1>3 DEF NInv, CallIsRight, Rdata, vars
    <2>3. OwnNameIsRight(rr)' = OwnNameIsRight(rr)
        BY <1>3 DEF OwnNameIsRight, vars
    <2>4. FirstNameIsRight(rr)' = FirstNameIsRight(rr)
        BY <1>3 DEF FirstNameIsRight, Rdata, vars
    <2>5. \A k \in DOMAIN records' :
              OwnNameIsRight(records[k])' /\ FirstNameIsRight(records[k])'
        BY <1>3, RecordsKept DEF vars
    <2>6. RecordIsRight'
        BY <1>3, <2>3, <2>4, <2>5 DEF NInv, RecordIsRight, vars
    <2> QED
        BY <2>1, <2>2, <2>6 DEF NInv
<1> QED
    BY <1>1, <1>2, <1>3 DEF Next

\* From the last record back to the first, each one's data ends inside the packet.
LEMMA RdataType ==
    ASSUME IInv, NEW k \in DOMAIN records
    PROVE  Rdata(records[k]) \in Strings
<1> DEFINE End(j) == records[j].at + records[j].length
           Ended(n) == n < Len(records) => End(Len(records) - n) <= pos
           Fine == {n \in Nat : Ended(n)}
<1>1. /\ Len(records) \in Nat /\ DOMAIN records = 1..Len(records)
      /\ pos \in Nat /\ data \in Strings /\ Len(data) \in Nat
    BY RecordsType DEF IInv, TypeOK
<1>2. \A j \in DOMAIN records :
          records[j].first \in Nat /\ records[j].at \in Nat /\ records[j].length \in Nat
    <2> SUFFICES ASSUME NEW j \in DOMAIN records
                 PROVE  /\ records[j].first \in Nat /\ records[j].at \in Nat
                        /\ records[j].length \in Nat
        OBVIOUS
    <2>1. records[j] \in Record
        BY <1>1 DEF IInv, TypeOK
    <2> QED
        BY <2>1, WordRange DEF Record
<1>3. /\ pos <= Len(data)
      /\ \A j \in DOMAIN records :
            /\ records[j].first + 11 <= records[j].at
            /\ End(j) <= (IF j < Len(records) THEN records[j + 1].first ELSE pos)
    BY DEF IInv, RecordsInOrder
<1>4. Ended(0)
    BY <1>1, <1>3
<1>5. ASSUME NEW n \in Nat, Ended(n), n + 1 < Len(records)
      PROVE  End(Len(records) - (n + 1)) <= pos
    <2> DEFINE j == Len(records) - (n + 1)
    <2>1. j \in DOMAIN records /\ j + 1 \in DOMAIN records /\ j < Len(records)
        BY <1>1, <1>5
    <2>2. j + 1 = Len(records) - n /\ n < Len(records)
        BY <1>1, <1>5
    <2>3. End(j + 1) <= pos
        BY <1>5, <2>2
    <2>4. End(j) <= records[j + 1].first /\ records[j + 1].first + 11 <= records[j + 1].at
        BY <1>3, <2>1
    <2> HIDE DEF j
    <2>5. End(j) <= pos
        BY <1>1, <1>2, <2>1, <2>3, <2>4
    <2> QED
        BY <2>5 DEF j
<1>6. \A n \in Nat : n \in Fine
    <2>1. 0 \in Fine /\ \A n \in Nat : n \in Fine => n + 1 \in Fine
        BY <1>4, <1>5
    <2> HIDE DEF Fine
    <2> QED
        BY <2>1, Induction
<1>7. End(k) <= Len(data)
    <2>1. Len(records) - k \in Nat /\ Len(records) - k < Len(records)
          /\ Len(records) - (Len(records) - k) = k
        BY <1>1
    <2>2. End(k) <= pos
        BY <1>6, <2>1
    <2> QED
        BY <1>1, <1>2, <1>3, <2>2
<1> QED
    BY <1>1, <1>2, <1>7, BytesType DEF Rdata

(***************************************************************************)
(* Whatever readName does with its steps, its bound and its way back: the  *)
(* name it has read of the question or of a record's owner is the one the  *)
(* format finds in the packet, if it finds one, wherever the pointers      *)
(* lead; a name in rdata is, if it is written out there.  (It may not be   *)
(* where it has pointers: MCDnsMessageCompressed.cfg.)                     *)
(***************************************************************************)
THEOREM NamesAreRightTheorem == Spec => []NamesAreRight
<1>1. Init => NInv
    <2>1. Init => pc = "header" /\ records = << >>
        BY DEF Init, Parsing
    <2> QED
        BY <2>1 DEF NInv, QuestionIsRight, CallIsRight, RecordIsRight
<1>2. IInv /\ IInv' /\ NInv /\ [Next]_vars => NInv'
    BY NamesInvariance
<1>3. IInv /\ NInv => NamesAreRight
    <2> SUFFICES ASSUME IInv, NInv, NEW k \in DOMAIN records,
                        records[k].parsed.names # << >>,
                        NEW name \in WrittenOut(Rdata(records[k]), NameAt(records[k]))
                 PROVE  records[k].parsed.names[1] = name
        BY DEF NInv, QuestionIsRight, RecordIsRight, OwnNameIsRight, IsNameAt, NamesAreRight,
               Finished
    <2>1. Rdata(records[k]) \in Strings /\ NameAt(records[k]) \in Nat
        BY RdataType DEF NameAt
    <2>2. name \in NamesIn(Rdata(records[k]), NameAt(records[k]))
        BY <2>1, WrittenOutIsThere
    <2> QED
        BY <2>2 DEF NInv, RecordIsRight, FirstNameIsRight, IsNameAt
<1> QED
    BY <1>1, <1>2, <1>3, AlwaysInv, PTL DEF Spec
-----------------------------------------------------------------------------
(***************************************************************************)
(* What buildQuery writes of a plain name, and what is read of it again.   *)
(***************************************************************************)

\* Where the labels of a name end.
Ends(name) == {i \in 0..Len(name) : i = Len(name) \/ At(name, i) = Dot}

\* The bytes of a name without a dot at its end: each label behind its size.
WireLen(n) == IF n = << >> THEN 0 ELSE Len(n) + 1
WireByte(n, k) == IF StartsLabel(n, k) THEN LabelEnd(n, k) - k ELSE At(n, k - 1)

LEMMA LabelEndIs ==
    ASSUME NEW name \in Strings, NEW i \in 0..Len(name), NEW e \in i..Len(name),
           e = Len(name) \/ At(name, e) = Dot,
           \A j \in i..e - 1 : At(name, j) # Dot
    PROVE  LabelEnd(name, i) = e
<1> DEFINE f == LabelEnd(name, i)
<1>1. /\ f \in i..Len(name)
      /\ f = Len(name) \/ At(name, f) = Dot
      /\ \A j \in i..f - 1 : At(name, j) # Dot
    BY LabelEndDef
<1> HIDE DEF f
<1>2. Len(name) \in Nat /\ i \in Nat /\ e \in Nat /\ f \in Nat
    BY <1>1 DEF Strings
<1>3. ~(e < f) /\ ~(f < e)
    BY <1>1, <1>2
<1>4. f = e
    BY <1>2, <1>3
<1> QED
    BY <1>4 DEF f

\* The dot that may stand at the end is no part of a label.
LEMMA LastDotDropped ==
    ASSUME NEW name \in Strings, Plain(name)
    PROVE  LET n == WithoutLastDot(name)
           IN  /\ n \in Strings /\ Len(n) \in Nat /\ Len(name) \in {Len(n), Len(n) + 1}
               /\ \A i \in 0..Len(n) - 1 : At(name, i) = At(n, i)
               /\ Len(name) = Len(n) + 1 => At(name, Len(n)) = Dot
               /\ n # << >> => Len(n) > 0 /\ At(n, Len(n) - 1) # Dot /\ At(n, 0) # Dot
               /\ n = << >> => name = << >>
               /\ Len(name) = Len(n) => name = n
<1> DEFINE n == WithoutLastDot(name)
<1>1. Len(name) \in Nat
    BY DEF Strings
<1>2. CASE name # << >> /\ name[Len(name)] = Dot
    <2>1. n = SubSeq(name, 1, Len(name) - 1) /\ Len(name) > 0
        BY <1>1, <1>2 DEF WithoutLastDot, Strings
    <2>2. n \in Strings /\ Len(n) = Len(name) - 1
        <3>1. /\ 0 \in Nat /\ Len(name) - 1 \in Nat /\ 0 + (Len(name) - 1) <= Len(name)
              /\ 0 + 1 = 1 /\ 0 + (Len(name) - 1) = Len(name) - 1
            BY <1>1, <2>1
        <3>2. /\ Bytes(name, 0, Len(name) - 1) \in Strings
              /\ Len(Bytes(name, 0, Len(name) - 1)) = Len(name) - 1
            BY <3>1, BytesType
        <3> QED
            BY <2>1, <3>1, <3>2 DEF Bytes
    <2>10. \A i \in 0..Len(n) - 1 : At(name, i) = At(n, i)
        <3>1. \A i \in 0..Len(name) - 2 : SubSeq(name, 1, Len(name) - 1)[i + 1] = name[i + 1]
            BY <1>1, <2>1 DEF Strings
        <3> QED
            BY <1>1, <2>1, <2>2, <3>1 DEF At
    <2> HIDE DEF n
    <2>3. At(name, Len(n)) = Dot
        BY <1>1, <1>2, <2>1, <2>2 DEF At
    <2>4. Len(n) \in Nat /\ Len(n) \in 0..Len(name) /\ Len(name) = Len(n) + 1
        BY <1>1, <2>1, <2>2
    <2>5. Len(n) \in Ends(name) /\ 0 \notin Ends(name)
        BY <1>2, <2>3, <2>4 DEF Ends, Plain
    <2>6. Len(n) > 0
        BY <2>4, <2>5
    <2>7. At(n, Len(n) - 1) # Dot
        <3> SUFFICES ASSUME At(n, Len(n) - 1) = Dot PROVE FALSE
            OBVIOUS
        <3>1. Len(n) - 1 \in 0..Len(n) - 1 /\ Len(n) - 1 \in 0..Len(name)
            BY <2>4, <2>6
        <3>2. Len(n) - 1 \in Ends(name)
            BY <2>10, <3>1 DEF Ends
        <3>3. Len(n) # Len(n) - 1 + 1 \/ Len(n) = Len(name)
            BY <2>5, <3>2 DEF Ends, Plain
        <3> QED
            BY <2>4, <3>3
    <2>8. At(n, 0) # Dot
        <3>1. 0 \in 0..Len(n) - 1 /\ 0 \in 0..Len(name)
            BY <2>4, <2>6
        <3> QED
            BY <2>10, <2>5, <3>1 DEF Ends
    <2>9. n # << >>
        BY <2>6
    <2> QED
        BY <2>2, <2>3, <2>4, <2>6, <2>7, <2>8, <2>9, <2>10 DEF n
<1>3. CASE ~(name # << >> /\ name[Len(name)] = Dot)
    <2>1. n = name
        BY <1>3 DEF WithoutLastDot
    <2>2. ASSUME name # << >>
          PROVE  Len(name) > 0 /\ At(name, Len(name) - 1) # Dot /\ At(name, 0) # Dot
        <3>1. Len(name) > 0
            BY <1>1, <2>2 DEF Strings
        <3>2. At(name, Len(name) - 1) # Dot
            BY <1>1, <1>3, <2>2, <3>1 DEF At
        <3>3. 0 \notin Ends(name) /\ 0 \in 0..Len(name)
            BY <1>1, <2>2 DEF Ends, Plain
        <3> QED
            BY <3>1, <3>2, <3>3 DEF Ends
    <2> QED
        BY <1>1, <2>1, <2>2
<1> QED
    BY <1>2, <1>3

\* Its labels have a size of 1 to 63, and they are less than the steps there are.
LEMMA PlainLabels ==
    ASSUME NEW name \in Strings, Plain(name)
    PROVE  LET n == WithoutLastDot(name)
           IN  /\ \A i \in 0..Len(n) :
                    n # << >> /\ StartsLabel(n, i) =>
                        /\ i < Len(n) /\ LabelEnd(n, i) - i \in 1..63
                        /\ LabelEnd(name, i) = LabelEnd(n, i)
               /\ IsFiniteSet(Ends(n)) /\ Cardinality(Ends(n)) \in Nat
               /\ Cardinality(Ends(n)) < MaxSteps
<1> DEFINE n == WithoutLastDot(name)
<1>0. /\ n \in Strings /\ Len(n) \in Nat /\ Len(name) \in {Len(n), Len(n) + 1}
      /\ \A i \in 0..Len(n) - 1 : At(name, i) = At(n, i)
      /\ Len(name) = Len(n) + 1 => At(name, Len(n)) = Dot
      /\ n # << >> => Len(n) > 0 /\ At(n, Len(n) - 1) # Dot /\ At(n, 0) # Dot
    BY LastDotDropped
<1> HIDE DEF n
<1>1. \A e \in Ends(n) : e \in Ends(name) /\ e \in Nat
    BY <1>0 DEF Ends
<1>2. ASSUME NEW i \in 0..Len(n), n # << >>, StartsLabel(n, i)
      PROVE  /\ i < Len(n) /\ LabelEnd(n, i) - i \in 1..63
             /\ LabelEnd(name, i) = LabelEnd(n, i)
    <2> DEFINE e == LabelEnd(n, i)
    <2>1. /\ e \in i..Len(n)
          /\ e = Len(n) \/ At(n, e) = Dot
          /\ \A j \in i..e - 1 : At(n, j) # Dot
        BY <1>0, LabelEndDef
    <2> HIDE DEF e
    <2>2. i < Len(n)
        BY <1>0, <1>2 DEF StartsLabel
    <2>3. LabelEnd(name, i) = e
        <3>1. e \in i..Len(name) /\ i \in 0..Len(name)
            BY <1>0, <2>1
        <3>2. e = Len(name) \/ At(name, e) = Dot
            BY <1>0, <2>1
        <3>3. \A j \in i..e - 1 : At(name, j) # Dot
            <4>1. \A j \in i..e - 1 : j \in 0..Len(n) - 1
                BY <1>0, <2>1
            <4> QED
                BY <1>0, <2>1, <4>1
        <3> QED
            BY <3>1, <3>2, <3>3, LabelEndIs
    <2>4. e # i
        <3> SUFFICES ASSUME e = i PROVE FALSE
            OBVIOUS
        <3>1. At(n, i) = Dot /\ i # 0
            BY <1>0, <1>2, <2>1, <2>2
        <3>2. i - 1 \in Nat /\ At(n, i - 1) = Dot
            BY <1>0, <1>2, <3>1 DEF StartsLabel
        <3>3. i \in Ends(n) /\ i - 1 \in Ends(n)
            BY <1>0, <2>2, <3>1, <3>2 DEF Ends
        <3>4. i \in Ends(name) /\ i - 1 \in Ends(name)
            BY <1>1, <3>3
        <3>5. i # i - 1 + 1 \/ i = Len(name)
            BY <3>4 DEF Ends, Plain
        <3> QED
            BY <1>0, <2>2, <3>5
    <2>5. e - i <= 63
        <3>1. CASE i <= Len(name) - 64
            <4>1. i \in 0..Len(name) - 64
                BY <1>0, <3>1
            <4>2. PICK j \in Ends(name) : j \in i..i + 63
                BY <4>1 DEF Plain, Ends
            <4>3. e <= j
                <5> SUFFICES ASSUME j < e PROVE FALSE
                    BY <1>0, <2>1, <4>2
                <5>1. j \in 0..Len(n) - 1 /\ j \in i..e - 1 /\ j # Len(name)
                    BY <1>0, <2>1, <4>2
                <5>2. At(n, j) = Dot
                    BY <1>0, <4>2, <5>1 DEF Ends
                <5> QED
                    BY <2>1, <5>1, <5>2
            <4> QED
                BY <1>0, <2>1, <4>2, <4>3
        <3>2. CASE ~(i <= Len(name) - 64)
            BY <1>0, <2>1, <3>2
        <3> QED
            BY <3>1, <3>2
    <2>6. e - i \in 1..63
        BY <1>0, <2>1, <2>4, <2>5
    <2> QED
        BY <2>2, <2>3, <2>6 DEF e
<1>3. IsFiniteSet(Ends(name)) /\ Cardinality(Ends(name)) < MaxSteps
    <2>1. IsFiniteSet(0..Len(name))
        BY <1>0, FS_Interval
    <2>2. IsFiniteSet(Ends(name))
        BY <2>1, FS_Subset DEF Ends
    <2> QED
        BY <2>2 DEF Plain, Ends
<1>4. IsFiniteSet(Ends(n)) /\ Cardinality(Ends(n)) <= Cardinality(Ends(name))
    BY <1>1, <1>3, FS_Subset
<1>5. Cardinality(Ends(n)) \in Nat /\ Cardinality(Ends(name)) \in Nat
    BY <1>3, <1>4, FS_CardinalityType
<1>6. Cardinality(Ends(n)) < MaxSteps
    BY <1>3, <1>4, <1>5, MessageAssumption
<1> QED
    BY <1>2, <1>4, <1>5, <1>6 DEF n

LEMMA SmallSize ==
    ASSUME NEW x \in 1..63
    PROVE  x % 256 = x /\ x # 0
OBVIOUS

LEMMA WireIs ==
    ASSUME NEW name \in Strings, Plain(name)
    PROVE  LET n == WithoutLastDot(name)
           IN  /\ AddLabels(name) \in Strings /\ Len(AddLabels(name)) = WireLen(n)
               /\ \A k \in 0..WireLen(n) - 1 : At(AddLabels(name), k) = WireByte(n, k)
<1> DEFINE n == WithoutLastDot(name)
           last == LastLabel(name)
<1>1. /\ n \in Strings /\ Len(n) \in Nat /\ Len(name) \in {Len(n), Len(n) + 1}
      /\ \A i \in 0..Len(n) - 1 : At(name, i) = At(n, i)
      /\ Len(name) = Len(n) + 1 => At(name, Len(n)) = Dot
      /\ n # << >> => Len(n) > 0 /\ At(n, Len(n) - 1) # Dot
      /\ n = << >> => name = << >>
      /\ Len(name) = Len(n) => name = n
    BY LastDotDropped
<1>2. \A i \in 0..Len(n) :
          n # << >> /\ StartsLabel(n, i) =>
              /\ i < Len(n) /\ LabelEnd(n, i) - i \in 1..63
              /\ LabelEnd(name, i) = LabelEnd(n, i)
    BY PlainLabels
<1>3. /\ last \in 0..Len(name) /\ StartsLabel(name, last)
      /\ LabelEnd(name, last) = Len(name)
    BY LastLabelDef
<1>4. /\ Labels(name) \in Strings /\ Len(Labels(name)) = Len(name) + 1
      /\ \A k \in 1..Len(name) + 1 :
           Labels(name)[k] = IF StartsLabel(name, k - 1) THEN LabelSize(name, k - 1)
                             ELSE name[k - 1]
    BY LabelsType
<1>5. AddLabels(name) \in Strings
    BY AddLabelsType
<1>6. LabelSize(name, last) = (Len(name) - last) % 256
    BY <1>3 DEF LabelSize
<1> HIDE DEF n, last
<1>7. ASSUME n # << >>, NEW k \in 0..Len(n)
      PROVE  At(Labels(name), k) = WireByte(n, k)
    <2>1. /\ k + 1 \in 1..Len(name) + 1 /\ k + 1 - 1 = k
          /\ k > 0 => k - 1 \in 0..Len(n) - 1
        BY <1>1
    <2>2. At(Labels(name), k) =
              IF StartsLabel(name, k) THEN LabelSize(name, k) ELSE name[k]
        BY <1>4, <2>1 DEF At
    <2>3. StartsLabel(name, k) <=> StartsLabel(n, k)
        BY <1>1, <2>1 DEF StartsLabel
    <2>4. CASE StartsLabel(n, k)
        <3>1. LabelEnd(name, k) - k \in 1..63 /\ LabelEnd(name, k) = LabelEnd(n, k)
            BY <1>2, <1>7, <2>4
        <3>2. (LabelEnd(name, k) - k) % 256 = LabelEnd(name, k) - k
            BY <3>1, SmallSize
        <3> QED
            BY <2>2, <2>3, <2>4, <3>1, <3>2 DEF LabelSize, WireByte
    <2>5. CASE ~StartsLabel(n, k)
        <3>1. k > 0
            BY <1>1, <2>5 DEF StartsLabel
        <3>2. name[k] = At(name, k - 1)
            BY <2>1, <3>1 DEF At
        <3>3. At(name, k - 1) = At(n, k - 1)
            BY <1>1, <2>1, <3>1
        <3> QED
            BY <2>2, <2>3, <2>5, <3>2, <3>3 DEF WireByte
    <2> QED
        BY <2>4, <2>5
<1>8. CASE n = << >>
    <2>1. name = << >> /\ Len(name) = 0
        BY <1>1, <1>8
    <2>2. last = 0 /\ LabelSize(name, last) = 0
        BY <1>3, <1>6, <2>1
    <2>3. AddLabels(name) = SubSeq(Labels(name), 1, 0)
        BY <2>2 DEF AddLabels, last
    <2>4. Len(AddLabels(name)) = 0
        BY <1>4, <2>3 DEF Strings
    <2> QED
        BY <1>5, <1>8, <2>4 DEF WireLen, n
<1>9. CASE n # << >> /\ Len(name) = Len(n) + 1
    <2>1. last = Len(name)
        <3> SUFFICES ASSUME last # Len(name) PROVE FALSE
            OBVIOUS
        <3>1. last \in 0..Len(name) - 1 /\ Len(n) \in last..Len(name) - 1
            BY <1>1, <1>3, <1>9
        <3>2. At(name, Len(n)) # Dot
            BY <1>3, <3>1, LabelEndDef
        <3> QED
            BY <1>1, <1>9, <3>2
    <2>2. LabelSize(name, last) = 0
        BY <1>1, <1>6, <2>1
    <2>3. AddLabels(name) = Bytes(Labels(name), 0, Len(n) + 1)
        <3>1. AddLabels(name) = SubSeq(Labels(name), 1, Len(name))
            BY <2>1, <2>2 DEF AddLabels, last
        <3>2. 0 + 1 = 1 /\ 0 + (Len(n) + 1) = Len(name)
            BY <1>1, <1>9
        <3> QED
            BY <3>1, <3>2 DEF Bytes
    <2>4. /\ Len(AddLabels(name)) = Len(n) + 1
          /\ \A k \in 0..Len(n) : At(AddLabels(name), k) = At(Labels(name), k)
        <3>1. 0 \in Nat /\ Len(n) + 1 \in Nat /\ 0 + (Len(n) + 1) <= Len(Labels(name))
            BY <1>1, <1>4, <1>9
        <3>2. /\ Len(Bytes(Labels(name), 0, Len(n) + 1)) = Len(n) + 1
              /\ \A k \in 0..Len(n) + 1 - 1 :
                   At(Bytes(Labels(name), 0, Len(n) + 1), k) = At(Labels(name), 0 + k)
            BY <1>4, <3>1, BytesType
        <3>3. \A k \in 0..Len(n) : k \in 0..Len(n) + 1 - 1 /\ 0 + k = k
            BY <1>1
        <3> QED
            BY <2>3, <3>2, <3>3
    <2>5. \A k \in 0..WireLen(n) - 1 : k \in 0..Len(n)
        BY <1>1, <1>9 DEF WireLen
    <2> QED
        BY <1>5, <1>7, <1>9, <2>4, <2>5 DEF WireLen, n
<1>10. CASE n # << >> /\ Len(name) = Len(n)
    <2>1. name = n /\ StartsLabel(n, last) /\ last \in 0..Len(n)
        BY <1>1, <1>3, <1>10
    <2>2. LabelEnd(name, last) - last \in 1..63
        BY <1>2, <1>10, <2>1
    <2>3. (Len(name) - last) % 256 # 0
        BY <1>3, <2>2, SmallSize
    <2>4. AddLabels(name) = Labels(name)
        BY <1>6, <2>3 DEF AddLabels, last
    <2>5. \A k \in 0..WireLen(n) - 1 : k \in 0..Len(n)
        <3>1. WireLen(n) = Len(n) + 1 /\ Len(n) \in Nat
            BY <1>1, <1>10 DEF WireLen
        <3> QED
            BY <3>1
    <2>6. Len(Labels(name)) = WireLen(n)
        BY <1>4, <1>10 DEF WireLen
    <2> QED
        BY <1>5, <1>7, <1>10, <2>4, <2>5, <2>6 DEF n
<1> QED
    BY <1>1, <1>8, <1>9, <1>10

LEMMA ConcatAt ==
    ASSUME NEW s \in Strings, NEW t \in Strings
    PROVE  /\ \A k \in 0..Len(s) - 1 : At(s \o t, k) = At(s, k)
           /\ \A k \in 0..Len(t) - 1 : At(s \o t, Len(s) + k) = At(t, k)
<1>1. Len(s) \in Nat /\ Len(t) \in Nat
    BY DEF Strings
<1>2. \A k \in 0..Len(s) - 1 : k + 1 \in 1..Len(s)
    BY <1>1
<1>3. \A k \in 0..Len(t) - 1 : k + 1 \in 1..Len(t) /\ Len(s) + k + 1 = Len(s) + (k + 1)
    BY <1>1
<1>4. \A j \in 1..Len(s) : (s \o t)[j] = s[j]
    BY DEF Strings
<1>5. \A j \in 1..Len(t) : (s \o t)[Len(s) + j] = t[j]
    BY DEF Strings
<1> QED
    BY <1>2, <1>3, <1>4, <1>5 DEF At

LEMMA AddUint16Is ==
    ASSUME NEW v \in Word
    PROVE  U16(AddUint16(v), 0) = v
<1>1. v \in Nat
    BY WordRange
<1>2. At(AddUint16(v), 0) = v \div 256 /\ At(AddUint16(v), 0 + 1) = v % 256
    BY DEF At, AddUint16
<1>3. 256 * (v \div 256) + (v % 256) = v
    BY <1>1
<1> QED
    BY <1>2, <1>3 DEF U16

\* What stands in a part stands in the whole.
LEMMA ConcatU16 ==
    ASSUME NEW s \in Strings, NEW t \in Strings
    PROVE  /\ \A k \in Nat : k + 2 <= Len(s) => U16(s \o t, k) = U16(s, k)
           /\ \A k \in Nat : k + 2 <= Len(t) => U16(s \o t, Len(s) + k) = U16(t, k)
<1>1. Len(s) \in Nat /\ Len(t) \in Nat
    BY DEF Strings
<1>2. ASSUME NEW k \in Nat, k + 2 <= Len(s)
      PROVE  U16(s \o t, k) = U16(s, k)
    <2>1. k \in 0..Len(s) - 1 /\ k + 1 \in 0..Len(s) - 1
        BY <1>1, <1>2
    <2> QED
        BY <2>1, ConcatAt DEF U16
<1>3. ASSUME NEW k \in Nat, k + 2 <= Len(t)
      PROVE  U16(s \o t, Len(s) + k) = U16(t, k)
    <2>1. /\ k \in 0..Len(t) - 1 /\ k + 1 \in 0..Len(t) - 1
          /\ Len(s) + k + 1 = Len(s) + (k + 1)
        BY <1>1, <1>3
    <2> QED
        BY <2>1, ConcatAt DEF U16
<1> QED
    BY <1>2, <1>3

\* One more number at the end.
LEMMA NumberAdded ==
    ASSUME NEW s \in Strings, NEW m \in Nat, Len(s) = m, NEW v \in Word
    PROVE  /\ s \o AddUint16(v) \in Strings /\ Len(s \o AddUint16(v)) = m + 2
           /\ U16(s \o AddUint16(v), m) = v
           /\ \A k \in Nat : k + 2 <= m => U16(s \o AddUint16(v), k) = U16(s, k)
<1>1. AddUint16(v) \in Strings /\ Len(AddUint16(v)) = 2
    BY AddUint16Type
<1>2. U16(s \o AddUint16(v), m) = U16(AddUint16(v), 0)
    <2>1. 0 \in Nat /\ 0 + 2 <= Len(AddUint16(v)) /\ Len(s) + 0 = m
        BY <1>1
    <2>2. U16(s \o AddUint16(v), Len(s) + 0) = U16(AddUint16(v), 0)
        BY <1>1, <2>1, ConcatU16
    <2> QED
        BY <2>1, <2>2
<1>3. \A k \in Nat : k + 2 <= m => U16(s \o AddUint16(v), k) = U16(s, k)
    BY <1>1, ConcatU16
<1>4. s \o AddUint16(v) \in Strings /\ Len(s \o AddUint16(v)) = m + 2
    BY <1>1, Concat
<1> QED
    BY <1>2, <1>3, <1>4, AddUint16Is

\* The first m fields of header h, and one more.
FieldsAre(s, h, m) ==
    /\ s \in Strings /\ Len(s) = 2 * m
    /\ \A i \in 1..m : U16(s, 2 * (i - 1)) = h[i]

LEMMA FieldAdded ==
    ASSUME NEW h \in Header, NEW m \in 1..5, NEW s, FieldsAre(s, h, m)
    PROVE  FieldsAre(s \o AddUint16(h[m + 1]), h, m + 1)
<1> DEFINE t == s \o AddUint16(h[m + 1])
<1>1. h[m + 1] \in Word /\ 2 * m \in Nat /\ s \in Strings /\ Len(s) = 2 * m
    BY DEF FieldsAre, Header
<1>2. /\ t \in Strings /\ Len(t) = 2 * m + 2 /\ U16(t, 2 * m) = h[m + 1]
      /\ \A k \in Nat : k + 2 <= 2 * m => U16(t, k) = U16(s, k)
    BY <1>1, NumberAdded
<1> HIDE DEF t
<1>3. ASSUME NEW i \in 1..m + 1
      PROVE  U16(t, 2 * (i - 1)) = h[i]
    <2>1. CASE i = m + 1
        BY <1>2, <2>1
    <2>2. CASE i # m + 1
        <3>1. i \in 1..m /\ 2 * (i - 1) \in Nat /\ 2 * (i - 1) + 2 <= 2 * m
            BY <2>2
        <3> QED
            BY <1>2, <3>1 DEF FieldsAre
    <2> QED
        BY <2>1, <2>2
<1>4. 2 * m + 2 = 2 * (m + 1)
    OBVIOUS
<1> QED
    BY <1>2, <1>3, <1>4 DEF FieldsAre, t

LEMMA HeaderIs ==
    ASSUME NEW h \in Header
    PROVE  \A i \in 1..6 : U16(HeaderBytes(h), 2 * (i - 1)) = h[i]
<1> DEFINE s1 == AddUint16(h[1])
           s2 == s1 \o AddUint16(h[2])
           s3 == s2 \o AddUint16(h[3])
           s4 == s3 \o AddUint16(h[4])
           s5 == s4 \o AddUint16(h[5])
           s6 == s5 \o AddUint16(h[6])
<1>1. FieldsAre(s1, h, 1)
    <2>1. h[1] \in Word
        BY DEF Header
    <2>2. s1 \in Strings /\ Len(s1) = 2 /\ U16(s1, 0) = h[1]
        BY <2>1, AddUint16Type, AddUint16Is
    <2> HIDE DEF s1
    <2>3. \A i \in 1..1 : U16(s1, 2 * (i - 1)) = h[i]
        BY <2>2
    <2> QED
        BY <2>2, <2>3 DEF FieldsAre
<1>2. FieldsAre(s2, h, 2)
    BY <1>1, FieldAdded, 1 + 1 = 2
<1>3. FieldsAre(s3, h, 3)
    BY <1>2, FieldAdded, 2 + 1 = 3
<1>4. FieldsAre(s4, h, 4)
    BY <1>3, FieldAdded, 3 + 1 = 4
<1>5. FieldsAre(s5, h, 5)
    BY <1>4, FieldAdded, 4 + 1 = 5
<1>6. FieldsAre(s6, h, 6)
    BY <1>5, FieldAdded, 5 + 1 = 6
<1>7. HeaderBytes(h) = s6
    BY DEF HeaderBytes
<1> QED
    BY <1>6, <1>7 DEF FieldsAre

(***************************************************************************)
(* The packet: the header, the labels, a zero, type and class.             *)
(***************************************************************************)
LEMMA PacketIs ==
    ASSUME NEW h \in Header, NEW q \in Question, Plain(q.name)
    PROVE  LET n == WithoutLastDot(q.name)
               b == BuildQuery(h, q)
               z == 12 + WireLen(n)
           IN  /\ b \in Strings /\ WireLen(n) \in Nat /\ Len(b) = z + 5
               /\ \A i \in 1..6 : U16(b, 2 * (i - 1)) = h[i]
               /\ \A k \in 0..WireLen(n) - 1 : At(b, 12 + k) = WireByte(n, k)
               /\ At(b, z) = 0
               /\ U16(b, z + 1) = q.type /\ U16(b, z + 3) = q.class
<1> DEFINE n == WithoutLastDot(q.name)
           z == 12 + WireLen(n)
           s1 == HeaderBytes(h)
           s2 == s1 \o AddLabels(q.name)
           s3 == s2 \o <<0>>
           s4 == s3 \o AddUint16(q.type)
           s5 == s4 \o AddUint16(q.class)
<1>1. q.name \in Strings /\ q.type \in Word /\ q.class \in Word
    BY DEF Question
<1>2. WireLen(n) \in Nat /\ z \in Nat /\ z >= 12
    <2>1. Len(n) \in Nat
        BY <1>1, LastDotDropped
    <2> HIDE DEF n
    <2> QED
        BY <2>1 DEF WireLen
<1>3. <<0>> \in Strings /\ Len(<<0>>) = 1 /\ At(<<0>>, 0) = 0
    <2>1. 0 \in Byte
        BY ByteRange
    <2> QED
        BY <2>1 DEF Strings, At
<1>4. /\ s1 \in Strings /\ Len(s1) = 12
      /\ \A i \in 1..6 : U16(s1, 2 * (i - 1)) = h[i]
    BY HeaderBytesType, HeaderIs
<1>5. /\ AddLabels(q.name) \in Strings /\ Len(AddLabels(q.name)) = WireLen(n)
      /\ \A k \in 0..WireLen(n) - 1 : At(AddLabels(q.name), k) = WireByte(n, k)
    BY <1>1, WireIs
<1> HIDE DEF n, s1, z
<1>6. /\ s2 \in Strings /\ Len(s2) = z
      /\ \A k \in Nat : k + 2 <= 12 => U16(s2, k) = U16(s1, k)
      /\ \A k \in 0..WireLen(n) - 1 : At(s2, 12 + k) = WireByte(n, k)
    <2>1. s2 \in Strings /\ Len(s2) = z
        BY <1>4, <1>5, Concat DEF z
    <2>2. \A k \in Nat : k + 2 <= 12 => U16(s2, k) = U16(s1, k)
        BY <1>4, <1>5, ConcatU16
    <2>3. \A k \in 0..Len(AddLabels(q.name)) - 1 : At(s2, 12 + k) = At(AddLabels(q.name), k)
        BY <1>4, <1>5, ConcatAt
    <2> QED
        BY <1>5, <2>1, <2>2, <2>3
<1> HIDE DEF s2
<1>7. /\ s3 \in Strings /\ Len(s3) = z + 1
      /\ \A k \in Nat : k + 2 <= 12 => U16(s3, k) = U16(s1, k)
      /\ \A k \in 0..z : At(s3, k) = IF k = z THEN 0 ELSE At(s2, k)
    <2>1. s3 \in Strings /\ Len(s3) = z + 1
        BY <1>3, <1>6, Concat
    <2>2. \A k \in Nat : k + 2 <= 12 => k + 2 <= z
        BY <1>2
    <2>3. \A k \in Nat : k + 2 <= z => U16(s3, k) = U16(s2, k)
        BY <1>3, <1>6, ConcatU16
    <2>4. \A k \in 0..z - 1 : At(s3, k) = At(s2, k)
        BY <1>3, <1>6, ConcatAt
    <2>5. At(s3, z) = At(<<0>>, 0)
        <3>1. 0 \in 0..Len(<<0>>) - 1 /\ Len(s2) + 0 = z
            BY <1>2, <1>3, <1>6
        <3>2. At(s3, Len(s2) + 0) = At(<<0>>, 0)
            BY <1>3, <1>6, <3>1, ConcatAt
        <3> QED
            BY <3>1, <3>2
    <2>6. \A k \in 0..z : k = z \/ k \in 0..z - 1
        BY <1>2
    <2> QED
        BY <1>2, <1>3, <1>6, <2>1, <2>2, <2>3, <2>4, <2>5, <2>6
<1> HIDE DEF s3
<1>8. /\ s4 \in Strings /\ Len(s4) = z + 3
      /\ \A k \in Nat : k + 2 <= z + 1 => U16(s4, k) = U16(s3, k)
      /\ \A k \in 0..z : At(s4, k) = At(s3, k)
      /\ U16(s4, z + 1) = q.type
    <2>1. \A k \in 0..z : k \in 0..Len(s3) - 1
        BY <1>2, <1>7
    <2>2. \A k \in 0..z : At(s4, k) = At(s3, k)
        BY <1>1, <1>7, <2>1, AddUint16Type, ConcatAt
    <2>3. /\ s4 \in Strings /\ Len(s4) = z + 1 + 2
          /\ \A k \in Nat : k + 2 <= z + 1 => U16(s4, k) = U16(s3, k)
          /\ U16(s4, z + 1) = q.type
        BY <1>1, <1>7, NumberAdded
    <2> QED
        BY <1>2, <2>2, <2>3
<1> HIDE DEF s4
<1>9. /\ s5 \in Strings /\ Len(s5) = z + 5
      /\ \A k \in Nat : k + 2 <= z + 3 => U16(s5, k) = U16(s4, k)
      /\ \A k \in 0..z : At(s5, k) = At(s4, k)
      /\ U16(s5, z + 3) = q.class
    <2>1. \A k \in 0..z : k \in 0..Len(s4) - 1
        BY <1>2, <1>8
    <2>2. \A k \in 0..z : At(s5, k) = At(s4, k)
        BY <1>1, <1>8, <2>1, AddUint16Type, ConcatAt
    <2>3. /\ s5 \in Strings /\ Len(s5) = z + 3 + 2
          /\ \A k \in Nat : k + 2 <= z + 3 => U16(s5, k) = U16(s4, k)
          /\ U16(s5, z + 3) = q.class
        BY <1>1, <1>8, NumberAdded
    <2> QED
        BY <1>2, <2>2, <2>3
<1> HIDE DEF s5
<1>10. BuildQuery(h, q) = s5
    BY DEF BuildQuery, s1, s2, s3, s4, s5
<1>11. \A i \in 1..6 : U16(s5, 2 * (i - 1)) = h[i]
    <2>1. \A i \in 1..6 : 2 * (i - 1) \in Nat /\ 2 * (i - 1) + 2 <= 12
        OBVIOUS
    <2>2. \A k \in Nat : k + 2 <= 12 => k + 2 <= z + 1 /\ k + 2 <= z + 3
        BY <1>2
    <2> QED
        BY <1>4, <1>7, <1>8, <1>9, <2>1, <2>2
<1>12. \A k \in 0..WireLen(n) - 1 : At(s5, 12 + k) = WireByte(n, k)
    <2>1. \A k \in 0..WireLen(n) - 1 : 12 + k \in 0..z /\ 12 + k # z
        BY <1>2 DEF z
    <2> QED
        BY <1>6, <1>7, <1>8, <1>9, <2>1
<1>13. At(s5, z) = 0 /\ U16(s5, z + 1) = q.type
    <2>1. z \in 0..z /\ z + 1 \in Nat /\ z + 1 + 2 <= z + 3
        BY <1>2
    <2> QED
        BY <1>7, <1>8, <1>9, <2>1
<1> QED
    BY <1>2, <1>9, <1>10, <1>11, <1>12, <1>13 DEF n, z
-----------------------------------------------------------------------------
(***************************************************************************)
(* The parse of a packet that was built: where it stands tells what it has *)
(* read.                                                                   *)
(***************************************************************************)
Sent == built[1]
Spelt == WithoutLastDot(Sent.question.name)
Zero == 12 + WireLen(Spelt)         \* where the name ends

QuestionFound == question = [Sent.question EXCEPT !.name = Spelt]

\* readName stands at a label, or at the zero: i bytes are read, one step for each
\* label among them.
LabelsRead ==
    \E i \in 0..WireLen(Spelt) :
        /\ call.pos = 12 + i
        /\ i > 0 => i - 1 \in Ends(Spelt)
        /\ call.name = Bytes(Spelt, 0, IF i = 0 THEN 0 ELSE i - 1)
        /\ call.steps = Cardinality({e \in Ends(Spelt) : e < i})

\* The first name is read, the question's if one is announced; or, where the packet
\* ends, the name of a record that is not there.
NameIsFirst ==
    /\ pos = 12 /\ ~call.jumped /\ LabelsRead
    /\ call.of = IF Questioned(Sent.header) THEN "question" ELSE "owner"

NameIsMissing == pos = Len(data) /\ call.pos = pos /\ ~call.jumped /\ call.of = "owner"

BehindQuestion == Finished \/ pc = "record" \/ (pc = "name" /\ call.of = "owner")

ReadsWhatWasBuilt ==
    /\ data = BuildQuery(Sent.header, Sent.question)
    /\ records = << >> /\ pc # "loop"
    /\ pc # "header" => header = Sent.header
    /\ pc = "name" => NameIsFirst \/ NameIsMissing
    /\ pc = "type_class" =>
          pos = Zero + 1 /\ question.name = Spelt /\ Questioned(Sent.header)
    /\ pc = "record" => Len(data) < pos + 10
    /\ BehindQuestion /\ Questioned(Sent.header) => QuestionFound
    /\ BehindQuestion => (pc = "done" <=> Total(Sent.header) = 0)

BInv == built # << >> /\ Plain(Sent.question.name) => ReadsWhatWasBuilt

LEMMA SameStrings ==
    ASSUME NEW s \in Strings, NEW t \in Strings, NEW m \in Nat, Len(s) = m, Len(t) = m,
           \A k \in 0..m - 1 : At(s, k) = At(t, k)
    PROVE  s = t
<1>1. \A j \in 1..m : j - 1 \in 0..m - 1 /\ j - 1 + 1 = j
    OBVIOUS
<1>2. \A j \in 1..m : s[j] = t[j]
    <2> TAKE j \in 1..m
    <2>1. j - 1 \in 0..m - 1 /\ j - 1 + 1 = j
        BY <1>1
    <2>2. At(s, j - 1) = At(t, j - 1)
        BY <2>1
    <2> QED
        BY <2>1, <2>2 DEF At
<1>3. s \in Seq(Byte) /\ t \in Seq(Byte)
    BY DEF Strings
<1> QED
    BY <1>2, <1>3, SeqEqual

\* The name that was read, and one more label behind a dot.
LEMMA LabelJoined ==
    ASSUME NEW n \in Strings, NEW b \in Strings, NEW i \in Nat, NEW e \in i + 1..Len(n),
           12 + Len(n) + 1 <= Len(b),
           i > 0 => i > 1 /\ At(n, i - 1) = Dot,
           \A k \in i..e - 1 : At(b, 13 + k) = At(n, k)
    PROVE  Join(Bytes(n, 0, IF i = 0 THEN 0 ELSE i - 1), Bytes(b, 12 + i + 1, e - i))
               = Bytes(n, 0, e)
<1> DEFINE label == Bytes(b, 12 + i + 1, e - i)
           whole == Bytes(n, 0, e)
           read == Bytes(n, 0, IF i = 0 THEN 0 ELSE i - 1)
<1>1. Len(n) \in Nat /\ Len(b) \in Nat /\ e \in Nat /\ i < e /\ e <= Len(n) /\ e - i \in Nat
    BY DEF Strings
<1>2. /\ label \in Strings /\ Len(label) = e - i
      /\ \A k \in 0..e - i - 1 : At(label, k) = At(b, 12 + i + 1 + k)
    <2>1. 12 + i + 1 \in Nat /\ e - i \in Nat /\ 12 + i + 1 + (e - i) <= Len(b)
        BY <1>1
    <2> QED
        BY <2>1, BytesType
<1>3. /\ whole \in Strings /\ Len(whole) = e
      /\ \A k \in 0..e - 1 : At(whole, k) = At(n, k)
    <2>1. 0 \in Nat /\ 0 + e <= Len(n) /\ \A k \in 0..e - 1 : 0 + k = k
        BY <1>1
    <2> QED
        BY <1>1, <2>1, BytesType
<1>4. ASSUME NEW k \in i..e - 1
      PROVE  k - i \in 0..e - i - 1 /\ At(label, k - i) = At(n, k)
    <2>1. k - i \in 0..e - i - 1 /\ 12 + i + 1 + (k - i) = 13 + k
        BY <1>1
    <2>2. At(label, k - i) = At(b, 13 + k)
        BY <1>2, <2>1
    <2> QED
        BY <2>1, <2>2
<1> HIDE DEF label, whole
<1>5. CASE i = 0
    <2>1. read = << >>
        <3>1. 0 \in Nat /\ 0 + 0 <= Len(n)
            BY <1>1
        <3>2. Bytes(n, 0, 0) \in Strings /\ Len(Bytes(n, 0, 0)) = 0
            BY <3>1, BytesType
        <3> QED
            BY <1>5, <3>2 DEF Strings
    <2>2. \A k \in 0..e - 1 : At(label, k) = At(whole, k)
        <3>1. \A k \in 0..e - 1 : k \in i..e - 1 /\ k - i = k
            BY <1>1, <1>5
        <3> QED
            BY <1>3, <1>4, <3>1
    <2>3. Len(label) = e
        BY <1>1, <1>2, <1>5
    <2>4. label = whole
        BY <1>1, <1>2, <1>3, <2>2, <2>3, SameStrings
    <2> HIDE DEF read
    <2>5. Join(read, label) = whole
        BY <2>1, <2>4 DEF Join
    <2> QED
        BY <2>5 DEF read, label, whole
<1>6. CASE i > 0
    <2> DEFINE front == read \o <<Dot>>
               joined == front \o label
    <2>1. read = Bytes(n, 0, i - 1)
        BY <1>6
    <2>2. /\ read \in Strings /\ Len(read) = i - 1
          /\ \A k \in 0..i - 2 : At(read, k) = At(n, k)
        <3>1. /\ 0 \in Nat /\ i - 1 \in Nat /\ 0 + (i - 1) <= Len(n)
              /\ \A k \in 0..i - 2 : k \in 0..i - 1 - 1 /\ 0 + k = k
            BY <1>1, <1>6
        <3>2. /\ Bytes(n, 0, i - 1) \in Strings /\ Len(Bytes(n, 0, i - 1)) = i - 1
              /\ \A k \in 0..i - 1 - 1 : At(Bytes(n, 0, i - 1), k) = At(n, 0 + k)
            BY <3>1, BytesType
        <3> HIDE DEF read
        <3> QED
            BY <2>1, <3>1, <3>2
    <2> HIDE DEF read
    <2>3. <<Dot>> \in Strings /\ Len(<<Dot>>) = 1 /\ At(<<Dot>>, 0) = Dot
        <3>1. Dot \in Byte
            BY ByteRange DEF Dot
        <3> QED
            BY <3>1 DEF Strings, At
    <2>4. /\ front \in Strings /\ Len(front) = i
          /\ \A k \in 0..i - 1 : At(front, k) = At(n, k)
        <3>1. front \in Strings /\ Len(front) = i
            BY <2>2, <2>3, Concat
        <3>2. \A k \in 0..i - 2 : At(front, k) = At(read, k)
            BY <2>2, <2>3, ConcatAt
        <3>3. At(front, i - 1) = Dot
            <4>1. 0 \in 0..Len(<<Dot>>) - 1 /\ Len(read) + 0 = i - 1
                BY <2>2, <2>3
            <4>2. At(front, Len(read) + 0) = At(<<Dot>>, 0)
                BY <2>2, <2>3, <4>1, ConcatAt
            <4> QED
                BY <2>3, <4>1, <4>2
        <3>4. \A k \in 0..i - 1 : k = i - 1 \/ k \in 0..i - 2
            OBVIOUS
        <3> QED
            BY <1>6, <2>2, <3>1, <3>2, <3>3, <3>4
    <2> HIDE DEF front
    <2>5. joined \in Strings /\ Len(joined) = e
        <3>1. joined \in Strings /\ Len(joined) = Len(front) + Len(label)
            BY <1>2, <2>4, Concat
        <3> QED
            BY <1>1, <1>2, <2>4, <3>1
    <2>6. ASSUME NEW k \in 0..e - 1
          PROVE  At(joined, k) = At(whole, k)
        <3>1. CASE k < i
            <4>1. k \in 0..Len(front) - 1 /\ k \in 0..i - 1
                BY <2>4, <3>1
            <4>2. At(joined, k) = At(front, k)
                BY <1>2, <2>4, <4>1, ConcatAt
            <4> QED
                BY <1>3, <2>4, <4>1, <4>2
        <3>2. CASE ~(k < i)
            <4>1. k \in i..e - 1 /\ Len(front) + (k - i) = k
                BY <2>4, <3>2
            <4>2. k - i \in 0..Len(label) - 1 /\ At(label, k - i) = At(n, k)
                BY <1>2, <1>4, <4>1
            <4>3. At(joined, Len(front) + (k - i)) = At(label, k - i)
                BY <1>2, <2>4, <4>2, ConcatAt
            <4> QED
                BY <1>3, <4>1, <4>2, <4>3
        <3> QED
            BY <3>1, <3>2
    <2>7. joined = whole
        BY <1>1, <1>3, <2>5, <2>6, SameStrings
    <2>8. read # << >>
        BY <1>6, <2>2
    <2>9. Join(read, label) = joined
        BY <2>8 DEF Join, front
    <2> HIDE DEF joined
    <2>10. Join(read, label) = whole
        BY <2>7, <2>9
    <2> QED
        BY <2>10 DEF read, label, whole
<1> QED
    BY <1>5, <1>6
-----------------------------------------------------------------------------
\* The packet being read is the one that was built.
IsBuilt ==
    /\ IInv /\ built # << >> /\ Plain(Sent.question.name)
    /\ ReadsWhatWasBuilt

LEMMA FirstOf ==
    ASSUME NEW S, NEW s \in Seq(S), s # << >>
    PROVE  s[1] \in S
<1>1. Len(s) \in Nat /\ Len(s) # 0
    OBVIOUS
<1>2. 1 \in 1..Len(s)
    BY <1>1
<1> QED
    BY <1>2

LEMMA BuiltIs ==
    ASSUME IsBuilt
    PROVE  /\ Sent.header \in Header /\ Sent.question \in Question
           /\ Spelt \in Strings /\ Len(Spelt) \in Nat
           /\ WireLen(Spelt) \in Nat /\ Zero \in Nat /\ Zero = 12 + WireLen(Spelt)
           /\ data \in Strings /\ Len(data) \in Nat /\ Len(data) = Zero + 5
           /\ \A i \in 1..6 : U16(data, 2 * (i - 1)) = Sent.header[i]
           /\ \A k \in 0..WireLen(Spelt) - 1 : At(data, 12 + k) = WireByte(Spelt, k)
           /\ At(data, Zero) = 0
           /\ U16(data, Zero + 1) = Sent.question.type
           /\ U16(data, Zero + 3) = Sent.question.class
           /\ Total(Sent.header) \in Nat
<1>1. Sent \in [header : Header, question : Question]
    <2>1. built \in Seq([header : Header, question : Question]) /\ built # << >>
        BY DEF IsBuilt, IInv, TypeOK
    <2> QED
        BY <2>1, FirstOf DEF Sent
<1>2. /\ Sent.header \in Header /\ Sent.question \in Question
      /\ Sent.question.name \in Strings
    BY <1>1 DEF Question
<1>3. Total(Sent.header) \in Nat
    <2>1. Sent.header[4] \in Nat /\ Sent.header[5] \in Nat /\ Sent.header[6] \in Nat
        BY <1>2 DEF Header, Word
    <2> QED
        BY <2>1 DEF Total
<1>4. Spelt \in Strings /\ Len(Spelt) \in Nat
    BY <1>2, LastDotDropped DEF IsBuilt, Spelt
<1>5. LET b == BuildQuery(Sent.header, Sent.question)
      IN  /\ b \in Strings /\ WireLen(Spelt) \in Nat /\ Len(b) = 12 + WireLen(Spelt) + 5
          /\ \A i \in 1..6 : U16(b, 2 * (i - 1)) = Sent.header[i]
          /\ \A k \in 0..WireLen(Spelt) - 1 : At(b, 12 + k) = WireByte(Spelt, k)
          /\ At(b, 12 + WireLen(Spelt)) = 0
          /\ U16(b, 12 + WireLen(Spelt) + 1) = Sent.question.type
          /\ U16(b, 12 + WireLen(Spelt) + 3) = Sent.question.class
    BY <1>2, PacketIs DEF IsBuilt, Spelt
<1>6. data = BuildQuery(Sent.header, Sent.question)
    BY DEF IsBuilt, ReadsWhatWasBuilt
<1>7. Zero \in Nat
    BY <1>5 DEF Zero
<1> QED
    BY <1>2, <1>3, <1>4, <1>5, <1>6, <1>7 DEF Zero

\* Where a name begins no byte of it is read.
LEMMA NothingRead ==
    ASSUME NEW n \in Strings
    PROVE  /\ Bytes(n, 0, 0) = << >>
           /\ Cardinality({e \in Ends(n) : e < 0}) = 0
<1>1. Bytes(n, 0, 0) \in Strings /\ Len(Bytes(n, 0, 0)) = 0
    <2>1. 0 \in Nat /\ 0 + 0 <= Len(n)
        BY DEF Strings
    <2> QED
        BY <2>1, BytesType
<1>2. {e \in Ends(n) : e < 0} = {}
    BY DEF Ends, Strings
<1>3. Bytes(n, 0, 0) = << >>
    BY <1>1 DEF Strings
<1>4. Cardinality({e \in Ends(n) : e < 0}) = 0
    BY <1>2, FS_EmptySet
<1> QED
    BY <1>3, <1>4

LEMMA ReadHeaderBuilt == IsBuilt /\ IInv' /\ ReadHeader => ReadsWhatWasBuilt'
<1> SUFFICES ASSUME IsBuilt, IInv', ReadHeader PROVE ReadsWhatWasBuilt'
    OBVIOUS
<1>1. /\ Spelt \in Strings /\ Sent.header \in Header /\ Len(data) \in Nat
      /\ Len(data) = 12 + WireLen(Spelt) + 5 /\ WireLen(Spelt) \in Nat
      /\ \A i \in 1..6 : U16(data, 2 * (i - 1)) = Sent.header[i]
      /\ Total(Sent.header) \in Nat
    BY BuiltIs
<1>2. ~(Len(data) < 12)
    BY <1>1
<1>3. /\ header' = [i \in 1..6 |-> U16(data, 2 * (i - 1))]
      /\ pos' = 12 /\ records' = << >>
      /\ IF Questioned(header') THEN ReadName("question", 12) ELSE NextRecord(header', 0)
      /\ UNCHANGED <<data, built>>
    BY <1>2 DEF ReadHeader
<1>4. header' = Sent.header
    BY <1>1, <1>3 DEF Header
<1>5. Sent' = Sent /\ Spelt' = Spelt
    BY <1>3 DEF Sent, Spelt
<1>6. data' = BuildQuery(Sent.header, Sent.question)
    BY <1>3 DEF IsBuilt, ReadsWhatWasBuilt
<1>7. ASSUME NEW of, ReadName(of, 12)
      PROVE  /\ pc' = "name" /\ call'.of = of
             /\ pos' = 12 /\ ~call'.jumped /\ LabelsRead'
    <2>1. call' = [NoCall EXCEPT !.of = of, !.pos = 12, !.original = 12] /\ pc' = "name"
        BY <1>7 DEF ReadName
    <2>2. /\ call'.of = of /\ call'.pos = 12 /\ call'.name = << >> /\ ~call'.jumped
          /\ call'.steps = 0
        BY <2>1 DEF NoCall
    <2>3. 0 \in 0..WireLen(Spelt) /\ 12 + 0 = 12
        BY <1>1
    <2>4. /\ call'.pos = 12 + 0 /\ call'.name = Bytes(Spelt, 0, 0)
          /\ call'.steps = Cardinality({e \in Ends(Spelt) : e < 0})
        BY <1>1, <2>2, <2>3, NothingRead
    <2>5. \E i \in 0..WireLen(Spelt) :
            /\ call'.pos = 12 + i
            /\ i > 0 => i - 1 \in Ends(Spelt)
            /\ call'.name = Bytes(Spelt, 0, IF i = 0 THEN 0 ELSE i - 1)
            /\ call'.steps = Cardinality({e \in Ends(Spelt) : e < i})
        BY <2>3, <2>4
    <2>6. LabelsRead'
        BY <1>5, <2>5 DEF LabelsRead
    <2> QED
        BY <1>3, <2>1, <2>2, <2>6
<1>8. CASE Questioned(Sent.header)
    <2>1. ReadName("question", 12)
        BY <1>3, <1>4, <1>8
    <2>2. pc' = "name" /\ call'.of = "question" /\ NameIsFirst'
        BY <1>5, <1>7, <1>8, <2>1 DEF NameIsFirst
    <2>3. ~BehindQuestion'
        BY <2>2 DEF BehindQuestion, Finished
    <2> QED
        BY <1>3, <1>4, <1>5, <1>6, <2>2, <2>3 DEF ReadsWhatWasBuilt
<1>9. CASE ~Questioned(Sent.header)
    <2>1. NextRecord(Sent.header, 0)
        BY <1>3, <1>4, <1>9
    <2>2. CASE 0 < Total(Sent.header)
        <3>1. ReadName("owner", 12)
            BY <1>3, <2>1, <2>2 DEF NextRecord
        <3>2. pc' = "name" /\ NameIsFirst'
            BY <1>5, <1>7, <1>9, <3>1 DEF NameIsFirst
        <3>3. Total(Sent.header) # 0
            BY <1>1, <2>2
        <3> QED
            BY <1>3, <1>4, <1>5, <1>6, <1>9, <3>2, <3>3 DEF ReadsWhatWasBuilt
    <2>3. CASE ~(0 < Total(Sent.header))
        <3>1. pc' = "done"
            BY <2>1, <2>3 DEF NextRecord
        <3>2. Total(Sent.header) = 0
            BY <1>1, <2>3
        <3> QED
            BY <1>3, <1>4, <1>5, <1>6, <1>9, <3>1, <3>2 DEF ReadsWhatWasBuilt
    <2> QED
        BY <2>2, <2>3
<1> QED
    BY <1>8, <1>9

LEMMA ReadTypeAndClassBuilt == IsBuilt /\ IInv' /\ ReadTypeAndClass => ReadsWhatWasBuilt'
<1> SUFFICES ASSUME IsBuilt, IInv', ReadTypeAndClass PROVE ReadsWhatWasBuilt'
    OBVIOUS
<1>1. /\ Sent.question \in Question /\ Len(data) \in Nat /\ Zero \in Nat
      /\ Len(data) = Zero + 5
      /\ U16(data, Zero + 1) = Sent.question.type
      /\ U16(data, Zero + 3) = Sent.question.class
      /\ Total(Sent.header) \in Nat
    BY BuiltIs
<1>2. /\ pc = "type_class" /\ header = Sent.header
      /\ pos = Zero + 1 /\ question.name = Spelt /\ Questioned(Sent.header)
      /\ data = BuildQuery(Sent.header, Sent.question) /\ records = << >>
    BY DEF ReadTypeAndClass, IsBuilt, ReadsWhatWasBuilt
<1>3. ~(pos + 4 > Len(data)) /\ pos + 2 = Zero + 3 /\ pos + 4 = Len(data)
    BY <1>1, <1>2
<1>4. /\ question' = [question EXCEPT !.type = Sent.question.type,
                                      !.class = Sent.question.class]
      /\ pos' = Len(data) /\ NextRecord(Sent.header, 0)
      /\ UNCHANGED <<data, built, header, records>>
    BY <1>1, <1>2, <1>3 DEF ReadTypeAndClass
<1>5. Sent' = Sent /\ Spelt' = Spelt
    BY <1>4 DEF Sent, Spelt
<1>6. QuestionFound'
    <2>1. question \in Question
        BY DEF IsBuilt, IInv, TypeOK
    <2>2. question' = [name |-> Spelt, type |-> Sent.question.type,
                       class |-> Sent.question.class]
        BY <1>2, <1>4, <2>1 DEF Question
    <2>3. [Sent.question EXCEPT !.name = Spelt] =
              [name |-> Spelt, type |-> Sent.question.type, class |-> Sent.question.class]
        BY <1>1 DEF Question
    <2> QED
        BY <1>5, <2>2, <2>3 DEF QuestionFound
<1>7. CASE 0 < Total(Sent.header)
    <2>1. ReadName("owner", Len(data))
        BY <1>4, <1>7 DEF NextRecord
    <2>2. /\ pc' = "name" /\ call'.of = "owner" /\ ~call'.jumped /\ call'.pos = Len(data)
        BY <2>1 DEF ReadName, NoCall
    <2>3. NameIsMissing' /\ Total(Sent.header) # 0
        BY <1>1, <1>4, <1>7, <2>2 DEF NameIsMissing
    <2> QED
        BY <1>2, <1>4, <1>5, <1>6, <2>2, <2>3 DEF ReadsWhatWasBuilt
<1>8. CASE ~(0 < Total(Sent.header))
    <2>1. pc' = "done" /\ Total(Sent.header) = 0
        BY <1>1, <1>4, <1>8 DEF NextRecord
    <2> QED
        BY <1>2, <1>4, <1>5, <1>6, <2>1 DEF ReadsWhatWasBuilt
<1> QED
    BY <1>7, <1>8

LEMMA ReadRecordBuilt == IsBuilt /\ IInv' /\ ReadRecord => ReadsWhatWasBuilt'
<1> SUFFICES ASSUME IsBuilt, IInv', ReadRecord PROVE ReadsWhatWasBuilt'
    OBVIOUS
<1>1. /\ pc = "record" /\ Len(data) < pos + 10
    BY DEF ReadRecord, IsBuilt, ReadsWhatWasBuilt
<1>2. Len(data) \in Nat /\ pos \in Nat
    BY BuiltIs DEF IsBuilt, IInv, TypeOK
<1>3. pos + 10 > Len(data)
    BY <1>1, <1>2
<1>4. pc' = "error" /\ UNCHANGED <<data, built, header, question, records>>
    BY <1>3 DEF ReadRecord
<1>5. Sent' = Sent /\ Spelt' = Spelt
    BY <1>4 DEF Sent, Spelt
<1>6. BehindQuestion
    BY <1>1 DEF BehindQuestion
<1> QED
    BY <1>1, <1>4, <1>5, <1>6 DEF ReadsWhatWasBuilt, IsBuilt, QuestionFound

\* What readName finds where it stands, as long as the first name is read.
LEMMA AtLabel ==
    ASSUME IsBuilt, pc = "name", NameIsFirst
    PROVE  /\ Buffer = data /\ call.pos < Len(data) /\ call.steps < MaxSteps
           /\ \E i \in 0..WireLen(Spelt) :
                /\ call.pos = 12 + i
                /\ call.name = Bytes(Spelt, 0, IF i = 0 THEN 0 ELSE i - 1)
                /\ call.steps = Cardinality({e \in Ends(Spelt) : e < i})
                /\ \/ i = WireLen(Spelt) /\ Size = 0 /\ call.name = Spelt
                   \/ /\ i \in 0..Len(Spelt) /\ Spelt # << >> /\ StartsLabel(Spelt, i)
                      /\ i > 0 => i > 1
                      /\ Size = LabelEnd(Spelt, i) - i /\ Size \in 1..63
<1> DEFINE n == Spelt
<1>1. PICK i \in 0..WireLen(n) :
          /\ call.pos = 12 + i
          /\ i > 0 => i - 1 \in Ends(n)
          /\ call.name = Bytes(n, 0, IF i = 0 THEN 0 ELSE i - 1)
          /\ call.steps = Cardinality({e \in Ends(n) : e < i})
    BY DEF NameIsFirst, LabelsRead
<1>2. /\ n \in Strings /\ Len(n) \in Nat /\ WireLen(n) \in Nat /\ Zero \in Nat
      /\ Len(data) \in Nat /\ Len(data) = Zero + 5 /\ Zero = 12 + WireLen(n)
      /\ \A k \in 0..WireLen(n) - 1 : At(data, 12 + k) = WireByte(n, k)
      /\ At(data, Zero) = 0
      /\ Sent.question \in Question
    BY BuiltIs
<1>3. n # << >> => Len(n) > 0 /\ At(n, 0) # Dot
    <2>1. Sent.question.name \in Strings
        BY <1>2 DEF Question
    <2> QED
        BY <2>1, LastDotDropped DEF IsBuilt, Spelt
<1>4. /\ \A j \in 0..Len(n) :
           n # << >> /\ StartsLabel(n, j) => j < Len(n) /\ LabelEnd(n, j) - j \in 1..63
      /\ IsFiniteSet(Ends(n)) /\ Cardinality(Ends(n)) \in Nat
      /\ Cardinality(Ends(n)) < MaxSteps
    <2>1. Sent.question.name \in Strings
        BY <1>2 DEF Question
    <2> QED
        BY <2>1, PlainLabels DEF IsBuilt, Spelt
<1>5. Buffer = data
    BY DEF NameIsFirst, Buffer
<1>6. call.pos < Len(data)
    BY <1>1, <1>2
<1>7. call.steps < MaxSteps
    <2>1. {e \in Ends(n) : e < i} \subseteq Ends(n)
        OBVIOUS
    <2>2. IsFiniteSet({e \in Ends(n) : e < i}) /\ call.steps <= Cardinality(Ends(n))
        BY <1>1, <1>4, <2>1, FS_Subset
    <2>3. call.steps \in Nat
        BY <1>1, <2>2, FS_CardinalityType
    <2> QED
        BY <1>4, <2>2, <2>3, MessageAssumption
<1>8. Size = At(data, 12 + i)
    BY <1>1, <1>5 DEF Size
<1> HIDE DEF n
<1>9. CASE i = WireLen(n)
    <2>1. Size = 0
        BY <1>2, <1>8, <1>9
    <2>2. call.name = n
        <3>1. (IF i = 0 THEN 0 ELSE i - 1) = Len(n)
            <4>1. CASE n = << >>
                BY <1>2, <1>9, <4>1 DEF WireLen
            <4>2. CASE n # << >>
                <5>1. i = Len(n) + 1
                    BY <1>9, <4>2 DEF WireLen
                <5> QED
                    BY <1>2, <5>1
            <4> QED
                BY <4>1, <4>2
        <3>2. Bytes(n, 0, Len(n)) \in Strings /\ Len(Bytes(n, 0, Len(n))) = Len(n)
            BY <1>2, BytesType
        <3>3. \A k \in 0..Len(n) - 1 : At(Bytes(n, 0, Len(n)), k) = At(n, k)
            <4>1. \A k \in 0..Len(n) - 1 : 0 + k = k
                BY <1>2
            <4>2. 0 \in Nat /\ 0 + Len(n) <= Len(n)
                BY <1>2
            <4>3. \A k \in 0..Len(n) - 1 : At(Bytes(n, 0, Len(n)), k) = At(n, 0 + k)
                BY <1>2, <4>2, BytesType
            <4> QED
                BY <4>1, <4>3
        <3>4. Bytes(n, 0, Len(n)) = n
            BY <1>2, <3>2, <3>3, SameStrings
        <3> QED
            BY <1>1, <3>1, <3>4
    <2> QED
        BY <1>1, <1>5, <1>6, <1>7, <1>9, <2>1, <2>2 DEF n
<1>10. CASE i # WireLen(n)
    <2>1. i \in 0..WireLen(n) - 1
        BY <1>2, <1>10
    <2>2. n # << >> /\ WireLen(n) = Len(n) + 1 /\ i \in 0..Len(n)
        <3>1. n # << >>
            BY <2>1 DEF WireLen
        <3>2. WireLen(n) = Len(n) + 1
            BY <3>1 DEF WireLen
        <3> QED
            BY <1>2, <2>1, <3>1, <3>2
    <2>3. StartsLabel(n, i)
        <3>1. CASE i = 0
            BY <3>1 DEF StartsLabel
        <3>2. CASE i # 0
            <4>1. i - 1 \in Ends(n) /\ i - 1 # Len(n)
                BY <1>1, <1>2, <2>2, <3>2
            <4> QED
                BY <4>1 DEF StartsLabel, Ends
        <3> QED
            BY <3>1, <3>2
    <2>4. Size = LabelEnd(n, i) - i
        BY <1>2, <1>8, <2>1, <2>3 DEF WireByte
    <2>5. Size \in 1..63
        BY <1>4, <2>2, <2>3, <2>4
    <2>6. i > 0 => i > 1
        <3> SUFFICES ASSUME i = 1 PROVE FALSE
            BY <2>2
        <3>1. At(n, 0) = Dot
            BY <2>3 DEF StartsLabel
        <3> QED
            BY <1>3, <2>2, <3>1
    <2> QED
        BY <1>1, <1>5, <1>6, <1>7, <2>2, <2>3, <2>4, <2>5, <2>6 DEF n
<1> QED
    BY <1>9, <1>10

LEMMA TooManyStepsBuilt == IsBuilt => ~TooManySteps
<1> SUFFICES ASSUME IsBuilt, TooManySteps PROVE FALSE
    OBVIOUS
<1>1. pc = "name" /\ call.pos < Len(Buffer) /\ call.steps >= MaxSteps
    BY DEF TooManySteps
<1>2. NameIsFirst \/ NameIsMissing
    BY <1>1 DEF IsBuilt, ReadsWhatWasBuilt
<1>3. CASE NameIsFirst
    <2>1. call.steps < MaxSteps
        BY <1>1, <1>3, AtLabel
    <2>2. call.steps \in Nat
        BY DEF IsBuilt, IInv, TypeOK, Call
    <2> QED
        BY <1>1, <2>1, <2>2, MessageAssumption
<1>4. CASE NameIsMissing
    <2>1. Buffer = data /\ call.pos = Len(data) /\ Len(data) \in Nat
        BY <1>4, BuiltIs DEF NameIsMissing, Buffer
    <2> QED
        BY <1>1, <2>1
<1> QED
    BY <1>2, <1>3, <1>4

\* InLoop says that a name is read and there are bytes left: the first one.
LEMMA LoopIsFirst == IsBuilt /\ InLoop => NameIsFirst /\ pc = "name"
<1> SUFFICES ASSUME IsBuilt, InLoop, NameIsMissing PROVE FALSE
    BY DEF InLoop, IsBuilt, ReadsWhatWasBuilt
<1>1. Buffer = data /\ call.pos = Len(data) /\ Len(data) \in Nat
    BY BuiltIs DEF NameIsMissing, Buffer
<1> QED
    BY <1>1 DEF InLoop

LEMMA FollowPointerBuilt == IsBuilt => ~FollowPointer
<1> SUFFICES ASSUME IsBuilt, FollowPointer PROVE FALSE
    OBVIOUS
<1>1. InLoop /\ Size >= 192
    BY DEF FollowPointer
<1>2. Size = 0 \/ Size \in 1..63
    BY <1>1, LoopIsFirst, AtLabel
<1> QED
    BY <1>1, <1>2

LEMMA AppendLabelBuilt == IsBuilt /\ IInv' /\ AppendLabel => ReadsWhatWasBuilt'
<1> SUFFICES ASSUME IsBuilt, IInv', AppendLabel PROVE ReadsWhatWasBuilt'
    OBVIOUS
<1> DEFINE n == Spelt
<1>1. InLoop /\ Size \in 1..191 /\ NameIsFirst /\ pc = "name"
    BY LoopIsFirst DEF AppendLabel
<1>2. /\ Buffer = data
      /\ \E i \in 0..WireLen(n) :
           /\ call.pos = 12 + i
           /\ call.name = Bytes(n, 0, IF i = 0 THEN 0 ELSE i - 1)
           /\ call.steps = Cardinality({e \in Ends(n) : e < i})
           /\ i \in 0..Len(n) /\ n # << >> /\ StartsLabel(n, i)
           /\ i > 0 => i > 1
           /\ Size = LabelEnd(n, i) - i /\ Size \in 1..63
    <2>1. Size # 0
        BY <1>1
    <2> QED
        BY <1>1, <2>1, AtLabel
<1>3. PICK i \in 0..Len(n) :
           /\ call.pos = 12 + i
           /\ call.name = Bytes(n, 0, IF i = 0 THEN 0 ELSE i - 1)
           /\ call.steps = Cardinality({e \in Ends(n) : e < i})
           /\ n # << >> /\ StartsLabel(n, i)
           /\ i > 0 => i > 1
           /\ Size = LabelEnd(n, i) - i /\ Size \in 1..63
    BY <1>2
<1>4. /\ n \in Strings /\ Len(n) \in Nat /\ Zero \in Nat /\ data \in Strings
      /\ Len(data) \in Nat /\ Len(data) = Zero + 5 /\ Zero = 12 + WireLen(n)
      /\ \A k \in 0..WireLen(n) - 1 : At(data, 12 + k) = WireByte(n, k)
    BY BuiltIs
<1> DEFINE e == LabelEnd(n, i)
<1>5. /\ e \in i..Len(n)
      /\ e = Len(n) \/ At(n, e) = Dot
      /\ \A j \in i..e - 1 : At(n, j) # Dot
    BY <1>4, LabelEndDef
<1>6. Size = e - i /\ Size \in 1..63
    BY <1>3
<1>7. IsFiniteSet(Ends(n))
    <2>1. Sent.question.name \in Strings
        BY BuiltIs DEF Question
    <2> QED
        BY <2>1, PlainLabels DEF IsBuilt, Spelt
<1> HIDE DEF n, e
<1>8. WireLen(n) = Len(n) + 1
    BY <1>3 DEF WireLen
<1>9. e \in i + 1..Len(n) /\ e \in Nat /\ i \in Nat
    BY <1>4, <1>5, <1>6
<1>10. call.pos + 1 + Size = 12 + (e + 1) /\ call.pos + 1 + Size <= Len(data)
    <2>1. call.pos = 12 + i /\ Size = e - i
        BY <1>3, <1>6
    <2>2. call.pos + 1 + Size = 12 + (e + 1)
        BY <1>9, <2>1
    <2>3. 12 + (e + 1) <= Len(data)
        BY <1>4, <1>8, <1>9
    <2> QED
        BY <2>2, <2>3
<1>11. /\ call' = [call EXCEPT !.pos = 12 + (e + 1), !.jumped = call.jumped,
                               !.original = call.original,
                               !.name = Join(call.name, Bytes(data, 12 + i + 1, e - i)),
                               !.steps = @ + 1]
       /\ UNCHANGED <<data, built, pos, header, question, pc, records, rr>>
    <2>1. ~(call.pos + 1 + Size > Len(Buffer))
        BY <1>2, <1>4, <1>9, <1>10
    <2>2. /\ Turn(call.pos + 1 + Size, call.jumped, call.original,
                  Join(call.name, Bytes(Buffer, call.pos + 1, Size)))
          /\ UNCHANGED <<data, built, pos, header, question>>
        BY <2>1 DEF AppendLabel
    <2> QED
        BY <1>2, <1>3, <1>6, <1>10, <2>2 DEF Turn
<1>12. call \in Call
    BY DEF IsBuilt, IInv, TypeOK
<1>13. /\ call'.pos = 12 + (e + 1) /\ call'.jumped = call.jumped /\ call'.of = call.of
       /\ call'.name = Join(call.name, Bytes(data, 12 + i + 1, e - i))
       /\ call'.steps = call.steps + 1
    BY <1>11, <1>12 DEF Call
<1>14. call'.name = Bytes(n, 0, e)
    <2>1. ASSUME NEW k \in i..e - 1
          PROVE  At(data, 13 + k) = At(n, k)
        <3>1. k + 1 \in 0..WireLen(n) - 1 /\ 12 + (k + 1) = 13 + k /\ k + 1 - 1 = k /\ k + 1 # 0
            BY <1>4, <1>8, <1>9
        <3>2. At(data, 13 + k) = WireByte(n, k + 1)
            BY <1>4, <3>1
        <3>3. ~StartsLabel(n, k + 1)
            BY <1>5, <3>1 DEF StartsLabel
        <3> QED
            BY <3>1, <3>2, <3>3 DEF WireByte
    <2>2. 12 + Len(n) + 1 <= Len(data)
        BY <1>4, <1>8
    <2>3. i > 0 => i > 1 /\ At(n, i - 1) = Dot
        BY <1>3, <1>9 DEF StartsLabel
    <2>4. Join(Bytes(n, 0, IF i = 0 THEN 0 ELSE i - 1), Bytes(data, 12 + i + 1, e - i))
              = Bytes(n, 0, e)
        BY <1>4, <1>9, <2>1, <2>2, <2>3, LabelJoined
    <2> QED
        BY <1>3, <1>13, <2>4
<1>15. e \in Ends(n)
    BY <1>4, <1>5, <1>9 DEF Ends
<1>16. call'.steps = Cardinality({x \in Ends(n) : x < e + 1})
    <2> DEFINE before == {x \in Ends(n) : x < i}
    <2>1. \A x \in Ends(n) : x \in Nat /\ x <= Len(n)
        BY <1>4 DEF Ends
    <2>2. \A x \in Ends(n) : x < e + 1 <=> x < i \/ x = e
        <3> TAKE x \in Ends(n)
        <3>1. x \in Nat /\ x <= Len(n) /\ (x = Len(n) \/ At(n, x) = Dot)
            BY <2>1 DEF Ends
        <3>2. ~(x \in i..e - 1)
            BY <1>4, <1>5, <1>9, <3>1
        <3> QED
            BY <1>9, <3>1, <3>2
    <2>3. {x \in Ends(n) : x < e + 1} = before \cup {e}
        BY <1>15, <2>2
    <2>4. IsFiniteSet(before)
        BY <1>7, FS_Subset
    <2>5. e \notin before
        BY <1>9
    <2>6. Cardinality(before \cup {e}) = Cardinality(before) + 1
        BY <2>4, <2>5, FS_AddElement
    <2> QED
        BY <1>3, <1>13, <2>3, <2>6
<1>17. /\ e + 1 \in 0..WireLen(n) /\ e + 1 > 0 /\ e + 1 - 1 = e /\ e + 1 # 0
    BY <1>4, <1>8, <1>9
<1>18. Sent' = Sent /\ Spelt' = Spelt
    BY <1>11 DEF Sent, Spelt
<1>19. \E j \in 0..WireLen(n) :
          /\ call'.pos = 12 + j
          /\ j > 0 => j - 1 \in Ends(n)
          /\ call'.name = Bytes(n, 0, IF j = 0 THEN 0 ELSE j - 1)
          /\ call'.steps = Cardinality({x \in Ends(n) : x < j})
    <2>1. PICK j \in 0..WireLen(n) : j = e + 1
        BY <1>17
    <2>2. j > 0 /\ j - 1 = e /\ (IF j = 0 THEN 0 ELSE j - 1) = e
        BY <1>9, <2>1
    <2>3. call'.pos = 12 + j /\ call'.steps = Cardinality({x \in Ends(n) : x < j})
        BY <1>13, <1>16, <2>1
    <2>4. call'.name = Bytes(n, 0, IF j = 0 THEN 0 ELSE j - 1)
        BY <1>14, <2>2
    <2> QED
        BY <1>15, <2>2, <2>3, <2>4
<1>20. LabelsRead'
    BY <1>18, <1>19 DEF LabelsRead, n
<1>21. NameIsFirst'
    BY <1>1, <1>11, <1>13, <1>18, <1>20 DEF NameIsFirst
<1>22. BehindQuestion' = BehindQuestion /\ QuestionFound' = QuestionFound
    BY <1>11, <1>13, <1>18 DEF BehindQuestion, Finished, QuestionFound
<1> QED
    BY <1>1, <1>11, <1>18, <1>21, <1>22 DEF ReadsWhatWasBuilt, IsBuilt

LEMMA EndOfNameBuilt == IsBuilt /\ IInv' /\ EndOfName => ReadsWhatWasBuilt'
<1> SUFFICES ASSUME IsBuilt, IInv', EndOfName PROVE ReadsWhatWasBuilt'
    OBVIOUS
<1>1. /\ Len(data) \in Nat /\ Zero \in Nat /\ Len(data) = Zero + 5
      /\ Zero = 12 + WireLen(Spelt) /\ Total(Sent.header) \in Nat
    BY BuiltIs
<1>2. /\ data = BuildQuery(Sent.header, Sent.question)
      /\ pc = "name" /\ records = << >> /\ header = Sent.header
      /\ NameIsFirst \/ NameIsMissing
      /\ call.of = "owner" => /\ Questioned(Sent.header) => QuestionFound
                              /\ Total(Sent.header) # 0
    <2>1. pc = "name"
        BY DEF EndOfName, InLoop
    <2> QED
        BY <2>1 DEF IsBuilt, ReadsWhatWasBuilt, BehindQuestion
<1>3. UNCHANGED <<data, built, header>>
    BY DEF EndOfName
<1>4. Sent' = Sent /\ Spelt' = Spelt /\ Zero' = Zero
    BY <1>3 DEF Sent, Spelt, Zero
<1>5. call.of = "question" \/ call.of = "owner"
    BY <1>2 DEF NameIsFirst, NameIsMissing
<1>6. ~call.jumped /\ Buffer = data
    BY <1>2, <1>5 DEF NameIsFirst, NameIsMissing, Buffer
<1> DEFINE here == IF call.pos < Len(Buffer) THEN call.pos + 1 ELSE call.pos
<1>7. /\ call.of = "question" =>
           /\ question' = [question EXCEPT !.name = call.name]
           /\ pos' = here /\ pc' = "type_class"
           /\ UNCHANGED <<call, records, rr>>
      /\ call.of = "owner" =>
           /\ pos' = here /\ pc' = "record"
           /\ UNCHANGED <<call, records, question>>
    BY <1>6, <1>5 DEF EndOfName
<1>8. CASE NameIsFirst
    <2>1. call.pos < Len(data) /\ call.pos = Zero /\ call.name = Spelt
        <3>1. call.pos < Len(data) /\ call.pos \in Nat
            BY <1>2, <1>8, AtLabel DEF IsBuilt, IInv, TypeOK, Call
        <3>2. Size = 0
            BY <1>1, <1>6, <3>1 DEF EndOfName
        <3>3. \E i \in 0..WireLen(Spelt) :
                 call.pos = 12 + i /\ i = WireLen(Spelt) /\ call.name = Spelt
            <4>1. ~(Size \in 1..63)
                BY <3>2
            <4> QED
                BY <1>2, <1>8, <4>1, AtLabel
        <3> QED
            BY <1>1, <3>1, <3>3
    <2>2. here = Zero + 1
        BY <1>6, <2>1
    <2> HIDE DEF here
    <2>3. CASE call.of = "question"
        <3>1. Questioned(Sent.header)
            BY <1>8, <2>3 DEF NameIsFirst
        <3>2. /\ question' = [question EXCEPT !.name = Spelt]
              /\ pos' = Zero + 1 /\ pc' = "type_class" /\ records' = << >>
            BY <1>2, <1>7, <2>1, <2>2, <2>3
        <3>3. question'.name = Spelt
            BY <3>2 DEF IsBuilt, IInv, TypeOK, Question
        <3>4. ~BehindQuestion'
            BY <3>2 DEF BehindQuestion, Finished
        <3> QED
            BY <1>2, <1>3, <1>4, <3>1, <3>2, <3>3, <3>4 DEF ReadsWhatWasBuilt
    <2>4. CASE call.of = "owner"
        <3>1. ~Questioned(Sent.header)
            BY <1>8, <2>4 DEF NameIsFirst
        <3>2. pos' = Zero + 1 /\ pc' = "record" /\ records' = << >>
            BY <1>2, <1>7, <2>2, <2>4
        <3>3. Len(data) < pos' + 10
            BY <1>1, <3>2
        <3> QED
            BY <1>2, <1>3, <1>4, <2>4, <3>1, <3>2, <3>3 DEF ReadsWhatWasBuilt
    <2> QED
        BY <1>5, <2>3, <2>4
<1>9. CASE NameIsMissing
    <2>1. call.of = "owner" /\ here = Len(data)
        BY <1>1, <1>6, <1>9 DEF NameIsMissing
    <2> HIDE DEF here
    <2>2. pos' = Len(data) /\ pc' = "record" /\ records' = << >> /\ question' = question
        BY <1>2, <1>7, <2>1
    <2>3. Len(data) < pos' + 10
        BY <1>1, <2>2
    <2>4. QuestionFound' = QuestionFound
        BY <1>4, <2>2 DEF QuestionFound
    <2> QED
        BY <1>2, <1>3, <1>4, <2>1, <2>2, <2>3, <2>4 DEF ReadsWhatWasBuilt
<1> QED
    BY <1>2, <1>8, <1>9

LEMMA BuiltInit == Init => BInv
<1> SUFFICES ASSUME Init, built # << >> PROVE ReadsWhatWasBuilt
    BY DEF BInv
<1>1. \E q \in Questions :
         LET asked == [DefaultQuestion EXCEPT !.name = q.name, !.type = q.type]
         IN  /\ Parsing(BuildQuery(DefaultHeader, asked))
             /\ built = <<[header |-> DefaultHeader, question |-> asked]>>
    BY DEF Init
<1>2. PICK q \in Questions :
         LET asked == [DefaultQuestion EXCEPT !.name = q.name, !.type = q.type]
         IN  /\ Parsing(BuildQuery(DefaultHeader, asked))
             /\ built = <<[header |-> DefaultHeader, question |-> asked]>>
    BY <1>1
<1> DEFINE asked == [DefaultQuestion EXCEPT !.name = q.name, !.type = q.type]
<1>3. Parsing(BuildQuery(DefaultHeader, asked))
      /\ built = <<[header |-> DefaultHeader, question |-> asked]>>
    BY <1>2
<1> HIDE DEF asked
<1>4. Sent.header = DefaultHeader /\ Sent.question = asked
    BY <1>3 DEF Sent
<1>5. /\ data = BuildQuery(Sent.header, Sent.question)
      /\ pc = "header" /\ records = << >>
    BY <1>3, <1>4 DEF Parsing
<1> QED
    BY <1>5 DEF ReadsWhatWasBuilt, BehindQuestion, Finished

LEMMA RebuildBuilt == IInv /\ Rebuild => BInv'
<1> SUFFICES ASSUME IInv, Rebuild PROVE ReadsWhatWasBuilt'
    BY DEF BInv
<1>1. /\ built' = <<[header |-> header, question |-> question]>>
      /\ data' = BuildQuery(header, question)
      /\ pc' = "header" /\ records' = << >>
    BY DEF Rebuild
<1>2. Sent'.header = header /\ Sent'.question = question
    BY <1>1 DEF Sent
<1>3. ~BehindQuestion'
    BY <1>1 DEF BehindQuestion, Finished
<1> QED
    BY <1>1, <1>2, <1>3 DEF ReadsWhatWasBuilt

LEMMA BuiltInvariance == IInv /\ IInv' /\ BInv /\ [Next]_vars => BInv'
<1> SUFFICES ASSUME IInv, IInv', BInv, [Next]_vars PROVE BInv'
    OBVIOUS
<1>1. CASE ReadNext
    <2> SUFFICES ASSUME built' # << >>, Plain(Sent.question.name)' PROVE ReadsWhatWasBuilt'
        BY DEF BInv
    <2>1. built' = built
        BY <1>1 DEF ReadNext, ReadHeader, ReadTypeAndClass, ReadRecord, TooManySteps,
                    FollowPointer, AppendLabel, EndOfName
    <2>2. built # << >> /\ Plain(Sent.question.name)
        BY <2>1 DEF Sent, Plain
    <2>3. IsBuilt
        BY <2>2 DEF IsBuilt, BInv
    <2> QED
        BY <1>1, <2>3, ReadHeaderBuilt, ReadTypeAndClassBuilt, ReadRecordBuilt,
           TooManyStepsBuilt, FollowPointerBuilt, AppendLabelBuilt, EndOfNameBuilt
        DEF ReadNext
<1>2. CASE Rebuild
    BY <1>2, RebuildBuilt
<1>3. CASE UNCHANGED vars
    BY <1>3 DEF vars, BInv, ReadsWhatWasBuilt, Sent, Spelt, Zero, NameIsFirst, LabelsRead,
                NameIsMissing, BehindQuestion, Finished, QuestionFound
<1> QED
    BY <1>1, <1>2, <1>3 DEF Next

\* What is read at the end of a packet that was built.
LEMMA WhenFinished ==
    ASSUME IInv, BInv, Finished, NEW k \in DOMAIN built, Plain(built[k].question.name)
    PROVE  /\ built[k] = Sent /\ records = << >> /\ header = Sent.header
           /\ pc = "done" <=> Total(Sent.header) = 0
           /\ Questioned(Sent.header) => QuestionFound
<1>1. built \in Seq([header : Header, question : Question]) /\ Len(built) <= 1
    BY DEF IInv, TypeOK
<1>2. k = 1 /\ built # << >>
    BY <1>1
<1>3. ReadsWhatWasBuilt
    BY <1>2 DEF BInv, Sent
<1>4. pc # "header" /\ BehindQuestion
    BY DEF Finished, BehindQuestion
<1> QED
    BY <1>2, <1>3, <1>4 DEF ReadsWhatWasBuilt, Sent

LEMMA BuiltInv == Spec => []BInv
<1>1. Spec => []IInv
    BY AlwaysInv
<1>2. Init => BInv
    BY BuiltInit
<1>3. IInv /\ IInv' /\ BInv /\ [Next]_vars => BInv'
    BY BuiltInvariance
<1> QED
    BY <1>1, <1>2, <1>3, PTL DEF Spec

\* The fault of queryDot in the bytes (dns_client.cpp:271): of a response that is built
\* again no record is left, so it parses if and only if it had none.  DnsClient's
\* QueryDot models it, where ResponseIsWhole fails of it.
RecordsAreLost ==
    \A k \in DOMAIN built :
        Finished /\ Plain(built[k].question.name) =>
            /\ records = << >>
            /\ pc = "done" <=> Total(built[k].header) = 0

LEMMA RebuiltLosesRecords == Spec => []RecordsAreLost
<1>1. IInv /\ BInv => RecordsAreLost
    <2> SUFFICES ASSUME IInv, BInv, NEW k \in DOMAIN built,
                        Finished, Plain(built[k].question.name)
                 PROVE  /\ records = << >>
                        /\ pc = "done" <=> Total(built[k].header) = 0
        BY DEF RecordsAreLost
    <2> QED
        BY WhenFinished
<1> QED
    BY <1>1, AlwaysInv, BuiltInv, PTL

\* Whatever is asked, of whatever the packet announces: the question that was built is
\* the question that is read.
THEOREM QuestionSurvivesTheorem == Spec => []QuestionSurvives
<1>1. IInv /\ BInv => QuestionSurvives
    <2> SUFFICES ASSUME IInv, BInv, NEW k \in DOMAIN built,
                        Finished, Questioned(header), Plain(built[k].question.name)
                 PROVE  question = [built[k].question EXCEPT
                                      !.name = WithoutLastDot(built[k].question.name)]
        BY DEF QuestionSurvives
    <2> QED
        BY WhenFinished DEF QuestionFound, Spelt
<1> QED
    BY <1>1, AlwaysInv, BuiltInv, PTL
=============================================================================
