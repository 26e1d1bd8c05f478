------------------------------ MODULE DnsMessage ------------------------------
(***************************************************************************)
(* DNSMessage (src/dns/dns_message.cpp): parseResponse over the bytes of a *)
(* packet, one turn of readName's loop at a time, and buildQuery, whose    *)
(* packets are parsed again: by the server, or by the program itself after *)
(* queryDot.                                                               *)
(*                                                                         *)
(* Positions are those of the code, from 0.  Names are C++ strings, bytes  *)
(* too.  Of what a decoder writes, the names and the ranges of rdata it    *)
(* was made from are kept.  A throw leaves the message half filled; nobody *)
(* looks at it again.                                                      *)
(***************************************************************************)
EXTENDS Integers, Sequences, FiniteSets

CONSTANTS
    Packets,    \* what may be received
    Questions,  \* the [name, type] that configureQuery may be given
    MaxSteps    \* 20, the bound of readName's loop

Byte == 0..255
Word == {n \in Nat : n < 2^16}
Strings == Seq(Byte)

ASSUME MessageAssumption ==
    /\ Packets \subseteq Strings
    /\ Questions \subseteq [name : Strings, type : Word]
    /\ MaxSteps \in Nat

VARIABLES
    data,       \* the packet
    built,      \* << >>, or the one message the packet was built from
    pc,         \* "header", "name", "type_class", "record", or how the parse
                \* ended: "done", "error", or "loop", the error of readName's bound
    pos,        \* parseResponse's, which a readName under way moves at its end
    call,       \* that readName, or the last one
    header,     \* the six fields
    question,
    records,    \* answers, authorities and additionals, one after the other
    rr          \* the record being read

vars == <<data, built, pc, pos, call, header, question, records, rr>>

\* The fields of the header: identifier, flags, and four counts, of questions and
\* of the records of each section.
Questioned(h) == h[3] > 0
Total(h) == h[4] + h[5] + h[6]

Dot == 46       \* the character '.'
At(b, i) == b[i + 1]
Bytes(b, i, n) == SubSeq(b, i + 1, i + n)
U16(b, i) == 256 * At(b, i) + At(b, i + 1)

\* DNSRecordType; the decoders of the types not listed look at no rdata
Type == [A |-> 1, NS |-> 2, CNAME |-> 5, SOA |-> 6, MX |-> 15, TXT |-> 16,
         AAAA |-> 28, OPT |-> 41]

\* The constructor's, before configureQuery or parseResponse
DefaultHeader == <<0, 256, 1, 0, 0, 0>>
DefaultQuestion == [name |-> << >>, type |-> 1, class |-> 1]

NoCall == [of |-> "none", pos |-> 0, name |-> << >>, jumped |-> FALSE,
           original |-> 0, steps |-> 0]
Undecoded == [ok |-> TRUE, names |-> << >>, chunks |-> << >>]
NoRecord == [first |-> 0, name |-> << >>, type |-> 0, class |-> 0, ttl |-> <<0, 0>>,
             at |-> 0, length |-> 0, parsed |-> Undecoded]
-----------------------------------------------------------------------------
StartsLabel(name, i) == i = 0 \/ At(name, i - 1) = Dot

\* Where the label of the character at i ends: at the next dot, or with the name.
LabelEnd(name, i) ==
    CHOOSE e \in i..Len(name) : /\ e = Len(name) \/ At(name, e) = Dot
                               /\ \A j \in i..e - 1 : At(name, j) # Dot

LabelSize(name, i) == (LabelEnd(name, i) - i) % 256

\* Each label after its length, a uint8_t, which takes the place of the dot.
Labels(name) ==
    [k \in 1..Len(name) + 1 |-> IF StartsLabel(name, k - 1) THEN LabelSize(name, k - 1)
                               ELSE name[k - 1]]

LastLabel(name) ==
    CHOOSE i \in 0..Len(name) : StartsLabel(name, i) /\ LabelEnd(name, i) = Len(name)

AddLabelsUncut(name) ==     \* mutant of AddLabels: the last label is not written
    SubSeq(Labels(name), 1, LastLabel(name))

(***************************************************************************)
(* addQuestion.  An empty label between dots writes a zero, which ends the *)
(* name; after the last dot it writes nothing.                             *)
(***************************************************************************)
AddLabels(name) ==
    IF LabelSize(name, LastLabel(name)) = 0 THEN SubSeq(Labels(name), 1, LastLabel(name))
    ELSE Labels(name)

AddUint16(value) == <<value \div 256, value % 256>>

HeaderBytes(h) ==
    AddUint16(h[1]) \o AddUint16(h[2]) \o AddUint16(h[3])
    \o AddUint16(h[4]) \o AddUint16(h[5]) \o AddUint16(h[6])

\* The header as it is, whatever it counts; the question; no records.
BuildQuery(h, q) ==
    HeaderBytes(h) \o AddLabels(q.name) \o <<0>> \o AddUint16(q.type) \o AddUint16(q.class)

\* A new DNSMessage that parses packet b.
Parsing(b) ==
    /\ data = b
    /\ pc = "header" /\ pos = 0 /\ call = NoCall
    /\ header = DefaultHeader /\ question = DefaultQuestion
    /\ records = << >> /\ rr = NoRecord

\* A packet from the network, or the query of a name: its identifier, from rand(),
\* is never looked at.
Init ==
    \/ \E b \in Packets : Parsing(b) /\ built = << >>
    \/ \E q \in Questions :
         LET asked == [DefaultQuestion EXCEPT !.name = q.name, !.type = q.type]
         IN  /\ Parsing(BuildQuery(DefaultHeader, asked))
             /\ built = <<[header |-> DefaultHeader, question |-> asked]>>
-----------------------------------------------------------------------------
ReadName(of, p) ==
    /\ call' = [NoCall EXCEPT !.of = of, !.pos = p, !.original = p]
    /\ pc' = "name"

\* The loops of readAnswers, readAuthorities and readAdditionals, in this order,
\* k records done: the next one begins with its owner's name.
NextRecord(h, k) ==
    IF k < Total(h) THEN ReadName("owner", pos') ELSE pc' = "done" /\ UNCHANGED call

ReadHeader ==
    /\ pc = "header"
    /\ IF Len(data) < 12
       THEN pc' = "error" /\ UNCHANGED <<pos, call, header, records>>
       ELSE /\ header' = [i \in 1..6 |-> U16(data, 2 * (i - 1))]
            /\ pos' = 12
            /\ records' = << >>
            /\ IF Questioned(header') THEN ReadName("question", 12)
                                      ELSE NextRecord(header', 0)
    /\ UNCHANGED <<data, built, question, rr>>

ReadTypeAndClass ==
    /\ pc = "type_class"
    /\ IF pos + 4 > Len(data)
       THEN pc' = "error" /\ UNCHANGED <<pos, call, question>>
       ELSE /\ question' = [question EXCEPT !.type = U16(data, pos),
                                            !.class = U16(data, pos + 2)]
            /\ pos' = pos + 4
            /\ NextRecord(header, 0)
    /\ UNCHANGED <<data, built, header, records, rr>>
-----------------------------------------------------------------------------
(***************************************************************************)
(* The decoders.  A name in rdata is read by readName in rdata alone, and  *)
(* whatever it throws becomes the text of the record.                      *)
(***************************************************************************)
Chunk(first, size) == [first |-> first, size |-> size]
Decoded(names, chunks) == [ok |-> TRUE, names |-> names, chunks |-> chunks]
Undecodable == [ok |-> FALSE, names |-> << >>, chunks |-> << >>]

\* decodeTXT, decodeOPT: each piece after a head that says its size, as many as
\* fit.
Pieces(rdata, head, size) ==
    LET from[i \in Nat] ==
            IF i + head > Len(rdata) \/ i + head + size[i] > Len(rdata) THEN << >>
            ELSE <<Chunk(i + head, size[i])>> \o from[i + head + size[i]]
    IN  from[0]

Rdata(r) == Bytes(data, r.at, r.length)

Decode(r) ==
    LET Fixed(n) == IF r.length = n THEN Decoded(<< >>, <<Chunk(0, n)>>) ELSE Undecodable
        textSize == [i \in 0..r.length - 1 |-> At(Rdata(r), i)]
        optionSize == [i \in 0..r.length - 4 |-> U16(Rdata(r), i + 2)]
    IN  CASE r.type = Type.A    -> Fixed(4)
          [] r.type = Type.AAAA -> Fixed(16)
          [] r.type = Type.TXT  -> Decoded(<< >>, Pieces(Rdata(r), 1, textSize))
          [] r.type = Type.OPT  -> Decoded(<< >>, Pieces(Rdata(r), 4, optionSize))
          [] r.type = Type.MX   -> Undecodable
          [] OTHER              -> Undecoded

\* An MX too short for its preference and a name is not looked into.
HasName(r) ==
    \/ r.type \in {Type.NS, Type.CNAME, Type.SOA}
    \/ r.type = Type.MX /\ r.length >= 3

NameAt(r) == IF r.type = Type.MX THEN 2 ELSE 0

KeepRecord(r) ==
    /\ records' = Append(records, r)
    /\ rr' = r
    /\ NextRecord(header, Len(records) + 1)

SoaFitsLoosely(r, end) == end + 19 <= r.length  \* mutant of SoaFits: one byte short

SoaFits(r, end) == end + 20 <= r.length

\* A name of rdata ends at end: an SOA has a second one, then five numbers.
DecodeName(end) ==
    LET names == Append(rr.parsed.names, call.name)
        Keep(parsed) == KeepRecord([rr EXCEPT !.parsed = parsed])
    IN  CASE rr.type = Type.SOA /\ Len(names) = 1 ->
               /\ rr' = [rr EXCEPT !.parsed.names = names]
               /\ ReadName("rdata", end)
               /\ UNCHANGED records
          [] rr.type = Type.SOA /\ Len(names) = 2 ->
               Keep(IF SoaFits(rr, end) THEN Decoded(names, <<Chunk(end, 20)>>)
                                        ELSE Undecodable)
          [] rr.type = Type.MX -> Keep(Decoded(names, <<Chunk(0, 2)>>))
          [] OTHER -> Keep(Decoded(names, << >>))

\* What readRecord reads after the owner's name.  A ttl is 32 bits, two halves here.
ReadRecord ==
    /\ pc = "record"
    /\ IF pos + 10 > Len(data) \/ pos + 10 + U16(data, pos + 8) > Len(data)
       THEN pc' = "error" /\ UNCHANGED <<pos, call, records, rr>>
       ELSE LET r == [first |-> rr.first, name |-> rr.name,
                      type |-> U16(data, pos), class |-> U16(data, pos + 2),
                      ttl |-> <<U16(data, pos + 4), U16(data, pos + 6)>>,
                      length |-> U16(data, pos + 8), at |-> pos + 10,
                      parsed |-> Undecoded]
            IN  /\ pos' = r.at + r.length
                /\ IF HasName(r)
                   THEN rr' = r /\ ReadName("rdata", NameAt(r)) /\ UNCHANGED records
                   ELSE KeepRecord([r EXCEPT !.parsed = Decode(r)])
    /\ UNCHANGED <<data, built, header, question>>
-----------------------------------------------------------------------------
\* The bytes readName was given.
Buffer == IF call.of = "rdata" THEN Rdata(rr) ELSE data

\* mutant of InLoop: the bound is tested before the step is counted
InLoopLonger == pc = "name" /\ call.pos < Len(Buffer) /\ call.steps <= MaxSteps

InLoop == pc = "name" /\ call.pos < Len(Buffer) /\ call.steps < MaxSteps

Size == At(Buffer, call.pos)

\* A name that could not be read: in rdata the decoder catches it.
Throw(how) ==
    IF call.of = "rdata" THEN KeepRecord([rr EXCEPT !.parsed = Undecodable])
    ELSE pc' = how /\ UNCHANGED <<call, records, rr>>

Turn(p, jumped, original, name) ==
    /\ call' = [call EXCEPT !.pos = p, !.jumped = jumped, !.original = original,
                            !.name = name, !.steps = @ + 1]
    /\ UNCHANGED <<pc, records, rr>>

TooManySteps ==
    /\ pc = "name" /\ call.pos < Len(Buffer) /\ call.steps >= MaxSteps
    /\ UNCHANGED <<data, built, pos, header, question>>
    /\ Throw("loop")

FollowUncounted ==      \* mutant of FollowPointer: pointers are not counted
    /\ InLoop /\ Size >= 192
    /\ UNCHANGED <<data, built, pos, header, question>>
    /\ IF call.pos + 1 >= Len(Buffer) THEN Throw("error")
       ELSE /\ call' = [call EXCEPT !.pos = U16(Buffer, call.pos) - 256 * 192,
                                    !.original = IF call.jumped THEN @ ELSE call.pos + 2,
                                    !.jumped = TRUE]
            /\ UNCHANGED <<pc, records, rr>>

FollowForgetting ==     \* mutant of FollowPointer: the way back is the last jump's
    /\ InLoop /\ Size >= 192
    /\ UNCHANGED <<data, built, pos, header, question>>
    /\ IF call.pos + 1 >= Len(Buffer) THEN Throw("error")
       ELSE Turn(U16(Buffer, call.pos) - 256 * 192, TRUE, call.pos + 2, call.name)

\* The offset is not compared with anything; reading goes on after the first pointer.
FollowPointer ==
    /\ InLoop /\ Size >= 192
    /\ UNCHANGED <<data, built, pos, header, question>>
    /\ IF call.pos + 1 >= Len(Buffer) THEN Throw("error")
       ELSE Turn(U16(Buffer, call.pos) - 256 * 192, TRUE,
                 IF call.jumped THEN call.original ELSE call.pos + 2, call.name)

JoinBare(name, label) == name \o label      \* mutant of Join: no dot

Join(name, label) == IF name = << >> THEN label ELSE name \o <<Dot>> \o label

\* Sizes from 64 to 191 are those of plain labels, too.
AppendLabel ==
    /\ InLoop /\ Size \in 1..191
    /\ UNCHANGED <<data, built, pos, header, question>>
    /\ IF call.pos + 1 + Size > Len(Buffer) THEN Throw("error")
       ELSE Turn(call.pos + 1 + Size, call.jumped, call.original,
                 Join(call.name, Bytes(Buffer, call.pos + 1, Size)))

\* A name ends at its zero, or with the buffer: wherever a pointer left it.
EndOfName ==
    /\ \/ pc = "name" /\ call.pos >= Len(Buffer)
       \/ InLoop /\ Size = 0
    /\ LET here == IF call.pos < Len(Buffer) THEN call.pos + 1 ELSE call.pos
           end  == IF call.jumped THEN call.original ELSE here
       IN  CASE call.of = "question" ->
                  /\ question' = [question EXCEPT !.name = call.name]
                  /\ pos' = end /\ pc' = "type_class"
                  /\ UNCHANGED <<call, records, rr>>
             [] call.of = "owner" ->
                  /\ rr' = [NoRecord EXCEPT !.first = pos, !.name = call.name]
                  /\ pos' = end /\ pc' = "record"
                  /\ UNCHANGED <<call, records, question>>
             [] call.of = "rdata" -> UNCHANGED <<pos, question>> /\ DecodeName(end)
    /\ UNCHANGED <<data, built, header>>

\* queryDot returns the response built again, which resolve parses.
Rebuild ==
    /\ pc = "done" /\ built = << >>
    /\ data' = BuildQuery(header, question)
    /\ pc' = "header" /\ pos' = 0 /\ call' = NoCall
    /\ header' = DefaultHeader /\ question' = DefaultQuestion
    /\ records' = << >> /\ rr' = NoRecord
    /\ built' = <<[header |-> header, question |-> question]>>

ReadNext ==
    \/ ReadHeader \/ ReadTypeAndClass \/ ReadRecord
    \/ TooManySteps \/ FollowPointer \/ AppendLabel \/ EndOfName

Next == ReadNext \/ Rebuild

\* Nothing else happens while a packet is parsed.
Spec == Init /\ [][Next]_vars /\ WF_vars(ReadNext)
-----------------------------------------------------------------------------
ParsedValue == [ok : BOOLEAN, names : Seq(Strings),
                chunks : Seq([first : Nat, size : Nat])]
Record == [first : Nat, name : Strings, type : Word, class : Word, ttl : Word \X Word,
           at : Nat, length : Word, parsed : ParsedValue]
Question == [name : Strings, type : Word, class : Word]
Header == [1..6 -> Word]
Call == [of : {"none", "question", "owner", "rdata"}, pos : Nat, name : Strings,
         jumped : BOOLEAN, original : Nat, steps : 0..MaxSteps]

\* Every variable has a value of the C++ type that holds it.
TypeOK ==
    /\ data \in Strings
    /\ built \in Seq([header : Header, question : Question]) /\ Len(built) <= 1
    /\ pc \in {"header", "name", "type_class", "record", "done", "error", "loop"}
    /\ pos \in Nat
    /\ call \in Call
    /\ header \in Header
    /\ question \in Question
    /\ records \in Seq(Record)
    /\ rr \in Record

Finished == pc \in {"done", "error", "loop"}

(***************************************************************************)
(* Wherever the pointers of its name lead, a record lies inside the packet *)
(* and after the one before it: a name, ten bytes, and its rdata.          *)
(***************************************************************************)
RecordsInOrder ==
    /\ pos <= Len(data)
    /\ \A k \in DOMAIN records :
         LET r == records[k]
         IN  /\ r.first + 11 <= r.at
             /\ r.at + r.length <= (IF k < Len(records) THEN records[k + 1].first ELSE pos)

\* What a decoder makes a record's text from is in the record: no decoder indexes
\* rdata behind its end, whatever the length the packet states.
DecodersStayInside ==
    \A k \in DOMAIN records : \A c \in DOMAIN records[k].parsed.chunks :
        records[k].parsed.chunks[c].first + records[k].parsed.chunks[c].size
            <= records[k].length

WithRest(name, rest) == IF rest = << >> THEN name ELSE name \o <<Dot>> \o rest

(***************************************************************************)
(* The names at p by the format alone, without steps, states or the way    *)
(* back: none or one, none if it is cut or its pointers go round.  after   *)
(* has the names at each position that have one part less.  Each part      *)
(* costs at least one byte of b, so Len(b) parts are enough.  A pointer    *)
(* begins with a byte from 192 on: no byte is 256, so from 256 on there    *)
(* are only the names that are written out.                                *)
(***************************************************************************)
NamesAt(b, i, after, pointer) ==
    IF i >= Len(b) THEN {}
    ELSE LET n == At(b, i)
         IN  CASE n = 0 -> {<< >>}
               [] n > 0 /\ n <= 63 /\ i + n < Len(b) ->
                    {WithRest(Bytes(b, i + 1, n), rest) : rest \in after[i + 1 + n]}
               [] n >= pointer /\ i + 1 < Len(b) -> after[U16(b, i) % 2^14]
               [] OTHER -> {}

NamesOfParts(b, pointer) ==
    LET names[left \in 0..Len(b)] ==
            [i \in Nat |-> IF left = 0 THEN {} ELSE NamesAt(b, i, names[left - 1], pointer)]
    IN  names

NamesIn(b, p) == NamesOfParts(b, 192)[Len(b)][p]
WrittenOut(b, p) == NamesOfParts(b, 256)[Len(b)][p]

(***************************************************************************)
(* The name that was read, of the question or of a record's owner, is the  *)
(* one the packet spells, wherever its pointers lead; so is the first name *)
(* in rdata, if it is written out there, its labels and its zero.  (Where  *)
(* the rdata has a pointer, readName is not given the packet that it is an *)
(* offset in, dns_message.cpp:250, 259, 268, 292: RdataNamesAreRight.)     *)
(***************************************************************************)
NamesAreRight ==
    Finished =>
      /\ (pc = "done" /\ Questioned(header)) =>
           \A name \in NamesIn(data, 12) : question.name = name
      /\ \A k \in DOMAIN records :
           LET r == records[k]
           IN  /\ \A name \in NamesIn(data, r.first) : r.name = name
               /\ r.parsed.names # << >> =>
                    \A name \in WrittenOut(Rdata(r), NameAt(r)) : r.parsed.names[1] = name

(***************************************************************************)
(* A name whose labels have 1 to 63 characters, at most MaxSteps - 2 of    *)
(* them, with or without a dot at the end; the root is the empty one.      *)
(***************************************************************************)
Plain(name) ==
    LET ends == {i \in 0..Len(name) : i = Len(name) \/ At(name, i) = Dot}
    IN  /\ 0 \in ends => name = << >>
        /\ \A i, j \in ends : j # i + 1 \/ j = Len(name)
        /\ \A i \in 0..Len(name) - 64 : \E j \in ends : j \in i..i + 63
        /\ Cardinality(ends) < MaxSteps

WithoutLastDot(name) ==
    IF name # << >> /\ name[Len(name)] = Dot THEN SubSeq(name, 1, Len(name) - 1) ELSE name

\* Who parses what buildQuery wrote finds the question that was asked, whichever way
\* its name was typed.
QuestionSurvives ==
    \A k \in DOMAIN built :
        LET q == built[k].question
        IN  Finished /\ Questioned(header) /\ Plain(q.name) =>
                question = [q EXCEPT !.name = WithoutLastDot(q.name)]

\* Every packet is parsed to the end or rejected, though its pointers go round.
EveryParseEnds == pc = "header" ~> Finished

\* "Loop de compressão de nomes DNS detectado" (dns_message.cpp:172): such a name
\* does go round.
LoopMeansLoop == pc = "loop" => NamesIn(data, pos) = {}

(***************************************************************************)
(* "seguindo delegacoes (NS), tratando CNAMEs" (README.md:8): the name in  *)
(* the data of an NS or a CNAME is the one the packet spells at its place, *)
(* with the pointers, which are offsets in the packet.                     *)
(***************************************************************************)
RdataNamesAreRight ==
    \A k \in DOMAIN records :
        LET r == records[k]
        IN  r.type \in {Type.NS, Type.CNAME} /\ r.parsed.names # << >> =>
                \A name \in NamesIn(data, r.at) : r.parsed.names[1] = name

\* "Pacote DNS truncado" (dns_message.cpp:199): a name cut by the end of the packet is
\* not accepted.
CutNamesAreTold ==
    \A k \in DOMAIN records : NamesIn(data, records[k].first) # {}
=============================================================================
