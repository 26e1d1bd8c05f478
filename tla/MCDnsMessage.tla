----------------------------- MODULE MCDnsMessage -----------------------------
\* Packets for DnsMessage, put together from pieces.
EXTENDS DnsMessage

Front(qd, an, ns, ar) == <<0, 7, 129, 128, 0, qd, 0, an, 0, ns, 0, ar>>
InA == <<0, 1, 0, 1>>

\* Questions of up to four bytes: zeros, labels, labels that do not fit, pointers into
\* the header, to themselves, forward, and beyond the end.
Bodies == UNION {[1..n -> {0, 1, 12, 13, 14, 97, 192}] : n \in 0..4}
QuestionPackets == {Front(1, 0, 0, 0) \o b \o InA : b \in Bodies}

Owners == {<<192, 12>>, <<0>>, <<1, 98, 0>>, <<1, 98, 192, 12>>, <<192, 19>>, <<192, 200>>}

Numbers(n) == [i \in 1..n |-> i]

\* Type and rdata: of the right length, too short, cut, empty; names written out,
\* behind pointers, and pointing to themselves.
Rdatas ==
    {<<1, Numbers(4)>>, <<1, Numbers(3)>>, <<28, Numbers(16)>>, <<28, Numbers(4)>>,
     <<5, <<1, 99, 0>>>>, <<5, <<1, 99, 192, 12>>>>, <<2, <<192, 0>>>>, <<2, <<2, 99>>>>,
     <<6, <<1, 99, 0, 192, 0>> \o Numbers(20)>>, <<6, <<1, 99, 0, 0>> \o Numbers(19)>>,
     <<6, <<0>>>>, <<15, <<0, 10, 1, 99, 0>>>>, <<15, <<0, 10>>>>, <<15, <<0>>>>,
     <<16, <<1, 97, 2, 98, 99>>>>, <<16, <<3, 97>>>>, <<16, << >>>>,
     <<41, <<0, 1, 0, 1, 9, 0, 2, 0, 5>>>>, <<41, << >>>>, <<43, <<1>>>>, <<99, <<1>>>>}

Rr(owner, rd) ==
    owner \o <<0, rd[1], 0, 1, 0, 0, 1, 44, 0, Len(rd[2])>> \o rd[2]

Asked == <<1, 97, 0>> \o InA

Singles ==
    {Front(1, 1, 0, 0) \o Asked \o Rr(o, rd) : o \in Owners, rd \in Rdatas}

\* A second record whose owner leads through the first; no question; a section
\* missing, or announced twice.
Pairs ==
    LET two == {Rr(o1, rd) \o Rr(o2, <<1, Numbers(4)>>) :
                    o1 \in {<<192, 12>>, <<1, 98, 192, 12>>},
                    o2 \in {<<192, 19>>, <<192, 31>>, <<1, 100, 192, 21>>},
                    rd \in {<<5, <<1, 99, 0>>>>, <<5, <<1, 99, 192, 12>>>>,
                            <<2, <<192, 19>>>>}}
    IN  {Front(1, an, 2 - an, 0) \o Asked \o rs : an \in 0..2, rs \in two}
        \cup {Front(0, 1, 0, 1) \o rs : rs \in two}
        \cup {Front(1, 1, 1, 1) \o Asked \o rs : rs \in two}

Cut == UNION {{SubSeq(p, 1, n) : n \in 0..Len(p) - 1} :
                p \in {q \in Singles : At(q, 19) \in {1, 192}}}

\* n labels of m letters each, no dot at the end.
Letters(n, m) == [i \in 1..(n * (m + 1) - 1) |-> IF i % (m + 1) = 0 THEN Dot ELSE 97]

\* A name of twenty labels, written out.
Long == Front(1, 0, 0, 0) \o [i \in 1..40 |-> IF i % 2 = 1 THEN 1 ELSE 97] \o <<0>> \o InA

MCPackets == QuestionPackets \cup Singles \cup Pairs \cup Cut
LongPackets == {Long}

MCQuestions ==
    [name : {<< >>, <<97>>, <<97, Dot>>, <<97, Dot, Dot, 98>>, <<Dot>>, Letters(3, 2),
             Letters(2, 63), Letters(1, 64), Letters(1, 192), Letters(1, 256), Letters(18, 1),
             Letters(20, 1)},
     type : {1, 28, 256}]
=============================================================================
