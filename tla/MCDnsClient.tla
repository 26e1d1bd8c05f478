----------------------------- MODULE MCDnsClient -----------------------------
(* Networks for TLC: two roots, two authoritative servers, an address nobody *)
(* answers at, two names and the one that wrong decoding makes up.           *)
EXTENDS DnsClient, TLC

CONSTANTS n1, n2, garbled, r1, r2, s1, s2, v6

RootList == <<r1, r2>>

Text(rcode, answers, authority, glue) ==
    [rcode |-> rcode, answers |-> answers, authority |-> authority, glue |-> glue]

Answer == Text("NOERROR", <<"data">>, "none", << >>)
NoData == Text("NOERROR", << >>, "soa", << >>)
NxDomain == Text("NXDOMAIN", << >>, "soa", << >>)
ServFail == Text("SERVFAIL", << >>, "none", << >>)
Alias(n) == Text("NOERROR", <<n>>, "none", << >>)
AliasAndData(n) == Text("NOERROR", <<n, "data">>, "none", << >>)
Referral1 == Text("NOERROR", << >>, "ns", <<s1>>)
Referral2 == Text("NOERROR", << >>, "ns", <<v6, s2>>)
Glueless == Text("NOERROR", << >>, "ns", << >>)

\* Both roots say the same of a name; nothing is known of the others.
Net(root, first, second) ==
    [s \in Servers |->
        [n \in Names |->
            CASE n \notin DOMAIN root -> NxDomain
              [] s \in {r1, r2}       -> root[n]
              [] s = s1               -> first[n]
              [] s = s2               -> second[n]
              [] OTHER                -> ServFail]]

Known == {n1, n2}

\* Well kept zones: the roots refer, and an alias leads to a name with data.
TreeNets ==
    {Net(root, first, second) :
        root \in [Known -> {Referral1, Referral2, NxDomain}],
        first \in [Known -> {Answer, NoData, ServFail}]
                  \cup {(n1 :> a @@ n2 :> Answer) : a \in {Alias(n2), AliasAndData(n2)}},
        second \in {(n1 :> Alias(n2) @@ n2 :> Answer), (n1 :> Answer @@ n2 :> Answer)}}

\* Badly kept ones: servers that refer to themselves or to one another, and
\* aliases that may come back to where they started.
TangledNets ==
    {Net(root, first, second) :
        root \in [Known -> {Referral1, Referral2, Alias(n2)}],
        first \in [Known -> {Answer, Referral1, Referral2, Alias(n1), Alias(n2)}],
        second \in {(n1 :> Alias(n2) @@ n2 :> Referral1),
                    (n1 :> Answer @@ n2 :> Alias(n1))}}

AllNets == TreeNets \cup TangledNets

GluelessNets == {Net([n \in Known |-> Glueless], [n \in Known |-> Answer],
                     [n \in Known |-> Answer])}
=============================================================================
