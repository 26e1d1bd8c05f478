------------------------------ MODULE DnsClient ------------------------------
(***************************************************************************)
(* DNSClient::resolve (src/dns/dns_client.cpp) as configured for a mode by *)
(* DNSCommandHandler::configureClient: one resolution against servers that *)
(* answer, refer, redirect, stay silent or truncate.                       *)
(*                                                                         *)
(* The network is external: net[s][n] is what server s says of name n, the *)
(* same all along; every exchange may fail on its own.                     *)
(***************************************************************************)
EXTENDS Integers, Sequences

CONSTANTS
    Names,      \* domain names; Domain is the one asked for
    Domain,
    Garbled,    \* what a compressed CNAME target is decoded to, a name too
    Compressed, \* servers compress the targets they send
    Servers,    \* addresses
    Roots,      \* the three root hints, a sequence
    Ns,         \* --ns
    Modes,      \* the --mode to consider
    Nets,       \* the networks to consider
    Unusable,   \* addresses no socket takes (AAAA) or nobody is behind
    Weathers,   \* the states of the network to consider, "calm" or "stormy"
    MaxDepth,   \* MAX_DEPTH
    Nothing

\* What of a response decides where resolve goes; an answer is the name a CNAME
\* gives, or "data".
Messages == [rcode : {"NOERROR", "NXDOMAIN", "SERVFAIL"},
             answers : Seq(Names \cup {"data"}),
             authority : {"none", "soa", "ns"},
             glue : Seq(Servers)]

\* What arrives of a message: all of it; what the server put into a datagram with
\* its TC bit set, which parses; or a piece that does not parse.
Forms == {"whole", "truncated", "cut"}
Packets == [message : Messages, form : Forms]

ASSUME ClientAssumption ==
    /\ Domain \in Names /\ Garbled \in Names
    /\ Modes \subseteq {"Iterative", "Recursive", "Forwarder", "Dot"}
    /\ Roots \in Seq(Servers) /\ Roots # << >> /\ Ns \in Servers
    /\ Unusable \subseteq Servers
    /\ Weathers \subseteq {"calm", "stormy"}
    /\ MaxDepth \in Nat /\ MaxDepth > 0
    /\ Nets \subseteq [Servers -> [Names -> Messages]]
    /\ Nothing \notin Packets

VARIABLES
    net,
    mode,        \* --mode, as configureClient sets the client up for it
    weather,     \* in a storm anything sent is lost, cut or held back at will
    pc,          \* "ask", "dot", "udp", "tcp", "handle", or how it ended: "done",
                 \* "blocked" in a recv, "killed" in a send
    nameservers, \* what is left of the current list, its first one in use
    name,        \* current_name_to_query
    depth,
    packet,      \* response_bytes: Nothing, or what arrived of a message
    result       \* what resolve returns: Nothing, or what arrived of a message

vars == <<net, mode, weather, pc, nameservers, name, depth, packet, result>>

\* configureClient: --ns counts in one mode only.
IsRecursive == mode # "Iterative"
UseDot == mode = "Dot"
Hints == IF mode = "Forwarder" THEN <<Ns>> ELSE Roots

Stormy == weather = "stormy"

\* The first CNAME among the answers, at i: the one processResponse follows.
FirstCname(message, i) ==
    message.answers[i] # "data" /\ \A j \in 1..(i - 1) : message.answers[j] = "data"

HasCname(message) == \E i \in DOMAIN message.answers : message.answers[i] # "data"

DecodeBlind(target) == Garbled  \* mutant of Decode: the target is never read

\* decodeCNAME reads the target alone, without the message its pointers are
\* offsets in.
Decode(target) == IF Compressed THEN Garbled ELSE target

Init ==
    /\ net \in Nets
    /\ mode \in Modes
    /\ weather \in Weathers
    /\ pc = "ask"
    /\ nameservers = Hints
    /\ name = Domain
    /\ depth = 0
    /\ packet = Nothing
    /\ result = Nothing
-----------------------------------------------------------------------------
MessageAtFirst == net[Head(nameservers)][Domain]  \* mutant of Message: stale name

Server == Head(nameservers)
Message == net[Server][name]
Arrived(message, form) == [message |-> message, form |-> form]

Return(r) == pc' = "done" /\ result' = r
Receive(p, next) == packet' = p /\ pc' = next

(***************************************************************************)
(* A server that takes the connection and then says nothing, or resets it: *)
(* after connect the sockets block, and no timeout is set on them, so recv *)
(* waits for ever; send raises SIGPIPE.                                    *)
(***************************************************************************)
Broken == Stormy /\ Server \notin Unusable /\ pc' \in {"blocked", "killed"}

CutOffLate == IsRecursive /\ depth > MaxDepth  \* mutant of CutOff: one round more

\* The condition of the loop; iterative mode sends one datagram and has no loop.
CutOff == IsRecursive /\ depth = MaxDepth

NoRound == depth        \* mutant of NextRound: rounds are not counted

NextRound == depth + 1

\* The head of the loop.
Ask ==
    /\ pc = "ask"
    /\ IF CutOff
       THEN Return(Nothing) /\ UNCHANGED depth
       ELSE /\ depth' = NextRound
            /\ IF nameservers = << >> THEN Return(Nothing)
               ELSE pc' = (IF UseDot THEN "dot" ELSE "udp") /\ UNCHANGED result
    /\ UNCHANGED <<net, mode, weather, nameservers, name, packet>>

\* buildQuery, of a response.
Rebuilt(m) == [rcode |-> m.rcode, answers |-> << >>, authority |-> "none", glue |-> << >>]

(***************************************************************************)
(* queryDot returns the response built again by buildQuery: the counts of  *)
(* its header, its question, and none of its records.  It parses only when *)
(* there were none; a server that left none to set the TC bit is asked     *)
(* again over TCP.                                                         *)
(***************************************************************************)
QueryDot ==
    /\ pc = "dot"
    /\ \/ /\ Server \in Unusable \/ Stormy
          /\ Receive(Nothing, "udp")
       \/ Broken /\ UNCHANGED packet
       \/ /\ Server \notin Unusable
          /\ Receive(Arrived(Rebuilt(Message),
                             IF Message = Rebuilt(Message) THEN "whole" ELSE "cut"), "handle")
       \/ /\ Server \notin Unusable /\ Stormy
          /\ Receive(Arrived(Rebuilt(Message), "truncated"), "tcp")
    /\ UNCHANGED <<net, mode, weather, nameservers, name, depth, result>>

(***************************************************************************)
(* What a calm network delivers is whole.  Iterative mode returns the      *)
(* datagram as it came; the others ask again over TCP for one with the TC  *)
(* bit, as for one that never came, but not for one that does not parse.   *)
(***************************************************************************)
QueryUdp ==
    /\ pc = "udp"
    /\ \/ /\ Server \in Unusable \/ Stormy
          /\ IF IsRecursive THEN Receive(Nothing, "tcp") /\ UNCHANGED result
                            ELSE Return(Nothing) /\ UNCHANGED packet
       \/ /\ Server \notin Unusable
          /\ \E form \in IF Stormy THEN Forms ELSE {"whole"} :
                IF IsRecursive
                THEN /\ Receive(Arrived(Message, form),
                                IF form = "truncated" THEN "tcp" ELSE "handle")
                     /\ UNCHANGED result
                ELSE Return(Arrived(Message, form)) /\ UNCHANGED packet
    /\ UNCHANGED <<net, mode, weather, nameservers, name, depth>>

DropAll ==              \* mutant of Drop: one failure empties the list
    nameservers' = << >> /\ pc' = "ask"

\* A server that fails is dropped; the next one costs one more of MAX_DEPTH.
Drop == nameservers' = Tail(nameservers) /\ pc' = "ask"

QueryTcp ==
    /\ pc = "tcp"
    /\ \/ /\ Server \in Unusable \/ Stormy
          /\ Drop
          /\ packet' = Nothing
       \/ Broken /\ UNCHANGED <<nameservers, packet>>
       \/ /\ Server \notin Unusable
          /\ Receive(Arrived(Message, "whole"), "handle")
          /\ UNCHANGED nameservers
    /\ UNCHANGED <<net, mode, weather, name, depth, result>>

(***************************************************************************)
(* parseResponse and processResponse.  An error code ends the resolution;  *)
(* a CNAME starts it again from the roots, whatever the mode, and with all *)
(* of MAX_DEPTH ahead; without answers the addresses of the additional     *)
(* section are the next servers; without those the message is the result.  *)
(***************************************************************************)
Handle ==
    /\ pc = "handle"
    /\ LET m == packet.message
           Parses == packet.form = "whole"
       IN  \/ ~Parses /\ Drop /\ UNCHANGED <<name, depth, result>>
           \/ /\ Parses
              /\ m.rcode = "NOERROR"
              /\ \E i \in DOMAIN m.answers :
                    FirstCname(m, i) /\ name' = Decode(m.answers[i])
              /\ nameservers' = Roots
              /\ depth' = 0
              /\ pc' = "ask"
              /\ UNCHANGED result
           \/ /\ Parses
              /\ m.rcode = "NOERROR" /\ m.answers = << >> /\ m.glue # << >>
              /\ nameservers' = m.glue
              /\ pc' = "ask"
              /\ UNCHANGED <<name, depth, result>>
           \/ /\ Parses
              /\ \/ m.rcode # "NOERROR"
                 \/ m.answers # << >> /\ ~HasCname(m)
                 \/ m.answers = << >> /\ m.glue = << >>
              /\ Return(packet)
              /\ UNCHANGED <<nameservers, name, depth>>
    /\ UNCHANGED <<net, mode, weather, packet>>

Next == Ask \/ QueryDot \/ QueryUdp \/ QueryTcp \/ Handle

\* The process runs until it ends or blocks; the waits for a datagram and for
\* a connection have timeouts.
FairSpec == Init /\ [][Next]_vars /\ WF_vars(Next)
-----------------------------------------------------------------------------
\* Type invariant.
TypeOK ==
    /\ pc \in {"ask", "dot", "udp", "tcp", "handle", "done", "blocked", "killed"}
    /\ nameservers \in Seq(Servers)
    /\ name \in Names
    /\ depth \in 0..MaxDepth

\* Some server sends who asks for alias on to target.
Redirects(alias, target) ==
    \E s \in Servers : LET m == net[s][alias]
                      IN  /\ m.rcode = "NOERROR"
                          /\ \E i \in DOMAIN m.answers :
                                FirstCname(m, i) /\ m.answers[i] = target

\* A chain of redirections leads from source to target: target is in every set
\* of names that holds those source redirects to and is closed under redirection.
Leads(source, target) ==
    \A reached \in SUBSET Names :
        (\A a \in reached \cup {source}, b \in Names :
            Redirects(a, b) => b \in reached) => target \in reached

(***************************************************************************)
(* The resolver only ever asks for the name it was given, or for one that  *)
(* CNAMEs lead to: it follows the aliases the servers gave (README.md:8).  *)
(***************************************************************************)
FollowsCnames == name = Domain \/ Leads(Domain, name)

(***************************************************************************)
(* What resolve returns is what some server it could reach says of the     *)
(* name the aliases led to: never a message kept from an earlier name or   *)
(* server, never an alias left unfollowed, and all of it, however many     *)
(* pieces were received on the way.  Iterative mode alone returns what     *)
(* came, cut or truncated if it came so (dns_client.cpp:26-36).            *)
(***************************************************************************)
ResultIsCurrent ==
    result # Nothing =>
        \E s \in Servers \ Unusable :
            /\ result.message = net[s][name]
            /\ result.form = "whole" \/ (Stormy /\ ~IsRecursive)
            /\ IsRecursive /\ result.message.rcode = "NOERROR" => ~HasCname(result.message)

(***************************************************************************)
(* On a network that loses and truncates nothing, resolve without TLS      *)
(* gives up only after MAX_DEPTH rounds, or on a list of servers none of   *)
(* which is usable: one dead server is not the end (dns_client.cpp:92-107).*)
(***************************************************************************)
Lists == {Hints, Roots} \cup {net[s][n].glue : s \in Servers, n \in Names}
GivesUpOnlyWhenCutOff ==
    /\ pc = "done" /\ result = Nothing
    /\ mode \in {"Recursive", "Forwarder"} /\ ~Stormy
    /\ \A list \in Lists : list # << >> =>
          \E i \in DOMAIN list : list[i] \notin Unusable
    => depth = MaxDepth

(***************************************************************************)
(* As long as the aliases do not go in a circle, resolve does not go on    *)
(* for ever, whatever the servers refer to and whatever is lost: it        *)
(* returns, or the stream of one server has it blocked or killed.          *)
(***************************************************************************)
TerminatesWithoutAliasCircle ==
    (\A n \in Names : ~Leads(n, n)) ~>
        pc = "done" \/ (Stormy /\ pc \in {"blocked", "killed"})

(***************************************************************************)
(* "Executa o processo de resolucao ... Retorna vazio em caso de falha"    *)
(* (dns_client.hpp:23-26) with MAX_DEPTH as its bound: it returns.         *)
(***************************************************************************)
Terminates == <>(pc = "done")

(***************************************************************************)
(* "Timeout em segundos para a conexao e o handshake", "... para a         *)
(* operacao de leitura" (dot_client.hpp:45-65): a server that falls silent *)
(* costs a timeout, and the next transport is tried.                       *)
(***************************************************************************)
SilenceTimesOut == pc # "blocked"

(***************************************************************************)
(* "a partir dos servidores raiz, seguindo delegacoes (NS)" (README.md:8): *)
(* a referral is followed, not returned as the answer.                     *)
(***************************************************************************)
Referral(m) == m.rcode = "NOERROR" /\ m.answers = << >> /\ m.authority = "ns"
ReferralsFollowed == result # Nothing /\ IsRecursive => ~Referral(result.message)

(***************************************************************************)
(* "--ns: O endereco IP do servidor de nomes a ser consultado"             *)
(* (README.md:58): the resolution starts with that server.                 *)
(***************************************************************************)
NsIsAsked == pc \in {"dot", "udp"} /\ name = Domain /\ depth = 1 => Server = Ns

(***************************************************************************)
(* queryDot "rebuilds the raw bytes of the response" (dns_client.cpp:270): *)
(* what is handled is what the server said, over TLS as over UDP and TCP   *)
(* (tests/test_modes.sh:58-62 looks for a record of the answer).           *)
(***************************************************************************)
ResponseIsWhole == pc = "handle" => packet.message = Message
=============================================================================
