--------------------------- MODULE DnsClientProofs ---------------------------
(***************************************************************************)
(* What holds of every resolution of DnsClient, whatever the names, the    *)
(* servers, the networks and MAX_DEPTH: its type, that it returns what a   *)
(* server says of the name it ended with, that it follows the aliases, and *)
(* that on a calm network only MAX_DEPTH makes it give up.                 *)
(***************************************************************************)
EXTENDS DnsClient, TLAPS

\* The variables the type invariant leaves out, and what a place in the code
\* implies of them.
Typed ==
    /\ TypeOK
    /\ net \in Nets
    /\ mode \in Modes
    /\ pc \in {"dot", "udp", "tcp", "handle"} => nameservers # << >>
    /\ pc = "handle" => packet \in Packets

\* A mode without recursion asks one server once.
OneShot == ~IsRecursive => \/ pc = "ask" /\ depth = 0
                           \/ pc \in {"udp", "done"}

\* Only a DoT resolution asks over TLS.
DotIsAsked == pc = "dot" => UseDot

\* resolve returns where it has a result.
Returned == result # Nothing => pc = "done"

\* What is handled is all that the server in use says of the current name, if it
\* parses: nothing is left of another server or another name.
Parses == packet.form = "whole"
PacketIsCurrent ==
    pc = "handle" /\ Parses => Server \notin Unusable /\ packet.message = Message

\* On a network that loses nothing, without TLS, all lists having a server that
\* can be used.
Calm ==
    /\ mode \in {"Recursive", "Forwarder"} /\ ~Stormy
    /\ \A list \in Lists : list # << >> => \E i \in DOMAIN list : list[i] \notin Unusable

\* The servers not yet tried include one that can be used, and what comes parses.
OneIsLeft ==
    Calm => /\ pc \in {"ask", "udp", "tcp", "handle"} =>
                   \E i \in DOMAIN nameservers : nameservers[i] \notin Unusable
            /\ pc = "handle" => Parses

IInv ==
    /\ Typed
    /\ OneShot
    /\ DotIsAsked
    /\ Returned
    /\ PacketIsCurrent
    /\ ResultIsCurrent
    /\ OneIsLeft
    /\ GivesUpOnlyWhenCutOff
-----------------------------------------------------------------------------
\* What the assumptions on the constants say of Hints and Lists.
LEMMA HintsFacts ==
    /\ Hints \in Seq(Servers) /\ Hints # << >> /\ Hints \in Lists
    /\ Roots \in Seq(Servers) /\ Roots # << >> /\ Roots \in Lists
<1>1. <<Ns>> \in Seq(Servers) /\ <<Ns>> # << >>
    BY ClientAssumption
<1> QED
    BY <1>1, ClientAssumption DEF Hints, Lists

\* The server in use, and what it says of the current name.
LEMMA InUse ==
    ASSUME Typed, nameservers # << >>
    PROVE  /\ Server \in Servers /\ Message \in Messages
           /\ Tail(nameservers) \in Seq(Servers)
<1>1. Server \in Servers /\ Tail(nameservers) \in Seq(Servers)
    BY DEF Typed, TypeOK, Server
<1>2. net \in [Servers -> [Names -> Messages]] /\ name \in Names
    BY ClientAssumption DEF Typed, TypeOK
<1> QED
    BY <1>1, <1>2 DEF Message

\* Dropping the server in use leaves the one that can be used.
LEMMA TailKeeps ==
    ASSUME NEW list \in Seq(Servers), list # << >>, Head(list) \in Unusable,
           \E i \in DOMAIN list : list[i] \notin Unusable
    PROVE  \E i \in DOMAIN Tail(list) : Tail(list)[i] \notin Unusable
<1>1. PICK i \in DOMAIN list : list[i] \notin Unusable
    OBVIOUS
<1>2. i \in 1..Len(list) /\ i # 1
    BY <1>1
<1>3. i - 1 \in DOMAIN Tail(list) /\ Tail(list)[i - 1] = list[i]
    BY <1>2
<1> QED
    BY <1>1, <1>3

\* What is received has the type of a packet.
LEMMA Received ==
    ASSUME NEW m \in Messages, NEW form \in Forms
    PROVE  /\ Arrived(m, form) \in Packets
           /\ Arrived(m, form).message = m /\ Arrived(m, form).form = form
BY DEF Arrived, Packets

\* So has a message without its records.
LEMMA RebuiltType ==
    ASSUME NEW m \in Messages
    PROVE  Rebuilt(m) \in Messages
<1>1. << >> \in Seq(Names \cup {"data"}) /\ << >> \in Seq(Servers)
    OBVIOUS
<1> QED
    BY <1>1 DEF Rebuilt, Messages

LEMMA InitInv == Init => IInv
<1> SUFFICES ASSUME Init PROVE IInv
    OBVIOUS
<1>1. Typed
    BY HintsFacts, ClientAssumption DEF Init, Typed, TypeOK
<1>2. OneIsLeft
    BY HintsFacts DEF Init, OneIsLeft, Calm
<1> QED
    BY <1>1, <1>2 DEF Init, IInv, OneShot, DotIsAsked, Returned, PacketIsCurrent,
                      ResultIsCurrent, GivesUpOnlyWhenCutOff

\* A step that changes none of these keeps what Lists and Calm say.
LEMMA SameWorld ==
    ASSUME UNCHANGED <<net, mode, weather>>
    PROVE  /\ Lists' = Lists /\ Calm' = Calm /\ IsRecursive' = IsRecursive
           /\ Hints' = Hints /\ Stormy' = Stormy /\ UseDot' = UseDot
<1>1. Hints' = Hints /\ IsRecursive' = IsRecursive /\ Stormy' = Stormy /\ UseDot' = UseDot
    BY DEF Hints, IsRecursive, Stormy, UseDot
<1>2. Lists' = Lists
    BY <1>1 DEF Lists
<1> QED
    BY <1>1, <1>2 DEF Calm

LEMMA AskInv == IInv /\ Ask => IInv'
<1> SUFFICES ASSUME IInv, Ask PROVE IInv'
    OBVIOUS
<1> USE SameWorld DEF Ask, IInv
<1>1. /\ pc = "ask" /\ result = Nothing
      /\ UNCHANGED <<net, mode, weather, nameservers, name, packet>>
    BY DEF Returned
<1>2. depth' \in 0..MaxDepth
    <2>1. depth \in 0..MaxDepth /\ MaxDepth \in Nat /\ MaxDepth > 0
        BY ClientAssumption DEF Typed, TypeOK
    <2>2. CASE CutOff
        BY <2>1, <2>2
    <2>3. CASE ~CutOff
        <3>1. depth # MaxDepth
            BY <1>1, <2>1, <2>3 DEF CutOff, OneShot
        <3> QED
            BY <2>1, <2>3, <3>1 DEF NextRound
    <2> QED
        BY <2>2, <2>3
<1>3. /\ pc' \in {"done", "dot", "udp"} /\ result' = Nothing
      /\ pc' = "dot" => UseDot
      /\ pc' \in {"dot", "udp"} => nameservers # << >>
    BY <1>1 DEF Return
<1>4. Typed'
    BY <1>1, <1>2, <1>3 DEF Typed, TypeOK
<1>5. OneShot' /\ DotIsAsked' /\ Returned' /\ PacketIsCurrent' /\ ResultIsCurrent'
    BY <1>1, <1>3 DEF OneShot, DotIsAsked, Returned, PacketIsCurrent, ResultIsCurrent,
                      IsRecursive, UseDot
<1>6. OneIsLeft'
    BY <1>1, <1>3 DEF OneIsLeft
<1>7. GivesUpOnlyWhenCutOff'
    <2> SUFFICES ASSUME Calm, pc' = "done" PROVE depth' = MaxDepth
        BY <1>1 DEF GivesUpOnlyWhenCutOff, Calm
    <2>1. nameservers # << >>
        BY <1>1 DEF OneIsLeft
    <2>2. CutOff
        BY <2>1
    <2> QED
        BY <2>2 DEF CutOff
<1> QED
    BY <1>4, <1>5, <1>6, <1>7

\* The rebuilt response is the message itself in the one case where it parses.
LEMMA DotInv == IInv /\ QueryDot => IInv'
<1> SUFFICES ASSUME IInv, QueryDot PROVE IInv'
    OBVIOUS
<1> USE SameWorld DEF IInv
<1>1. /\ pc = "dot" /\ nameservers # << >> /\ result = Nothing /\ UseDot
      /\ UNCHANGED <<net, mode, weather, nameservers, name, depth, result>>
    BY DEF QueryDot, Returned, DotIsAsked, Typed
<1>2. Server' = Server /\ Message' = Message /\ Message \in Messages
    BY <1>1, InUse DEF Server, Message
<1>3. pc' \in {"udp", "tcp", "handle", "blocked", "killed"}
    BY DEF QueryDot, Receive, Broken
<1>4. ASSUME pc' = "handle"
      PROVE  /\ packet' \in Packets
             /\ Server \notin Unusable
             /\ Parses' => packet'.message = Message
    <2>1. /\ Server \notin Unusable
          /\ packet' = Arrived(Rebuilt(Message),
                               IF Message = Rebuilt(Message) THEN "whole" ELSE "cut")
        BY <1>4 DEF QueryDot, Receive, Broken
    <2>2. CASE Message = Rebuilt(Message)
        <3>1. packet' = Arrived(Message, "whole") /\ "whole" \in Forms
            BY <2>1, <2>2 DEF Forms
        <3> QED
            BY <1>2, <2>1, <3>1, Received
    <2>3. CASE Message # Rebuilt(Message)
        <3>1. packet' = Arrived(Rebuilt(Message), "cut") /\ "cut" \in Forms
            BY <2>1, <2>3 DEF Forms
        <3> QED
            BY <1>2, <2>1, <3>1, Received, RebuiltType DEF Parses
    <2> QED
        BY <2>2, <2>3
<1>5. Typed'
    BY <1>1, <1>3, <1>4 DEF Typed, TypeOK
<1>6. OneShot' /\ DotIsAsked' /\ Returned' /\ PacketIsCurrent' /\ ResultIsCurrent'
    BY <1>1, <1>2, <1>3, <1>4
       DEF OneShot, DotIsAsked, Returned, PacketIsCurrent, ResultIsCurrent, IsRecursive,
           UseDot
<1>7. OneIsLeft' /\ GivesUpOnlyWhenCutOff'
    BY <1>1, <1>3 DEF OneIsLeft, GivesUpOnlyWhenCutOff, Calm, UseDot
<1> QED
    BY <1>5, <1>6, <1>7

LEMMA UdpInv == IInv /\ QueryUdp => IInv'
<1> SUFFICES ASSUME IInv, QueryUdp PROVE IInv'
    OBVIOUS
<1> USE SameWorld DEF IInv
<1>1. /\ pc = "udp" /\ nameservers # << >> /\ result = Nothing
      /\ UNCHANGED <<net, mode, weather, nameservers, name, depth>>
    BY DEF QueryUdp, Returned, Typed
<1>2. /\ Server' = Server /\ Message' = Message
      /\ Server \in Servers /\ Message \in Messages
    BY <1>1, InUse DEF Server, Message
<1>3. CASE pc' = "tcp" /\ IsRecursive /\ UNCHANGED result
    <2>1. Typed'
        BY <1>1, <1>3 DEF Typed, TypeOK
    <2> QED
        BY <1>1, <1>2, <1>3, <2>1
           DEF OneShot, DotIsAsked, Returned, PacketIsCurrent, ResultIsCurrent,
               OneIsLeft, GivesUpOnlyWhenCutOff
<1>4. ASSUME pc' = "handle", IsRecursive, UNCHANGED result, Server \notin Unusable,
             NEW form \in Forms, form = "whole" \/ Stormy, packet' = Arrived(Message, form)
      PROVE  IInv'
    <2>1. packet' \in Packets /\ packet'.message = Message /\ (Parses' \/ Stormy)
        BY <1>2, <1>4, Received DEF Parses
    <2>2. Typed'
        BY <1>1, <1>4, <2>1 DEF Typed, TypeOK
    <2>3. PacketIsCurrent'
        BY <1>1, <1>2, <1>4, <2>1 DEF PacketIsCurrent
    <2>4. OneIsLeft'
        BY <1>1, <1>2, <1>4, <2>1 DEF OneIsLeft, Calm
    <2> QED
        BY <1>1, <1>2, <1>4, <2>2, <2>3, <2>4
           DEF OneShot, DotIsAsked, Returned, ResultIsCurrent, GivesUpOnlyWhenCutOff
<1>5. ASSUME pc' = "done", ~IsRecursive,
             \/ result' = Nothing
             \/ /\ Server \notin Unusable
                /\ \E form \in Forms :
                      /\ form = "whole" \/ Stormy
                      /\ result' = Arrived(Message, form)
      PROVE  IInv'
    <2>1. Typed'
        BY <1>1, <1>5 DEF Typed, TypeOK
    <2>2. ResultIsCurrent'
        <3>1. CASE result' = Nothing
            BY <3>1 DEF ResultIsCurrent
        <3>2. CASE result' # Nothing
            <4>1. PICK form \in Forms : /\ form = "whole" \/ Stormy
                                        /\ result' = Arrived(Message, form)
                BY <1>5, <3>2
            <4>2. result'.message = net[Server][name] /\ result'.form = form
                BY <1>2, <4>1, Received DEF Message
            <4> QED
                BY <1>1, <1>2, <1>5, <3>2, <4>1, <4>2 DEF ResultIsCurrent
        <3> QED
            BY <3>1, <3>2
    <2> QED
        BY <1>1, <1>2, <1>5, <2>1, <2>2
           DEF OneShot, DotIsAsked, Returned, PacketIsCurrent, OneIsLeft,
               GivesUpOnlyWhenCutOff, IsRecursive
<1>6. CASE IF IsRecursive THEN Receive(Nothing, "tcp") /\ UNCHANGED result
                          ELSE Return(Nothing) /\ UNCHANGED packet
    <2>1. CASE IsRecursive
        BY <1>3, <1>6, <2>1 DEF Receive
    <2>2. CASE ~IsRecursive
        BY <1>5, <1>6, <2>2 DEF Return
    <2> QED
        BY <2>1, <2>2
<1>7. ASSUME Server \notin Unusable,
             NEW form \in Forms, form = "whole" \/ Stormy,
             IF IsRecursive
             THEN /\ Receive(Arrived(Message, form),
                             IF form = "truncated" THEN "tcp" ELSE "handle")
                  /\ UNCHANGED result
             ELSE Return(Arrived(Message, form)) /\ UNCHANGED packet
      PROVE  IInv'
    <2>1. CASE IsRecursive /\ form = "truncated"
        BY <1>3, <1>7, <2>1 DEF Receive
    <2>2. CASE IsRecursive /\ form # "truncated"
        BY <1>4, <1>7, <2>2 DEF Receive
    <2>3. CASE ~IsRecursive
        BY <1>5, <1>7, <2>3 DEF Return
    <2> QED
        BY <2>1, <2>2, <2>3
<1>8. \A form \in IF Stormy THEN Forms ELSE {"whole"} :
          form \in Forms /\ (form = "whole" \/ Stormy)
    BY DEF Forms
<1> QED
    BY <1>6, <1>7, <1>8 DEF QueryUdp

\* The server that failed was not the one that could be used.
LEMMA DropInv ==
    ASSUME IInv, pc \in {"tcp", "handle"}, Drop, IsRecursive, Calm => Server \in Unusable,
           UNCHANGED <<net, mode, weather, name, depth, result>>
    PROVE  IInv'
<1> USE SameWorld DEF IInv, Drop
<1>1. nameservers # << >> /\ result = Nothing
    BY DEF Returned, Typed
<1>2. Typed'
    BY <1>1, InUse DEF Typed, TypeOK
<1>3. OneIsLeft'
    <2> SUFFICES ASSUME Calm
                 PROVE  \E i \in DOMAIN nameservers' : nameservers'[i] \notin Unusable
        BY DEF OneIsLeft
    <2> QED
        BY <1>1, TailKeeps DEF OneIsLeft, Server, Typed, TypeOK
<1> QED
    BY <1>1, <1>2, <1>3 DEF OneShot, DotIsAsked, Returned, PacketIsCurrent,
                            ResultIsCurrent, GivesUpOnlyWhenCutOff

LEMMA TcpInv == IInv /\ QueryTcp => IInv'
<1> SUFFICES ASSUME IInv, QueryTcp PROVE IInv'
    OBVIOUS
<1> USE SameWorld DEF IInv
<1>1. /\ pc = "tcp" /\ nameservers # << >> /\ result = Nothing /\ IsRecursive
      /\ UNCHANGED <<net, mode, weather, name, depth, result>>
    BY DEF QueryTcp, Returned, Typed, OneShot
<1>2. Message \in Messages
    BY <1>1, InUse
<1>3. CASE Drop /\ (Server \in Unusable \/ Stormy)
    BY <1>1, <1>3, DropInv DEF Calm
<1>4. CASE /\ UNCHANGED nameservers
           /\ \/ pc' \in {"blocked", "killed"}
              \/ /\ pc' = "handle" /\ Server \notin Unusable
                 /\ packet' = Arrived(Message, "whole")
    <2>1. ASSUME packet' = Arrived(Message, "whole")
          PROVE  packet' \in Packets /\ packet'.message = Message /\ Parses'
        BY <1>2, <2>1, Received DEF Forms, Parses
    <2>2. Typed'
        BY <1>1, <1>4, <2>1 DEF Typed, TypeOK
    <2>3. Server' = Server /\ Message' = Message
        BY <1>1, <1>4 DEF Server, Message
    <2> QED
        BY <1>1, <1>4, <2>1, <2>2, <2>3
           DEF OneShot, DotIsAsked, Returned, PacketIsCurrent, ResultIsCurrent,
               OneIsLeft, GivesUpOnlyWhenCutOff
<1> QED
    BY <1>3, <1>4 DEF QueryTcp, Broken, Receive

\* What a response that parses says was said by the server in use, so its glue
\* is one of the Lists and its first CNAME is a name.
LEMMA Handled ==
    ASSUME IInv, pc = "handle"
    PROVE  /\ nameservers # << >> /\ result = Nothing /\ IsRecursive
           /\ packet.message \in Messages
           /\ packet.message.glue \in Seq(Servers)
           /\ Parses => packet.message = Message /\ packet.message.glue \in Lists
           /\ \A i \in DOMAIN packet.message.answers :
                  FirstCname(packet.message, i) => packet.message.answers[i] \in Names
<1> USE DEF IInv
<1>1. nameservers # << >> /\ result = Nothing /\ IsRecursive
    BY DEF Typed, Returned, OneShot
<1>2. packet.message \in Messages
    BY DEF Typed, Packets
<1>3. /\ packet.message.glue \in Seq(Servers)
      /\ packet.message.answers \in Seq(Names \cup {"data"})
    BY <1>2 DEF Messages
<1>4. ASSUME Parses
      PROVE  packet.message = Message /\ packet.message.glue \in Lists
    <2>1. packet.message = Message
        BY <1>4 DEF PacketIsCurrent
    <2> QED
        BY <1>1, <2>1, InUse DEF Lists, Message, Typed, TypeOK
<1>5. ASSUME NEW i \in DOMAIN packet.message.answers, FirstCname(packet.message, i)
      PROVE  packet.message.answers[i] \in Names
    BY <1>3, <1>5 DEF FirstCname
<1> QED
    BY <1>1, <1>2, <1>3, <1>4, <1>5

LEMMA HandleInv == IInv /\ Handle => IInv'
<1> SUFFICES ASSUME IInv, Handle PROVE IInv'
    OBVIOUS
<1> DEFINE m == packet.message
<1> USE SameWorld
<1>1. pc = "handle" /\ UNCHANGED <<net, mode, weather, packet>>
    BY DEF Handle
<1>2. /\ nameservers # << >> /\ result = Nothing /\ IsRecursive
      /\ m \in Messages /\ m.glue \in Seq(Servers)
      /\ Parses => m = Message /\ m.glue \in Lists
      /\ \A i \in DOMAIN m.answers : FirstCname(m, i) => m.answers[i] \in Names
    BY <1>1, Handled
<1> HIDE DEF m
<1>3. CASE ~Parses /\ Drop /\ UNCHANGED <<name, depth, result>>
    BY <1>1, <1>2, <1>3, DropInv DEF IInv, OneIsLeft
<1>4. CASE /\ Parses /\ name' \in Names /\ nameservers' = Roots /\ depth' = 0
           /\ pc' = "ask" /\ UNCHANGED result
    <2>1. Typed'
        BY <1>1, <1>2, <1>4, HintsFacts, ClientAssumption DEF IInv, Typed, TypeOK
    <2> QED
        BY <1>1, <1>2, <1>4, <2>1, HintsFacts
           DEF IInv, OneShot, DotIsAsked, Returned, PacketIsCurrent, ResultIsCurrent,
               OneIsLeft, GivesUpOnlyWhenCutOff, Calm
<1>5. CASE /\ Parses /\ m.glue # << >> /\ nameservers' = m.glue
           /\ pc' = "ask" /\ UNCHANGED <<name, depth, result>>
    <2>1. Typed'
        BY <1>1, <1>2, <1>5 DEF IInv, Typed, TypeOK
    <2> QED
        BY <1>1, <1>2, <1>5, <2>1
           DEF IInv, OneShot, DotIsAsked, Returned, PacketIsCurrent, ResultIsCurrent,
               OneIsLeft, GivesUpOnlyWhenCutOff, Calm
<1>6. CASE /\ Parses /\ pc' = "done" /\ result' = packet
           /\ m.rcode = "NOERROR" => ~HasCname(m)
           /\ UNCHANGED <<nameservers, name, depth>>
    <2>1. Typed'
        BY <1>1, <1>6 DEF IInv, Typed, TypeOK
    <2>2. packet # Nothing
        BY <1>1, ClientAssumption DEF IInv, Typed
    <2>3. Server \in Servers \ Unusable /\ m = net[Server][name]
        BY <1>1, <1>2, <1>6, InUse DEF IInv, PacketIsCurrent, Message
    <2>4. ResultIsCurrent'
        BY <1>1, <1>6, <2>3 DEF ResultIsCurrent, Parses, m
    <2> QED
        BY <1>1, <1>2, <1>6, <2>1, <2>2, <2>4
           DEF IInv, OneShot, DotIsAsked, Returned, PacketIsCurrent, OneIsLeft,
               GivesUpOnlyWhenCutOff
<1>7. Parses /\ m.answers = << >> => ~HasCname(m)
    BY DEF HasCname
<1>8. \A i \in DOMAIN m.answers : FirstCname(m, i) => Decode(m.answers[i]) \in Names
    BY <1>2, ClientAssumption DEF Decode
<1> QED
    BY <1>1, <1>3, <1>4, <1>5, <1>6, <1>7, <1>8 DEF Handle, Return, Parses, m

LEMMA StutterInv == IInv /\ UNCHANGED vars => IInv'
<1> SUFFICES ASSUME IInv, UNCHANGED vars PROVE IInv'
    OBVIOUS
<1>1. UNCHANGED <<net, mode, weather, pc, nameservers, name, depth, packet, result>>
    BY DEF vars
<1>2. Server' = Server /\ Message' = Message
    BY <1>1 DEF Server, Message
<1> QED
    BY <1>1, <1>2, SameWorld
       DEF IInv, Typed, TypeOK, OneShot, DotIsAsked, Returned, PacketIsCurrent, Parses,
           ResultIsCurrent, OneIsLeft, GivesUpOnlyWhenCutOff

LEMMA Invariance == FairSpec => []IInv
<1>1. IInv /\ [Next]_vars => IInv'
    BY AskInv, DotInv, UdpInv, TcpInv, HandleInv, StutterInv DEF Next
<1> QED
    BY <1>1, InitInv, PTL DEF FairSpec

(***************************************************************************)
(* Type correctness; with it, depth never passes MAX_DEPTH.                *)
(***************************************************************************)
THEOREM ClientTypeCorrect == FairSpec => []TypeOK
<1>1. IInv => TypeOK
    BY DEF IInv, Typed
<1> QED
    BY <1>1, Invariance, PTL

(***************************************************************************)
(* In every mode, on every network, whatever is lost, cut or truncated:    *)
(* what resolve returns is what a usable server says of the name it ended  *)
(* with, no alias left unfollowed, and all that it says, save that         *)
(* iterative mode returns a datagram as it came (dns_client.cpp:26-36).    *)
(***************************************************************************)
THEOREM ResultIsCurrentTheorem == FairSpec => []ResultIsCurrent
<1>1. IInv => ResultIsCurrent
    BY DEF IInv
<1> QED
    BY <1>1, Invariance, PTL

(***************************************************************************)
(* On a network that loses nothing, with a usable server in every list,    *)
(* resolve without TLS gives up only after MAX_DEPTH rounds.               *)
(***************************************************************************)
THEOREM GivesUpTheorem == FairSpec => []GivesUpOnlyWhenCutOff
<1>1. IInv => GivesUpOnlyWhenCutOff
    BY DEF IInv
<1> QED
    BY <1>1, Invariance, PTL
-----------------------------------------------------------------------------
\* A redirection prolongs a chain, or begins one.
LEMMA LeadsOn ==
    ASSUME NEW a \in Names, NEW b \in Names, Redirects(a, b),
           a = Domain \/ Leads(Domain, a)
    PROVE  Leads(Domain, b)
<1> SUFFICES ASSUME NEW reached \in SUBSET Names,
                    \A p \in reached \cup {Domain}, q \in Names :
                        Redirects(p, q) => q \in reached
             PROVE  b \in reached
    BY DEF Leads
<1>1. a \in reached \cup {Domain}
    BY DEF Leads
<1> QED
    BY <1>1

LEMMA NextFollows ==
    ASSUME ~Compressed, IInv, FollowsCnames, [Next]_vars
    PROVE  FollowsCnames'
<1>1. \A a, b : Redirects(a, b)' <=> Redirects(a, b)
    BY DEF Next, vars, Ask, QueryDot, QueryUdp, QueryTcp, Handle, Redirects
<1>2. \A a, b : Leads(a, b)' <=> Leads(a, b)
    BY <1>1 DEF Leads
<1>3. CASE UNCHANGED name
    BY <1>2, <1>3 DEF FollowsCnames
<1>4. CASE /\ Handle /\ Parses /\ packet.message.rcode = "NOERROR"
           /\ \E i \in DOMAIN packet.message.answers :
                 FirstCname(packet.message, i) /\ name' = Decode(packet.message.answers[i])
    <2>1. pc = "handle"
        BY <1>4 DEF Handle
    <2>2. PICK i \in DOMAIN packet.message.answers :
              FirstCname(packet.message, i) /\ name' = Decode(packet.message.answers[i])
        BY <1>4
    <2>3. name' = packet.message.answers[i] /\ name' \in Names
        BY <2>1, <2>2, Handled DEF Decode
    <2>4. packet.message = net[Server][name] /\ Server \in Servers /\ name \in Names
        BY <1>4, <2>1, Handled, InUse DEF IInv, Message, Typed, TypeOK
    <2>5. Redirects(name, name')
        BY <1>4, <2>2, <2>3, <2>4 DEF Redirects
    <2>6. Leads(Domain, name')
        BY <2>3, <2>4, <2>5, LeadsOn DEF FollowsCnames
    <2>7. Leads(Domain, name)' <=> Leads(Domain, name')
        BY <1>2
    <2> QED
        BY <2>6, <2>7 DEF FollowsCnames
<1> QED
    BY <1>3, <1>4 DEF Next, vars, Ask, QueryDot, QueryUdp, QueryTcp, Handle, Parses

(***************************************************************************)
(* As long as the targets arrive uncompressed, the name asked for is the   *)
(* one given or one that a chain of the servers' CNAMEs leads to.  (That   *)
(* hypothesis cannot go: with compressed targets the run of                *)
(* MCDnsClientCompressed.cfg refutes the property.)                        *)
(***************************************************************************)
THEOREM FollowsCnamesTheorem ==
    ASSUME ~Compressed
    PROVE  FairSpec => []FollowsCnames
<1>1. Init => FollowsCnames
    BY DEF Init, FollowsCnames
<1>2. IInv /\ FollowsCnames /\ [Next]_vars => FollowsCnames'
    BY NextFollows
<1> QED
    BY <1>1, <1>2, Invariance, PTL DEF FairSpec
=============================================================================
