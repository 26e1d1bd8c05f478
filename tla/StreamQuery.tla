----------------------------- MODULE StreamQuery -----------------------------
(***************************************************************************)
(* One query over a stream: DNSClient::queryTcp, or DNSClient::queryDot    *)
(* with its DOTClient (src/dns/dns_client.cpp, src/dns/dot_client.cpp),    *)
(* against a server that is slow, absent, false, or goes away at any time. *)
(* Server, sockets and mbedtls are external.  What a stream may come to is *)
(* QueryTcp and QueryDot of DnsClient.                                     *)
(***************************************************************************)
EXTENDS Integers, Sequences, SequencesExt

CONSTANTS
    Transports,     \* of "tcp" and "dot"
    Query,          \* the bytes of query_packet
    Streams,        \* what the server may have to say, frames or not
    Nothing         \* what is returned for a failure

ASSUME StreamAssumption ==
    /\ Transports \subseteq {"tcp", "dot"}
    /\ Query \in Seq(0..255)
    /\ Streams \subseteq Seq(0..255)
    /\ Nothing \notin Seq(0..255)

VARIABLES
    transport,
    server,     \* "listening", "refusing", "absent", "closed" (no more will come),
                \* "reset" (the next call returns the error), "gone"
    trusted,    \* the server has a certificate that passes
    stream,     \* all the server will ever say
    arrived,    \* how many bytes of it have
    pc,         \* "open", "connect", "select", "handshake", "send", "size", "body", "end"
    socket,     \* _socket_fd, socket_fd: "none", "open", "closed"
    secure,     \* the handshake is over
    request,    \* what went out
    read,       \* how many bytes of what arrived were read
    size,       \* response_size, packet_size
    buffer,     \* size_buffer, then response_buffer: what is filled in so far
    result,     \* what is returned, as received
    alive       \* FALSE after SIGPIPE

environment == <<transport, trusted>>
buffers == <<request, read, size, buffer>>
vars == <<environment, stream, server, arrived, pc, socket, secure, buffers, result,
          alive>>

IsDot == transport = "dot"

\* The size before a message, a uint16_t.
Frame(packet) == <<(Len(packet) \div 256) % 256, Len(packet) % 256>> \o packet

Init ==
    /\ transport \in Transports
    /\ server \in {"listening", "refusing", "absent"}
    /\ trusted \in BOOLEAN
    /\ stream \in Streams
    /\ arrived = 0
    /\ pc = "open" /\ socket = "none" /\ secure = FALSE
    /\ request = << >> /\ read = 0 /\ size = 0 /\ buffer = << >>
    /\ result = Nothing
    /\ alive = TRUE
-----------------------------------------------------------------------------
Running == pc # "end" /\ alive

\* send on a connection whose error was reported before, or that the server closed and
\* then reset, raises SIGPIPE.
Killed == alive' = FALSE /\ UNCHANGED <<pc, socket, result>>

\* Every return closes: close(socket_fd), or ~DOTClient.
Close(r) ==
    /\ pc' = "end" /\ result' = r
    /\ socket' = IF socket = "open" THEN "closed" ELSE socket
    /\ UNCHANGED alive

\* Over TLS a last message is sent first, once the handshake is over.
End(r) == IF secure /\ server = "gone" THEN Killed ELSE Close(r)

\* A call returns the error of the connection; that last message comes after it.
Fail == IF secure /\ server \in {"reset", "gone"} THEN Killed ELSE Close(Nothing)

\* Certificates that cannot be read, an address that is none, no descriptor left.
Open ==
    /\ Running /\ pc = "open"
    /\ \/ pc' = "connect" /\ socket' = "open" /\ UNCHANGED <<result, alive>>
       \/ End(Nothing)
    /\ UNCHANGED <<environment, stream, server, arrived, secure, buffers>>

Connected == pc' = IF IsDot THEN "handshake" ELSE "send"

\* connect() does not wait.
Connect ==
    /\ Running /\ pc = "connect"
    /\ \/ server = "listening" /\ Connected /\ UNCHANGED <<socket, result, alive>>
       \/ server = "refusing" /\ End(Nothing)
       \/ pc' = "select" /\ UNCHANGED <<socket, result, alive>>
    /\ UNCHANGED <<environment, stream, server, arrived, secure, buffers>>

\* The socket is writable, which it is after a refusal too; or the timeout is over.
Select ==
    /\ Running /\ pc = "select"
    /\ \/ server # "absent" /\ Connected /\ UNCHANGED <<socket, result, alive>>
       \/ End(Nothing)
    /\ UNCHANGED <<environment, stream, server, arrived, secure, buffers>>

\* The socket blocks again, from here on: a silent server takes no step.  The query is
\* parsed again before it is sent, which may fail.
Handshake ==
    /\ Running /\ pc = "handshake"
    /\ \/ /\ server = "listening" /\ trusted
          /\ secure' = TRUE
          /\ \/ pc' = "send" /\ UNCHANGED <<socket, result, alive>>
             \/ End(Nothing)
       \/ /\ server # "listening" \/ ~trusted
          /\ Fail \/ (server = "gone" /\ Killed)
          /\ UNCHANGED secure
    /\ UNCHANGED <<environment, stream, server, arrived, buffers>>

RestAgain == Frame(Query)   \* mutant of Rest: a partial write starts over

Rest == SubSeq(Frame(Query), Len(request) + 1, Len(Frame(Query)))

(***************************************************************************)
(* Size and query are two calls of send over TCP, and a short one is a     *)
(* failure; over TLS they are one buffer, written piece by piece.          *)
(***************************************************************************)
Send ==
    /\ Running /\ pc = "send"
    /\ \/ /\ server \in {"listening", "closed"}
          /\ \E n \in 1..Len(Rest) :
               /\ request' = request \o SubSeq(Rest, 1, n)
               /\ LET call == IF request = << >> THEN 2 ELSE Len(Rest)
                  IN  IF ~IsDot /\ n < call THEN End(Nothing)
                      ELSE /\ pc' = IF Len(request') < Len(Frame(Query)) THEN "send"
                                                                        ELSE "size"
                           /\ UNCHANGED <<socket, result, alive>>
       \/ /\ server \in {"refusing", "reset", "gone"}
          /\ IF server = "gone" THEN Killed ELSE Fail
          /\ UNCHANGED request
    /\ UNCHANGED <<environment, stream, server, arrived, secure, read, size, buffer>>
-----------------------------------------------------------------------------
U16(b) == 256 * b[1] + b[2]

ReadyOnPaper == Len(stream) - read  \* mutant of Ready: a short read counts as full

Ready == arrived - read

WantedInAll == IF pc = "size" THEN 2 ELSE size     \* mutant of Wanted: from the start

Wanted == (IF pc = "size" THEN 2 ELSE size) - Len(buffer)

\* One recv or mbedtls_ssl_read, of what has arrived and is wanted.  MSG_WAITALL
\* takes both bytes of the size at once.
Read ==
    /\ Running
    /\ \E n \in 1..Wanted :
         LET filled == buffer \o SubSeq(stream, read + 1, read + n)
         IN  /\ n <= Ready
             /\ read' = read + n
             /\ \/ /\ pc = "size" /\ Len(filled) = 2
                   /\ pc' = "body" /\ size' = U16(filled) /\ buffer' = << >>
                \/ /\ pc = "body" \/ (pc = "size" /\ IsDot /\ Len(filled) = 1)
                   /\ buffer' = filled /\ UNCHANGED <<pc, size>>
    /\ UNCHANGED <<environment, stream, server, arrived, socket, secure, request, result,
                   alive>>

Whole == pc = "body" /\ Len(buffer) >= size

EndOfStreamIgnored ==       \* mutant of EndOfStream: 0 is tried again
    server \in {"reset", "gone"}

EndOfStream == server \in {"closed", "reset", "gone"}

\* The stream ends, before the size (two bytes at once over TCP) or in the message.
Broken ==
    /\ Running /\ pc \in {"size", "body"} /\ ~Whole
    /\ EndOfStream
    /\ Ready = 0 \/ (pc = "size" /\ ~IsDot /\ Ready < 2)
    /\ Fail
    /\ UNCHANGED <<environment, stream, server, arrived, secure, buffers>>

\* A size of 0 is a failure; over TLS the message is parsed, and built again.
Return ==
    /\ Running /\ Whole
    /\ \/ size > 0 /\ End(buffer)
       \/ (size = 0 \/ IsDot) /\ End(Nothing)
    /\ UNCHANGED <<environment, stream, server, arrived, secure, buffers>>

Client ==
    \/ Open \/ Connect \/ Select \/ Handshake \/ Send \/ Read \/ Broken \/ Return

\* The server speaks when it has heard all of the query, or before; over TLS not
\* before the handshake.
Arrive ==
    /\ server = "listening" /\ socket = "open" /\ (IsDot => secure)
    /\ arrived < Len(stream)
    /\ arrived' \in arrived + 1..Len(stream)
    /\ UNCHANGED <<environment, stream, server, pc, socket, secure, buffers, result,
                   alive>>

\* It may close its end, having said it all or not, or reset the connection, or both.
GoAway ==
    /\ pc \in {"handshake", "send", "size", "body"}
    /\ stream' = SubSeq(stream, 1, arrived)
    /\ \/ server = "listening" /\ server' = "closed"
       \/ server = "listening" /\ server' = "reset"
       \/ server = "closed" /\ server' = "gone"
    /\ UNCHANGED <<transport, trusted, arrived, pc, socket, secure, buffers,
                   result, alive>>

Next == Client \/ Arrive \/ GoAway

\* The process runs; nothing makes the server say anything.
Spec == Init /\ [][Next]_vars /\ WF_vars(Client)
-----------------------------------------------------------------------------
\* Every variable has a value of its kind.
TypeOK ==
    /\ transport \in Transports
    /\ server \in {"listening", "refusing", "absent", "closed", "reset", "gone"}
    /\ arrived \in 0..Len(stream)
    /\ pc \in {"open", "connect", "select", "handshake", "send", "size", "body", "end"}
    /\ socket \in {"none", "open", "closed"}
    /\ secure \in BOOLEAN /\ alive \in BOOLEAN /\ trusted \in BOOLEAN
    /\ request \in Seq(0..255) /\ buffer \in Seq(0..255)
    /\ read \in 0..arrived /\ size \in Nat /\ size < 65536
    /\ result \in Seq(0..255) \cup {Nothing}

(***************************************************************************)
(* However what is said and read is cut into pieces, the message that is   *)
(* returned is the first one the server framed, all of it and not a byte   *)
(* of what follows, and the buffer is never filled past its size.          *)
(***************************************************************************)
ResultIsFramed ==
    /\ pc = "body" => Len(buffer) <= size
    /\ result # Nothing => IsPrefix(Frame(result), stream) /\ result # << >>

\* Whatever each call of send takes, what went out is the query behind its size, cut at
\* most; all of it, when an answer is taken; and, over TLS, not a byte of it went to a
\* server whose certificate does not pass.
RequestIsFramed ==
    /\ IsPrefix(request, Frame(Query))
    /\ result # Nothing => request = Frame(Query)
    /\ IsDot /\ request # << >> => trusted

(***************************************************************************)
(* A query over a stream ends if the server says all of a message, refuses *)
(* or is absent, or hangs up: only silence keeps it.                       *)
(***************************************************************************)
Spoken == Len(stream) >= 2 /\ arrived >= 2 + U16(stream)
OnlySilenceBlocks ==
    Spoken \/ server # "listening" ~> ~Running

\* "Destrutor. Libera todos os recursos de rede e TLS" (dot_client.hpp:39), "Retorna vazio
\* em caso de falha" (dns_client.hpp:26): a connection that breaks is a failure, no end.
SurvivesReset == alive
=============================================================================
