---------------------------- MODULE MCCommandLine ----------------------------
\* Command lines for CommandLine: all short ones of a few words, and the documented
\* put and get lines with what may go wrong in them.
EXTENDS CommandLine

MCNumber == [w \in {"0", "1", "5", "10", "28", "-5", "99"} |->
    CASE w = "0" -> 0 [] w = "1" -> 1 [] w = "5" -> 5 [] w = "10" -> 10 [] w = "28" -> 28
      [] w = "-5" -> -5 [] w = "99" -> 99]
MCPieces == [w \in {"10 mail", "n 28", "n 1 1", ""} |->
    CASE w = "10 mail" -> <<"10", "mail">> [] w = "n 28" -> <<"n", "28">>
      [] w = "n 1 1" -> <<"n", "1", "1">> [] w = "" -> << >>]
MCUnknown == {"-5", "--cache"}

Words == {"--name", "--mode", "--timeout", "--trace", "--set-positive", "--set-negative",
          "--get", "--status", "--activate", "--cache", "n", "dot", "5"}
Short == UNION {[1..m -> Words] : m \in 0..4}

Put == <<"--put", "n", "1", "1", "d", "5", "0">>
PutNegative == <<"--put-negative", "n", "1", "1", "NXDOMAIN", "5">>
Get == <<"--get", "n", "28", "1">>
PutBlanks == <<"--put", "n 1 1", "d", "5", "0", "m">>
\* Accepted, but not as typed, with an option behind it that getopt moves to argv[3].
PutMoved == <<"--put", "n 1 1", "5", "0", "m", "m">>

Changed(l) ==
    {[l EXCEPT ![k] = w] : k \in DOMAIN l,
                           w \in {"-5", "99", "10 mail", "n 28", "n 1 1", "", "m", "--trace",
                                   "--name"}}
Shortened(l) == {SubSeq(l, 1, m) : m \in 1..Len(l)}
Widened(l) ==
    {SubSeq(l, 1, k) \o w \o SubSeq(l, k + 1, Len(l)) :
        k \in 0..Len(l), w \in {<<"--trace">>, <<"--timeout", "5">>, <<"m">>}}

Plain == {<<w>> : w \in DOMAIN Command}
Settings ==
    {<<w, x, y>> : w \in DOMAIN Field \ {"--trace"}, x \in {"n", "5", "dot", "iterative", ""},
                   y \in {"--trace", "--sni", "--list-all"}}

Lines == {Put, PutBlanks, PutNegative, Get, <<"--get-negative", "n", "5", "1">>}

MCLines ==
    Short \cup Plain \cup Settings
    \cup UNION {{l} \cup Changed(l) \cup Shortened(l) \cup Widened(l) : l \in Lines}
    \cup UNION {Shortened(l) : l \in UNION {Changed(l) : l \in Lines}}
    \cup UNION {Widened(l) : l \in Widened(Put) \cup Shortened(Put) \cup {PutMoved}}

FewWords == UNION {[1..m -> Words] : m \in 0..2}
                \cup {<<"--set-positive", "5", "--set-negative", "1">>}
=============================================================================
