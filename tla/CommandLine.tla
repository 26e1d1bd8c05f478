----------------------------- MODULE CommandLine -----------------------------
(***************************************************************************)
(* One run of the program, from argv to the operation it comes down to:    *)
(* Arguments::parse (src/cli/arguments.cpp), main (src/main.cpp),          *)
(* CacheCommandHandler::execute (src/server/cache_command_handler.cpp) and *)
(* the start of DNSCommandHandler::execute.  What the daemon makes of the  *)
(* line that is sent is Parse, of CacheController; what becomes of a query *)
(* is QueryFlow.                                                           *)
(*                                                                         *)
(* getopt_long is external: glibc's, which moves the options before the    *)
(* other words of argv, one call late.  Short names, "--x=y", abbreviated  *)
(* options and "--" are left out, and so are words that only begin with a  *)
(* number, which stoi and >> take.  "" stands for no sni, no trust_anchor. *)
(***************************************************************************)
EXTENDS Integers, SequencesExt

CONSTANTS
    CommandLines,   \* what is typed after "resolver": sequences of words
    Number,         \* Number[w]: the number a word spells
    Pieces,         \* Pieces[w]: the words of a word with blanks
    Unknown,        \* words that look like options and are none, "-5" too
    IntMax, SizeModulus, Garbage     \* of CacheController

VARIABLES
    typed,      \* the command line
    up,         \* the daemon listens
    argv,       \* without the program's name: argv[k] is the code's argv[k]
    optind, firstNonopt, lastNonopt,    \* getopt's
    args,       \* the members of Arguments
    pc,         \* "parse", "main", "send", "serve", "resolve" or "exit"
    sent,       \* the words of the line sent to the daemon, << >> if none is
    status      \* of the process: "none", "success", "failure"

vars == <<typed, up, argv, optind, firstNonopt, lastNonopt, args, pc, sent, status>>

Daemon == INSTANCE CacheController WITH
    Keys <- {}, Data <- {}, Expirations <- {}, Capacities <- {}, DefaultMax <- 0,
    MaxTime <- 0, cache <- << >>, maxSize <- << >>, now <- 0, reply <- << >>
-----------------------------------------------------------------------------
\* long_options: the member each option of a query sets, and the commands.
Field ==
    [w \in {"--ns", "--name", "--qtype", "--mode", "--sni", "--trust-anchor",
             "--fanout", "--workers", "--timeout", "--trace"} |->
        CASE w = "--ns"           -> "ns"
          [] w = "--name"         -> "name"
          [] w = "--qtype"        -> "qtype"
          [] w = "--mode"         -> "mode"
          [] w = "--sni"          -> "sni"
          [] w = "--trust-anchor" -> "trust_anchor"
          [] w = "--fanout"       -> "fanout"
          [] w = "--workers"      -> "workers"
          [] w = "--timeout"      -> "timeout"
          [] w = "--trace"        -> "trace"]

Command ==
    [w \in {"--activate", "--deactivate", "--status", "--purge-positive",
             "--purge-negative", "--purge-all", "--list-positive",
             "--list-negative", "--list-all", "--set-positive", "--set-negative",
             "--put", "--put-negative", "--get", "--get-negative"} |->
        CASE w = "--activate"       -> "Activate"
          [] w = "--deactivate"     -> "Deactivate"
          [] w = "--status"         -> "Status"
          [] w = "--purge-positive" -> "PurgePositive"
          [] w = "--purge-negative" -> "PurgeNegative"
          [] w = "--purge-all"      -> "PurgeAll"
          [] w = "--list-positive"  -> "ListPositive"
          [] w = "--list-negative"  -> "ListNegative"
          [] w = "--list-all"       -> "ListAll"
          [] w = "--set-positive"   -> "SetPositive"
          [] w = "--set-negative"   -> "SetNegative"
          [] w = "--put"            -> "Put"
          [] w = "--put-negative"   -> "PutNegative"
          [] w = "--get"            -> "Get"
          [] w = "--get-negative"   -> "GetNegative"]

TakesArgument(w) ==
    \/ w \in DOMAIN Field \ {"--trace"}
    \/ w \in {"--set-positive", "--set-negative", "--put", "--put-negative", "--get",
              "--get-negative"}

\* What the program itself writes into a line.
Verbs == {"SHUTDOWN", "STATUS", "PURGE", "LIST", "SET", "GET", "GET_NEGATIVE", "PUT",
          "PUT_NEGATIVE", "ALL", "POSITIVE", "NEGATIVE"}

\* An option is no number and has no blanks; nor has what the program writes, "1" being
\* the one number among it.
ASSUME LineAssumption ==
    LET known == DOMAIN Field \cup DOMAIN Command
    IN  /\ \A l \in CommandLines : l \in Seq(STRING)
        /\ \A w \in DOMAIN Number : w \in STRING /\ Number[w] \in Int
        /\ \A w \in DOMAIN Pieces : Pieces[w] \in Seq(STRING)
        /\ known \cap (Unknown \cup DOMAIN Number \cup DOMAIN Pieces) = {}
        /\ DOMAIN Pieces \cap (Verbs \cup DOMAIN Number) = {}
        /\ "1" \in DOMAIN Number /\ Number["1"] = 1
        /\ Garbage \notin Int /\ Garbage \notin STRING
        /\ Garbage \notin STRING \X Int \X Int
        /\ IntMax \in Nat /\ SizeModulus \in Nat \ {0}

\* True of whatever stands in quotation marks, which the provers do not know.
ASSUME TextAssumption == Verbs \cup {"8.8.8.8", "example.com.", "A", ""} \subseteq STRING

IsOption(w) == w \in DOMAIN Field \cup DOMAIN Command \cup Unknown

ModeAsTyped(w) ==       \* mutant of Mode: a word that is no mode is kept
    CASE w = "recursive" -> "Recursive"
      [] w = "dot"       -> "Dot"
      [] OTHER           -> w

\* stringToMode
Mode(w) ==
    CASE w = "recursive"     -> "Recursive"
      [] w = "forwarder"     -> "Forwarder"
      [] w = "iterative"     -> "Iterative"
      [] w = "validating"    -> "Validating"
      [] w = "insecure"      -> "Insecure"
      [] w = "strict-dnssec" -> "StrictDNSSEC"
      [] w = "dot"           -> "Dot"
      [] OTHER               -> "Unknown"

Defaults ==
    [ns |-> "8.8.8.8", name |-> "example.com.", qtype |-> "A", mode |-> "Recursive",
     sni |-> "", trust_anchor |-> "", fanout |-> 1, workers |-> 1, timeout |-> 5,
     trace |-> FALSE, has_dns_args |-> FALSE, cache_command |-> "None"]

Init ==
    /\ typed \in CommandLines
    /\ up \in BOOLEAN
    /\ argv = typed
    /\ optind = 1 /\ firstNonopt = 1 /\ lastNonopt = 1
    /\ args = Defaults
    /\ pc = "parse"
    /\ sent = << >>
    /\ status = "none"
-----------------------------------------------------------------------------
(***************************************************************************)
(* getopt_long.  The words skipped before the option of the last call are  *)
(* moved behind it, then words that are no options are skipped.            *)
(***************************************************************************)
Exchanged ==
    IF firstNonopt < lastNonopt /\ lastNonopt < optind
    THEN SubSeq(argv, 1, firstNonopt - 1) \o SubSeq(argv, lastNonopt, optind - 1)
         \o SubSeq(argv, firstNonopt, lastNonopt - 1) \o SubSeq(argv, optind, Len(argv))
    ELSE argv

FirstSkipped ==
    IF firstNonopt < lastNonopt THEN firstNonopt + (optind - lastNonopt) ELSE optind

NextOption ==
    LET ends == {i \in optind..Len(argv) + 1 : i = Len(argv) + 1 \/ IsOption(argv[i])}
    IN  CHOOSE i \in ends : \A j \in ends : i <= j

IsInt(w) == w \in DOMAIN Number /\ Number[w] \in (-IntMax - 1)..IntMax

\* '?' for an option that is unknown or lacks its argument; or stoi throws.
IsWrong(words, i) ==
    \/ words[i] \in Unknown
    \/ TakesArgument(words[i]) /\ i = Len(words)
    \/ words[i] \in {"--fanout", "--workers", "--timeout"} /\ ~IsInt(words[i + 1])

AssignFlagless(w, value) ==     \* mutant of Assign: an option without its flag
    CASE w = "--trace" -> [args EXCEPT !.trace = TRUE]
      [] Field[w] \in {"fanout", "workers", "timeout"} ->
           [args EXCEPT ![Field[w]] = Number[value], !.has_dns_args = TRUE]
      [] w = "--mode" -> [args EXCEPT !.mode = Mode(value), !.has_dns_args = TRUE]
      [] OTHER -> [args EXCEPT ![Field[w]] = value, !.has_dns_args = TRUE]

Assign(w, value) ==
    CASE w = "--trace" -> [args EXCEPT !.trace = TRUE, !.has_dns_args = TRUE]
      [] Field[w] \in {"fanout", "workers", "timeout"} ->
           [args EXCEPT ![Field[w]] = Number[value], !.has_dns_args = TRUE]
      [] w = "--mode" -> [args EXCEPT !.mode = Mode(value), !.has_dns_args = TRUE]
      [] OTHER -> [args EXCEPT ![Field[w]] = value, !.has_dns_args = TRUE]

\* One option.  The constructor catches what parse throws, prints the usage, and
\* returns what there is.
ParseOption ==
    /\ pc = "parse"
    /\ NextOption <= Len(argv)
    /\ argv' = Exchanged
    /\ firstNonopt' = FirstSkipped
    /\ lastNonopt' = NextOption
    /\ LET w == argv[NextOption]
       IN  /\ optind' = NextOption + 1
                        + (IF TakesArgument(w) /\ NextOption < Len(argv) THEN 1 ELSE 0)
           /\ IF IsWrong(argv, NextOption)
              THEN pc' = "main" /\ UNCHANGED args
              ELSE /\ args' = IF w \in DOMAIN Command
                              THEN [args EXCEPT !.cache_command = Command[w]]
                              ELSE Assign(w, argv[NextOption + 1])
                   /\ UNCHANGED pc
    /\ UNCHANGED <<typed, up, sent, status>>

\* -1: no option is left.
ParseEnd ==
    /\ pc = "parse"
    /\ NextOption > Len(argv)
    /\ argv' = Exchanged
    /\ pc' = "main"
    /\ UNCHANGED <<typed, up, optind, firstNonopt, lastNonopt, args, sent, status>>
-----------------------------------------------------------------------------
Exit(how) == pc' = "exit" /\ status' = how

ArgumentsButOne(n) ==       \* mutant of Arguments: the last one is forgotten
    SubSeq(argv, 2, IF Len(argv) <= n THEN Len(argv) ELSE n)

Arguments(n) == SubSeq(argv, 2, IF Len(argv) <= n THEN Len(argv) ELSE n + 1)

Given(k, default) == IF k <= Len(argv) THEN argv[k] ELSE default

LookupSwapped(verb) ==      \* mutant of Lookup: type and class change places
    <<verb, argv[2], Given(4, "1"), Given(3, "1")>>

Lookup(verb) == <<verb, argv[2], Given(3, "1"), Given(4, "1")>>

\* The words execute asks for before it builds a line; one too few for a put.
Least ==
    CASE args.cache_command \in {"SetPositive", "SetNegative", "Get", "GetNegative"} -> 2
      [] args.cache_command = "Put"         -> 6
      [] args.cache_command = "PutNegative" -> 5
      [] OTHER                              -> 0

(***************************************************************************)
(* The line a command sends.  The arguments are argv[2] and the next ones, *)
(* wherever their option was.  Nothing is written for the last argument of *)
(* a put that is not there, a null pointer.                                *)
(***************************************************************************)
CommandWords ==
    CASE args.cache_command = "Deactivate"    -> <<"SHUTDOWN">>
      [] args.cache_command = "Status"        -> <<"STATUS">>
      [] args.cache_command = "PurgeAll"      -> <<"PURGE", "ALL">>
      [] args.cache_command = "PurgePositive" -> <<"PURGE", "POSITIVE">>
      [] args.cache_command = "PurgeNegative" -> <<"PURGE", "NEGATIVE">>
      [] args.cache_command = "ListAll"       -> <<"LIST", "ALL">>
      [] args.cache_command = "ListPositive"  -> <<"LIST", "POSITIVE">>
      [] args.cache_command = "ListNegative"  -> <<"LIST", "NEGATIVE">>
      [] args.cache_command = "SetPositive"   -> <<"SET", "POSITIVE", argv[2]>>
      [] args.cache_command = "SetNegative"   -> <<"SET", "NEGATIVE", argv[2]>>
      [] args.cache_command = "Get"           -> Lookup("GET")
      [] args.cache_command = "GetNegative"   -> Lookup("GET_NEGATIVE")
      [] args.cache_command = "Put"           -> <<"PUT">> \o Arguments(6)
      [] args.cache_command = "PutNegative"   -> <<"PUT_NEGATIVE">> \o Arguments(5)

\* A word with blanks is several for who reads the line.
Split(words) ==
    FlattenSeq([k \in DOMAIN words |->
                   IF words[k] \in DOMAIN Pieces THEN Pieces[words[k]] ELSE <<words[k]>>])

\* main, and CacheCommandHandler::execute.  Its test for an inactive daemon is of the
\* address of a function, never null.
RunCommand ==
    /\ pc = "main" /\ args.cache_command # "None"
    /\ CASE args.cache_command = "Activate" -> pc' = "serve" /\ UNCHANGED <<sent, status>>
         [] args.cache_command # "Activate" /\ Len(argv) < Least ->
              Exit("failure") /\ UNCHANGED sent
         [] OTHER -> pc' = "send" /\ sent' = Split(CommandWords) /\ UNCHANGED status
    /\ UNCHANGED <<typed, up, argv, optind, firstNonopt, lastNonopt, args>>

\* sendCommand: an answer or, from a daemon that is not there, nothing.
Answered ==
    /\ pc = "send"
    /\ Exit("success")
    /\ UNCHANGED <<typed, up, argv, optind, firstNonopt, lastNonopt, args, sent>>

\* validateArgs
IsComplete ==
    /\ args.name # "" /\ args.qtype # ""
    /\ args.ns = "" => args.mode # "Forwarder"

\* main, and DNSCommandHandler::execute up to resolve: a cached answer comes before
\* the mode is looked at.
RunQuery ==
    /\ pc = "main" /\ args.cache_command = "None"
    /\ \/ (~args.has_dns_args \/ ~IsComplete \/ args.mode = "Unknown") /\ Exit("failure")
       \/ args.has_dns_args /\ IsComplete /\ up /\ Exit("success")
       \/ /\ args.has_dns_args /\ IsComplete /\ args.mode # "Unknown"
          /\ pc' = "resolve" /\ UNCHANGED status
    /\ UNCHANGED <<typed, up, argv, optind, firstNonopt, lastNonopt, args, sent>>

Next == ParseOption \/ ParseEnd \/ RunCommand \/ Answered \/ RunQuery

Spec == Init /\ [][Next]_vars
-----------------------------------------------------------------------------
(***************************************************************************)
(* The line as the daemon extracts it: numbers of 16 bits, a minus sign    *)
(* wrapping around; validated is 0 or 1.  A word that fails makes all that *)
(* follow fail.                                                            *)
(***************************************************************************)
Word(k) == IF k <= Len(sent) THEN sent[k] ELSE Garbage
Num(k) == IF Word(k) \in DOMAIN Number THEN Number[Word(k)] ELSE Garbage
IsUint16(n) == n # Garbage /\ -65536 < n /\ n < 65536

Key ==
    IF IsUint16(Num(3)) /\ IsUint16(Num(4))
    THEN <<Word(2), Num(3) % 65536, Num(4) % 65536>> ELSE Garbage

Line ==
    LET verb == Word(1)
    IN  CASE verb = "PUT" ->
               [verb |-> verb, key |-> Key, data |-> Word(5),
                ttl |-> IF Word(7) \in {"0", "1"} THEN Num(6) ELSE Garbage]
          [] verb = "PUT_NEGATIVE" ->
               [verb |-> verb, key |-> Key, data |-> Word(5), ttl |-> Num(6)]
          [] verb \in {"GET", "GET_NEGATIVE"} -> [verb |-> verb, key |-> Key]
          [] verb \in {"PURGE", "LIST"} -> [verb |-> verb, target |-> Word(2)]
          [] verb = "SET" -> [verb |-> verb, target |-> Word(2), size |-> Num(3)]
          [] OTHER -> [verb |-> verb]

TypeOK ==
    /\ argv \in Seq(STRING) /\ Len(argv) = Len(typed)
    /\ 1 <= firstNonopt /\ firstNonopt <= lastNonopt /\ lastNonopt <= Len(argv) + 1
    /\ optind \in 1..Len(argv) + 1
    /\ args \in [ns : STRING, name : STRING, qtype : STRING, sni : STRING,
                 mode : {"Recursive", "Forwarder", "Iterative", "Validating", "Insecure",
                         "StrictDNSSEC", "Dot", "Unknown"},
                 trust_anchor : STRING, fanout : Int, workers : Int, timeout : Int,
                 trace : BOOLEAN, has_dns_args : BOOLEAN,
                 cache_command : {"None"} \cup {Command[w] : w \in DOMAIN Command}]
    /\ pc \in {"parse", "main", "send", "serve", "resolve", "exit"}
    /\ sent \in Seq(STRING)
    /\ status \in {"none", "success", "failure"}

(***************************************************************************)
(* What the words say when they are read from left to right, each option   *)
(* with the word that follows it, up to the first that is wrong.           *)
(***************************************************************************)
Options ==
    LET isOption[i \in 0..Len(typed)] ==
            /\ i > 0 /\ IsOption(typed[i])
            /\ ~(isOption[i - 1] /\ TakesArgument(typed[i - 1]))
    IN  {i \in 1..Len(typed) : isOption[i]}

Effective == {i \in Options : \A j \in Options : j <= i => ~IsWrong(typed, j)}

Latest(words) ==        \* the last option among words, 0 if there is none
    LET at == {i \in Effective : typed[i] \in words}
    IN  IF at = {} THEN 0 ELSE CHOOSE i \in at : \A j \in at : j <= i

\* Whatever getopt moves in argv, every option has been read, in the order typed and
\* with its own argument: the last of each kind counts.
OptionsAreRead ==
    pc # "parse" =>
        /\ \A w \in DOMAIN Field \ {"--trace"} :
             args[Field[w]] =
                LET i == Latest({w})
                IN  CASE i = 0 -> Defaults[Field[w]]
                      [] i # 0 /\ w = "--mode" -> Mode(typed[i + 1])
                      [] i # 0 /\ w \in {"--fanout", "--workers", "--timeout"} ->
                            Number[typed[i + 1]]
                      [] OTHER -> typed[i + 1]
        /\ args.trace = (Latest({"--trace"}) # 0)
        /\ args.has_dns_args = (Latest(DOMAIN Field) # 0)
        /\ args.cache_command =
             LET i == Latest(DOMAIN Command) IN IF i = 0 THEN "None" ELSE Command[typed[i]]

(***************************************************************************)
(* The command that a documented line, these words, means: the option,     *)
(* then its arguments.  The clock stands at 0; unsigned numbers wrap.      *)
(***************************************************************************)
IntOf(w) == IF IsInt(w) THEN Number[w] ELSE Garbage

UnsignedOf(w, modulus) ==
    IF w \in DOMAIN Number /\ -modulus < Number[w] /\ Number[w] < modulus
    THEN Number[w] % modulus ELSE Garbage

KeyOf(words) ==
    <<words[2], IF Len(words) > 2 THEN UnsignedOf(words[3], 65536) ELSE 1,
                IF Len(words) > 3 THEN UnsignedOf(words[4], 65536) ELSE 1>>

Meaning(words) ==
    LET w == words[1]
    IN  CASE w = "--put" ->
               [type |-> "PUT_POSITIVE", key |-> KeyOf(words),
                entry |-> [data |-> words[5], expiration_time |-> IntOf(words[6])]]
          [] w = "--put-negative" ->
               [type |-> "PUT_NEGATIVE", key |-> KeyOf(words),
                entry |-> [data |-> IF words[5] = "NXDOMAIN" THEN "NXDOMAIN" ELSE "NODATA",
                           expiration_time |-> IntOf(words[6])]]
          [] w = "--get" -> [type |-> "GET_POSITIVE", key |-> KeyOf(words)]
          [] w = "--get-negative" -> [type |-> "GET_NEGATIVE", key |-> KeyOf(words)]
          [] w \in {"--set-positive", "--set-negative"} ->
               [type |-> "SET_MAX_SIZE", is_positive |-> w = "--set-positive",
                size |-> UnsignedOf(words[2], SizeModulus)]
          [] w = "--purge-all" -> [type |-> "PURGE", target |-> "All"]
          [] w = "--purge-positive" -> [type |-> "PURGE", target |-> "Positive"]
          [] w = "--purge-negative" -> [type |-> "PURGE", target |-> "Negative"]
          [] w = "--list-all" -> [type |-> "LIST", target |-> "All"]
          [] w = "--list-positive" -> [type |-> "LIST", target |-> "Positive"]
          [] w = "--list-negative" -> [type |-> "LIST", target |-> "Negative"]
          [] w = "--status" -> [type |-> "STATUS"]
          [] w = "--deactivate" -> [type |-> "SHUTDOWN"]

Arity(w) ==
    CASE w = "--put"                     -> {6}
      [] w = "--put-negative"            -> {5}
      [] w \in {"--get", "--get-negative"} -> 1..3
      [] w \in {"--set-positive", "--set-negative"} -> {1}
      [] OTHER                           -> {0}

OneCommand ==
    /\ typed # << >> /\ typed[1] \in DOMAIN Command \ {"--activate"}
    /\ {i \in Options : typed[i] \in DOMAIN Command} = {1}

NoBlanks == \A k \in DOMAIN typed : typed[k] \notin DOMAIN Pieces

\* A usage the messages of execute document, with numbers where they belong and no
\* blanks in a word.
IsUsage ==
    /\ OneCommand /\ Options = {1}
    /\ Len(typed) - 1 \in Arity(typed[1])
    /\ NoBlanks
    /\ "key" \in DOMAIN Meaning(typed) => Garbage \notin {KeyOf(typed)[2], KeyOf(typed)[3]}
    /\ "entry" \in DOMAIN Meaning(typed) => Meaning(typed).entry.expiration_time # Garbage
    /\ "size" \in DOMAIN Meaning(typed) => Meaning(typed).size # Garbage
    /\ typed[1] = "--put" => typed[7] \in {"0", "1"}

\* A documented line reaches the daemon as the command it documents.
UsageIsDone ==
    pc = "exit" /\ up /\ IsUsage => Daemon!Parse(Line) = Meaning(typed)

(***************************************************************************)
(* A line with arguments too many or too few, with blanks in them or with  *)
(* a number that is none; or with options of queries before, between or    *)
(* behind its arguments, if these have no blanks: the daemon is told       *)
(* nothing, rejects it, or does what the words that follow the command say *)
(* in the order typed.                                                     *)
(***************************************************************************)
AcceptedAsTyped ==
    sent # << >> /\ OneCommand /\ (Effective = {1} \/ NoBlanks)
      /\ Daemon!Parse(Line) # Daemon!Throw =>
        Daemon!Parse(Line) = Meaning(Split(typed))

\* "Cache Daemon inativo." (cache_command_handler.cpp:29): a command that finds no
\* daemon fails.
InactiveIsTold == pc = "exit" /\ sent # << >> /\ ~up => status = "failure"

\* "Argumento inválido." (arguments.cpp:170): after an argument that is none the
\* program does nothing.
InvalidArgumentStops ==
    Effective # Options => sent = << >> /\ pc \notin {"serve", "resolve"}

\* "--name <domínio> (Obrigatório)" (arguments.cpp:67): nothing is asked without it.
NameIsRequired == pc = "resolve" => Latest({"--name"}) # 0

\* "Define o tamanho máximo da cache negativa" (arguments.cpp:96): the size is the word
\* behind the option.
SizeIsItsOwn ==
    \A w \in {"--set-positive", "--set-negative"} :
        pc = "exit" /\ Len(sent) = 3 /\ args.cache_command = Command[w] =>
            sent[3] = typed[Latest({w}) + 1]
=============================================================================
