-------------------------- MODULE CommandLineProofs --------------------------
(***************************************************************************)
(* What holds of every command line, with any number of words: all its     *)
(* options are read, in the order typed, although getopt moves the words   *)
(* while they are read; and what a command sends, cut at its blanks, is    *)
(* taken by the daemon as the words typed mean, or not at all.             *)
(***************************************************************************)
EXTENDS CommandLine, SequenceTheorems, WellFoundedInduction, TLAPS

\* A set of numbers has a least one, which stands for induction.
LEMMA LeastNat ==
    ASSUME NEW T \in SUBSET Nat, T # {}
    PROVE  \E n \in T : \A m \in T : n <= m
<1> DEFINE R == {ss \in Nat \X Nat : ss[1] < ss[2]}
<1>1. IsWellFoundedOn(R, Nat)
    BY NatLessThanWellFounded DEF OpToRel
<1>2. \A m, n \in Nat : m < n => <<m, n>> \in R
    OBVIOUS
<1> HIDE DEF R
<1>3. PICK n \in T : \A m \in T : ~(<<m, n>> \in R)
    BY <1>1, WFMin
<1>4. \A m \in T : ~(m < n) /\ m \in Nat /\ n \in Nat
    BY <1>2, <1>3
<1> QED
    BY <1>3, <1>4

LEMMA Induction ==
    ASSUME NEW T, 0 \in T, \A n \in Nat : n \in T => n + 1 \in T
    PROVE  \A n \in Nat : n \in T
<1> SUFFICES ASSUME Nat \ T # {} PROVE FALSE
    OBVIOUS
<1>1. PICK n \in Nat \ T : \A m \in Nat \ T : n <= m
    BY LeastNat
<1>2. n # 0 /\ n - 1 \in Nat /\ n - 1 < n /\ n - 1 + 1 = n
    BY <1>1
<1> QED
    BY <1>1, <1>2

\* Parts of a sequence of words, and two of them joined.
LEMMA SubSeqIs ==
    ASSUME NEW s \in Seq(STRING), NEW i \in 1..Len(s) + 1, NEW j \in i - 1..Len(s)
    PROVE  /\ SubSeq(s, i, j) \in Seq(STRING) /\ Len(SubSeq(s, i, j)) = j - i + 1
           /\ \A k \in 1..j - i + 1 : SubSeq(s, i, j)[k] = s[i + k - 1]
OBVIOUS

LEMMA ConcatIs ==
    ASSUME NEW s \in Seq(STRING), NEW t \in Seq(STRING)
    PROVE  /\ s \o t \in Seq(STRING) /\ Len(s \o t) = Len(s) + Len(t)
           /\ Len(s) \in Nat /\ Len(t) \in Nat
           /\ \A k \in 1..Len(s) : (s \o t)[k] = s[k]
           /\ \A k \in 1..Len(t) : (s \o t)[Len(s) + k] = t[k]
OBVIOUS
-----------------------------------------------------------------------------
\* The options are told from the other words by one rule, from left to right.
LEMMA OptionsDef ==
    ASSUME typed \in Seq(STRING)
    PROVE  /\ Options \subseteq 1..Len(typed)
           /\ \A i \in 1..Len(typed) :
                 i \in Options <=>
                     /\ IsOption(typed[i])
                     /\ ~(i - 1 \in Options /\ TakesArgument(typed[i - 1]))
<1> DEFINE n == Len(typed)
           Here(f, i) == /\ i > 0 /\ IsOption(typed[i])
                         /\ ~(f[i - 1] /\ TakesArgument(typed[i - 1]))
           Told(m) == \E f : f = [i \in 0..n |-> i <= m /\ Here(f, i)]
<1>0. n \in Nat
    OBVIOUS
<1>1. ASSUME NEW f, NEW g, NEW i \in 0..n, i > 0 => f[i - 1] = g[i - 1]
      PROVE  Here(f, i) = Here(g, i)
    <2>1. Here(f, i) <=> Here(g, i)
        BY <1>1
    <2>2. Here(f, i) \in BOOLEAN /\ Here(g, i) \in BOOLEAN
        OBVIOUS
    <2> HIDE DEF Here
    <2> QED
        BY <2>1, <2>2
<1> HIDE DEF Here
<1>2. Told(0)
    <2> DEFINE f == [i \in 0..n |-> FALSE]
    <2>1. \A i \in 0..n : ~(i <= 0 /\ Here(f, i))
        BY DEF Here
    <2>2. f = [i \in 0..n |-> i <= 0 /\ Here(f, i)]
        BY <2>1
    <2> HIDE DEF f
    <2> QED
        BY <2>2
<1>3. ASSUME NEW m \in Nat, Told(m)
      PROVE  Told(m + 1)
    <2>1. PICK f : f = [i \in 0..n |-> i <= m /\ Here(f, i)]
        BY <1>3
    <2> DEFINE g == [i \in 0..n |-> i <= m + 1 /\ Here(f, i)]
    <2>2. ASSUME NEW i \in 0..n, i <= m + 1
          PROVE  Here(f, i) = Here(g, i)
        <3>1. CASE i > 0
            <4>1. i - 1 \in 0..n /\ i - 1 <= m /\ i - 1 <= m + 1
                BY <2>2, <3>1
            <4>2. f[i - 1] = (i - 1 <= m /\ Here(f, i - 1))
                BY <2>1, <4>1
            <4>3. g[i - 1] = (i - 1 <= m + 1 /\ Here(f, i - 1))
                BY <4>1
            <4>4. f[i - 1] = g[i - 1]
                BY <4>1, <4>2, <4>3
            <4> HIDE DEF g
            <4> QED
                BY <1>1, <4>4
        <3>2. CASE ~(i > 0)
            BY <1>1, <3>2
        <3> QED
            BY <3>1, <3>2
    <2>3. g = [i \in 0..n |-> i <= m + 1 /\ Here(g, i)]
        BY <2>2
    <2> HIDE DEF g
    <2> QED
        BY <2>3
<1> DEFINE Fine == {m \in Nat : Told(m)}
<1> HIDE DEF Told
<1>4. 0 \in Fine /\ \A m \in Nat : m \in Fine => m + 1 \in Fine
    BY <1>2, <1>3
<1> HIDE DEF Fine
<1>5. n \in Fine
    BY <1>0, <1>4, Induction
<1>6. PICK f : f = [i \in 0..n |-> i <= n /\ Here(f, i)]
    BY <1>5 DEF Fine, Told
<1>7. \A i \in 0..n : (i <= n /\ Here(f, i)) = Here(f, i)
    <2>1. \A i \in 0..n : i <= n
        BY <1>0
    <2>2. \A i : Here(f, i) \in BOOLEAN
        BY DEF Here
    <2> QED
        BY <2>1, <2>2
<1>8. f = [i \in 0..n |-> Here(f, i)]
    BY <1>6, <1>7
<1> DEFINE isOption[i \in 0..Len(typed)] ==
               /\ i > 0 /\ IsOption(typed[i])
               /\ ~(isOption[i - 1] /\ TakesArgument(typed[i - 1]))
<1>9. Options = {i \in 1..n : isOption[i]}
    BY DEF Options
<1>10. isOption = CHOOSE g : g = [i \in 0..n |-> Here(g, i)]
    BY DEF isOption, Here
<1> HIDE DEF isOption
<1>11. isOption = [i \in 0..n |-> Here(isOption, i)]
    BY <1>8, <1>10
<1>12. \A i \in 0..n : isOption[i] = Here(isOption, i)
    BY <1>11
<1>13. ~isOption[0]
    <2>1. ~Here(isOption, 0)
        BY DEF Here
    <2>2. 0 \in 0..n
        BY <1>0
    <2>3. isOption[0] = Here(isOption, 0)
        BY <1>12, <2>2
    <2> QED
        BY <2>1, <2>3
<1>14. ASSUME NEW i \in 1..n
       PROVE  i \in Options <=>
                     /\ IsOption(typed[i])
                     /\ ~(i - 1 \in Options /\ TakesArgument(typed[i - 1]))
    <2>1. i \in 0..n /\ i > 0 /\ (i - 1 = 0 \/ i - 1 \in 1..n)
        BY <1>0
    <2>2. isOption[i - 1] <=> i - 1 \in Options
        BY <1>9, <1>13, <2>1
    <2>3. isOption[i] <=> i \in Options
        BY <1>9
    <2> QED
        BY <1>12, <2>1, <2>2, <2>3 DEF Here
<1> QED
    BY <1>9, <1>14
-----------------------------------------------------------------------------
\* getopt moves words only before those it has not come to.
LEMMA ExchangedIs ==
    ASSUME argv \in Seq(STRING), firstNonopt \in Nat, lastNonopt \in Nat, optind \in Nat,
           1 <= firstNonopt, firstNonopt <= lastNonopt, lastNonopt <= optind,
           optind <= Len(argv) + 1
    PROVE  /\ Exchanged \in Seq(STRING) /\ Len(Exchanged) = Len(argv)
           /\ \A k \in optind..Len(argv) : Exchanged[k] = argv[k]
<1> DEFINE n == Len(argv)
           a == SubSeq(argv, 1, firstNonopt - 1)
           b == SubSeq(argv, lastNonopt, optind - 1)
           c == SubSeq(argv, firstNonopt, lastNonopt - 1)
           d == SubSeq(argv, optind, n)
<1>1. CASE ~(firstNonopt < lastNonopt /\ lastNonopt < optind)
    BY <1>1 DEF Exchanged
<1>2. CASE firstNonopt < lastNonopt /\ lastNonopt < optind
    <2>0. n \in Nat
        OBVIOUS
    <2>1. a \in Seq(STRING) /\ Len(a) = firstNonopt - 1
        BY <1>2, <2>0, SubSeqIs
    <2>2. b \in Seq(STRING) /\ Len(b) = optind - lastNonopt
        BY <1>2, <2>0, SubSeqIs
    <2>3. c \in Seq(STRING) /\ Len(c) = lastNonopt - firstNonopt
        BY <1>2, <2>0, SubSeqIs
    <2>4. /\ d \in Seq(STRING) /\ Len(d) = n - optind + 1
          /\ \A k \in 1..n - optind + 1 : d[k] = argv[optind + k - 1]
        BY <1>2, <2>0, SubSeqIs
    <2>5. Exchanged = ((a \o b) \o c) \o d
        BY <1>2 DEF Exchanged
    <2> HIDE DEF a, b, c, d
    <2>6. a \o b \in Seq(STRING) /\ Len(a \o b) = firstNonopt - 1 + (optind - lastNonopt)
        <3>1. a \o b \in Seq(STRING) /\ Len(a \o b) = Len(a) + Len(b)
            BY <2>1, <2>2, ConcatIs
        <3> QED
            BY <2>1, <2>2, <3>1
    <2>7. (a \o b) \o c \in Seq(STRING) /\ Len((a \o b) \o c) = optind - 1
        <3>1. /\ (a \o b) \o c \in Seq(STRING)
              /\ Len((a \o b) \o c) = Len(a \o b) + Len(c)
            BY <2>3, <2>6, ConcatIs
        <3> QED
            BY <2>3, <2>6, <3>1
    <2>8. /\ ((a \o b) \o c) \o d \in Seq(STRING) /\ Len(((a \o b) \o c) \o d) = n
          /\ \A k \in 1..Len(d) : (((a \o b) \o c) \o d)[optind - 1 + k] = d[k]
        BY <2>0, <2>4, <2>7, ConcatIs
    <2>9. ASSUME NEW k \in optind..n PROVE Exchanged[k] = argv[k]
        <3>1. k - optind + 1 \in 1..Len(d) /\ optind - 1 + (k - optind + 1) = k
              /\ optind + (k - optind + 1) - 1 = k
            BY <2>0, <2>4
        <3> QED
            BY <2>4, <2>5, <2>8, <3>1
    <2> QED
        BY <2>5, <2>8, <2>9
<1> QED
    BY <1>1, <1>2

\* The next option is the first one from where getopt stands.
LEMMA NextOptionIs ==
    ASSUME argv \in Seq(STRING), optind \in Nat, optind <= Len(argv) + 1
    PROVE  /\ NextOption \in Nat /\ optind <= NextOption /\ NextOption <= Len(argv) + 1
           /\ NextOption <= Len(argv) => IsOption(argv[NextOption])
           /\ \A i \in optind..NextOption - 1 : ~IsOption(argv[i])
<1> DEFINE ends == {i \in optind..Len(argv) + 1 : i = Len(argv) + 1 \/ IsOption(argv[i])}
<1>0. Len(argv) \in Nat
    OBVIOUS
<1>1. ends \in SUBSET Nat /\ Len(argv) + 1 \in ends
    BY <1>0
<1>2. \E i \in ends : \A j \in ends : i <= j
    BY <1>1, LeastNat
<1>3. NextOption = CHOOSE i \in ends : \A j \in ends : i <= j
    BY DEF NextOption
<1>4. NextOption \in ends /\ \A j \in ends : NextOption <= j
    BY <1>2, <1>3
<1>5. NextOption \in Nat /\ optind <= NextOption /\ NextOption <= Len(argv) + 1
    BY <1>0, <1>4
<1>6. NextOption <= Len(argv) => IsOption(argv[NextOption])
    BY <1>0, <1>4, <1>5
<1>7. ASSUME NEW i \in optind..NextOption - 1, IsOption(argv[i]) PROVE FALSE
    <2>1. i \in optind..Len(argv) + 1 /\ i < NextOption /\ i \in Nat
        BY <1>0, <1>5, <1>7
    <2> QED
        BY <1>4, <1>5, <1>7, <2>1
<1> QED
    BY <1>5, <1>6, <1>7
-----------------------------------------------------------------------------
(***************************************************************************)
(* The inductive invariant.  What getopt has not come to is as typed; what *)
(* it has read so far is what the options before it say; it stands behind  *)
(* an option with its argument, never before it.                           *)
(***************************************************************************)
Members ==
    {"ns", "name", "qtype", "mode", "sni", "trust_anchor", "fanout", "workers", "timeout",
     "trace", "has_dns_args", "cache_command"}
Numbers == {"--fanout", "--workers", "--timeout"}

\* The last option among words in a set S of places, 0 if there is none.
LastOf(at) == IF at = {} THEN 0 ELSE CHOOSE i \in at : \A j \in at : j <= i
LatestIn(words, S) == LastOf({i \in S : typed[i] \in words})

\* What option i, which is w, says of its member.
Means(w, i) ==
    CASE w = "--mode"    -> Mode(typed[i + 1])
      [] w \in Numbers   -> Number[typed[i + 1]]
      [] OTHER           -> typed[i + 1]

\* The members a are what the options in S say.
Says(a, S) ==
    /\ \A w \in DOMAIN Field \ {"--trace"} :
         a[Field[w]] = LET i == LatestIn({w}, S)
                       IN  IF i = 0 THEN Defaults[Field[w]] ELSE Means(w, i)
    /\ a.trace = (LatestIn({"--trace"}, S) # 0)
    /\ a.has_dns_args = (LatestIn(DOMAIN Field, S) # 0)
    /\ a.cache_command =
         LET i == LatestIn(DOMAIN Command, S) IN IF i = 0 THEN "None" ELSE Command[typed[i]]

HasMembers(a) == a = [f \in Members |-> a[f]]

SoFar == {i \in Options : i < optind}

Words ==
    /\ typed \in Seq(STRING) /\ argv \in Seq(STRING) /\ Len(argv) = Len(typed)
    /\ {optind, firstNonopt, lastNonopt} \subseteq Nat
    /\ 1 <= firstNonopt /\ firstNonopt <= lastNonopt /\ lastNonopt <= optind
    /\ optind <= Len(argv) + 1

UnreadAsTyped == \A k \in optind..Len(argv) : argv[k] = typed[k]
BehindArgument == optind - 1 \in Options => ~TakesArgument(typed[optind - 1])
NoneWrong == \A i \in SoFar : ~IsWrong(typed, i)

IInv ==
    /\ Words
    /\ HasMembers(args)
    /\ pc \in {"parse", "main", "send", "serve", "resolve", "exit"}
    /\ pc = "parse" => UnreadAsTyped /\ BehindArgument /\ NoneWrong /\ Says(args, SoFar)
    /\ pc # "parse" => Says(args, Effective)

\* The options of a query are no commands, and each sets a member of its own.
LEMMA FieldIs ==
    /\ DOMAIN Field = {"--ns", "--name", "--qtype", "--mode", "--sni", "--trust-anchor",
                       "--fanout", "--workers", "--timeout", "--trace"}
    /\ DOMAIN Field \cap DOMAIN Command = {}
    /\ \A v, w \in DOMAIN Field : Field[v] = Field[w] => v = w
    /\ \A w \in DOMAIN Field : Field[w] \in Members \ {"has_dns_args", "cache_command"}
    /\ \A w \in DOMAIN Field : Field[w] = "trace" <=> w = "--trace"
    /\ \A w \in DOMAIN Field : Field[w] = "mode" <=> w = "--mode"
    /\ \A w \in DOMAIN Field : Field[w] \in {"fanout", "workers", "timeout"} <=> w \in Numbers
BY DEF Field, Command, Members, Numbers

\* Of two options that say something of the same thing the later one counts.
LEMMA LatestAdded ==
    ASSUME NEW S \in SUBSET Nat, NEW m \in Nat, \A i \in S : i < m, NEW words
    PROVE  LatestIn(words, S \cup {m}) =
               IF typed[m] \in words THEN m ELSE LatestIn(words, S)
<1> DEFINE at == {i \in S : typed[i] \in words}
           after == {i \in S \cup {m} : typed[i] \in words}
<1>0. LatestIn(words, S) = LastOf(at) /\ LatestIn(words, S \cup {m}) = LastOf(after)
    BY DEF LatestIn
<1>1. CASE typed[m] \notin words
    <2>1. after = at
        BY <1>1
    <2> QED
        BY <1>0, <1>1, <2>1
<1>2. CASE typed[m] \in words
    <2>1. m \in after /\ \A j \in after : j <= m /\ j \in Nat
        BY <1>2
    <2> HIDE DEF after
    <2>2. \A i \in after : (\A j \in after : j <= i) => i = m
        BY <2>1
    <2>3. LastOf(after) = m
        BY <2>1, <2>2 DEF LastOf
    <2> QED
        BY <1>0, <1>2, <2>3
<1> QED
    BY <1>1, <1>2

\* What ParseOption makes of the members when it reads option m, one not wrong.
Told(m) ==
    IF typed[m] \in DOMAIN Command
    THEN [args EXCEPT !.cache_command = Command[typed[m]]]
    ELSE Assign(typed[m], typed[m + 1])

\* The value an option gives its member.
Meant(w, value) ==
    IF w = "--trace" THEN TRUE
    ELSE IF w \in Numbers THEN Number[value]
    ELSE IF w = "--mode" THEN Mode(value) ELSE value

\* Assign changes the member of the option and has_dns_args.
LEMMA AssignIs ==
    ASSUME NEW w \in DOMAIN Field, NEW value, HasMembers(args)
    PROVE  /\ Assign(w, value) = [f \in Members |-> Assign(w, value)[f]]
           /\ Assign(w, value)[Field[w]] = Meant(w, value)
           /\ Assign(w, value).has_dns_args = TRUE
           /\ \A f \in Members \ {Field[w], "has_dns_args"} : Assign(w, value)[f] = args[f]
<1> DEFINE given == Meant(w, value)
<1>1. args = [f \in Members |-> args[f]]
    BY DEF HasMembers
<1>2. Field[w] \in Members \ {"has_dns_args", "cache_command"} /\ "has_dns_args" \in Members
    BY FieldIs DEF Members
<1>3. Assign(w, value) = [args EXCEPT ![Field[w]] = given, !.has_dns_args = TRUE]
    <2>1. CASE w = "--trace"
        BY <2>1, FieldIs DEF Assign, Meant
    <2>2. CASE w # "--trace" /\ w \in Numbers
        BY <2>2, FieldIs DEF Assign, Meant
    <2>3. CASE w # "--trace" /\ w \notin Numbers /\ w = "--mode"
        BY <2>3, FieldIs DEF Assign, Meant
    <2>4. CASE w # "--trace" /\ w \notin Numbers /\ w # "--mode"
        BY <2>4, FieldIs DEF Assign, Meant
    <2> QED
        BY <2>1, <2>2, <2>3, <2>4
<1> HIDE DEF given
<1>4. DOMAIN args = Members
    BY <1>1
<1>5. Assign(w, value) = [f \in Members |->
            IF f = "has_dns_args" THEN TRUE ELSE IF f = Field[w] THEN given ELSE args[f]]
    BY <1>2, <1>3, <1>4
<1>6. /\ Assign(w, value) = [f \in Members |-> Assign(w, value)[f]]
      /\ Assign(w, value)[Field[w]] = given
      /\ Assign(w, value).has_dns_args = TRUE
      /\ \A f \in Members \ {Field[w], "has_dns_args"} : Assign(w, value)[f] = args[f]
    BY <1>2, <1>5
<1> QED
    BY <1>6 DEF given

\* So the members say one option more.
LEMMA OptionTold ==
    ASSUME HasMembers(args), NEW S \in SUBSET Nat, NEW m \in Nat, m # 0,
           \A i \in S : i < m, Says(args, S), typed[m] \in DOMAIN Field \cup DOMAIN Command
    PROVE  Says(Told(m), S \cup {m}) /\ HasMembers(Told(m))
<1> DEFINE w == typed[m]
           a == Told(m)
<1>1. \A words : LatestIn(words, S \cup {m}) =
                    IF typed[m] \in words THEN m ELSE LatestIn(words, S)
    BY LatestAdded
<1>2. args = [f \in Members |-> args[f]] /\ DOMAIN args = Members
    BY DEF HasMembers
<1>3. CASE w \in DOMAIN Command
    <2>1. w \notin DOMAIN Field /\ w # "--trace"
        BY <1>3, FieldIs
    <2>2. a.cache_command = Command[w] /\ \A f \in Members \ {"cache_command"} : a[f] = args[f]
        BY <1>2, <1>3 DEF Told, Members
    <2>3. \A v \in DOMAIN Field : a[Field[v]] = args[Field[v]]
        BY <2>2, FieldIs
    <2>4. a.trace = args.trace /\ a.has_dns_args = args.has_dns_args
        BY <2>2 DEF Members
    <2> HIDE DEF a
    <2>5. \A v \in DOMAIN Field : LatestIn({v}, S \cup {m}) = LatestIn({v}, S)
        BY <1>1, <2>1
    <2>6. /\ LatestIn({"--trace"}, S \cup {m}) = LatestIn({"--trace"}, S)
          /\ LatestIn(DOMAIN Field, S \cup {m}) = LatestIn(DOMAIN Field, S)
          /\ LatestIn(DOMAIN Command, S \cup {m}) = m
        BY <1>1, <1>3, <2>1
    <2>7. Says(a, S \cup {m})
        BY <2>2, <2>3, <2>4, <2>5, <2>6 DEF Says
    <2>8. HasMembers(a)
        BY <1>2, <1>3 DEF a, Told, HasMembers, Members
    <2> QED
        BY <2>7, <2>8 DEF a
<1>4. CASE w \notin DOMAIN Command
    <2>0. w \in DOMAIN Field
        BY <1>4
    <2>1. a = Assign(w, typed[m + 1])
        BY <1>4 DEF Told
    <2> DEFINE given == Meant(w, typed[m + 1])
    <2>2. /\ a[Field[w]] = given
          /\ a.has_dns_args = TRUE
          /\ \A f \in Members \ {Field[w], "has_dns_args"} : a[f] = args[f]
        <3> HIDE DEF a
        <3> DEFINE value == typed[m + 1]
        <3>1. /\ Assign(w, value)[Field[w]] = Meant(w, value)
              /\ Assign(w, value).has_dns_args = TRUE
              /\ \A f \in Members \ {Field[w], "has_dns_args"} : Assign(w, value)[f] = args[f]
            <4> HIDE DEF value, w
            <4> QED
                BY <2>0, AssignIs
        <3> QED
            BY <2>1, <3>1
    <2>3. \A v \in DOMAIN Field \ {w} : a[Field[v]] = args[Field[v]]
        BY <2>0, <2>2, FieldIs
    <2>4. w # "--trace" => given = Means(w, m)
        BY DEF Means, Meant, Numbers
    <2>5. a.cache_command = args.cache_command
        BY <2>0, <2>2, FieldIs DEF Members
    <2> HIDE DEF a, given
    <2>6. /\ \A v \in DOMAIN Field \ {w} : LatestIn({v}, S \cup {m}) = LatestIn({v}, S)
          /\ LatestIn({w}, S \cup {m}) = m
          /\ LatestIn(DOMAIN Field, S \cup {m}) = m
          /\ LatestIn(DOMAIN Command, S \cup {m}) = LatestIn(DOMAIN Command, S)
        BY <1>1, <1>4, <2>0
    <2>7. \A v \in DOMAIN Field \ {"--trace"} :
             a[Field[v]] = LET i == LatestIn({v}, S \cup {m})
                           IN  IF i = 0 THEN Defaults[Field[v]] ELSE Means(v, i)
        <3> SUFFICES ASSUME NEW v \in DOMAIN Field \ {"--trace"}
                     PROVE  a[Field[v]] = LET i == LatestIn({v}, S \cup {m})
                                          IN  IF i = 0 THEN Defaults[Field[v]] ELSE Means(v, i)
            OBVIOUS
        <3>1. CASE v = w
            BY <2>2, <2>4, <2>6, <3>1
        <3>2. CASE v # w
            <4>1. a[Field[v]] = args[Field[v]] /\ LatestIn({v}, S \cup {m}) = LatestIn({v}, S)
                BY <2>3, <2>6, <3>2
            <4> QED
                BY <4>1 DEF Says
        <3> QED
            BY <3>1, <3>2
    <2>8. a.trace = (LatestIn({"--trace"}, S \cup {m}) # 0)
        <3>1. "--trace" \in DOMAIN Field /\ Field["--trace"] = "trace"
            BY FieldIs
        <3>2. CASE w = "--trace"
            BY <2>2, <2>6, <3>1, <3>2 DEF given, Meant
        <3>3. CASE w # "--trace"
            <4>1. /\ a.trace = args.trace
                  /\ LatestIn({"--trace"}, S \cup {m}) = LatestIn({"--trace"}, S)
                BY <2>3, <2>6, <3>1, <3>3
            <4> QED
                BY <4>1 DEF Says
        <3> QED
            BY <3>2, <3>3
    <2>9. a.has_dns_args = (LatestIn(DOMAIN Field, S \cup {m}) # 0)
        BY <2>2, <2>6
    <2>10. a.cache_command =
               LET i == LatestIn(DOMAIN Command, S \cup {m})
               IN  IF i = 0 THEN "None" ELSE Command[typed[i]]
        BY <2>5, <2>6 DEF Says
    <2>11. Says(a, S \cup {m})
        BY <2>7, <2>8, <2>9, <2>10 DEF Says
    <2>12. HasMembers(a)
        <3> DEFINE value == typed[m + 1]
        <3>1. HasMembers(Assign(w, value))
            <4> HIDE DEF value, w
            <4> QED
                BY <2>0, AssignIs DEF HasMembers
        <3> QED
            BY <2>1, <3>1
    <2> QED
        BY <2>11, <2>12 DEF a
<1> QED
    BY <1>3, <1>4
-----------------------------------------------------------------------------
\* Before anything is read nothing has been said.
LEMMA InitInv == Init => IInv
<1> SUFFICES ASSUME Init PROVE IInv
    OBVIOUS
<1>1. typed \in Seq(STRING) /\ argv = typed /\ optind = 1 /\ firstNonopt = 1 /\ lastNonopt = 1
      /\ args = Defaults /\ pc = "parse"
    BY LineAssumption DEF Init
<1>2. Words
    BY <1>1 DEF Words
<1>3. SoFar = {}
    BY <1>1, OptionsDef DEF SoFar
<1>4. HasMembers(args)
    BY <1>1 DEF Defaults, HasMembers, Members
<1>5. \A words : LatestIn(words, SoFar) = 0
    BY <1>3 DEF LatestIn, LastOf
<1>6. Says(args, SoFar)
    BY <1>1, <1>5 DEF Says, Defaults
<1>7. optind - 1 \notin Options
    BY <1>1, OptionsDef
<1> QED
    BY <1>1, <1>2, <1>3, <1>4, <1>6, <1>7 DEF IInv, UnreadAsTyped, BehindArgument, NoneWrong

\* The option that getopt finds is the next one typed; between it and the last one there
\* is none, and a wrong one is wrong wherever it was moved.
LEMMA NextIsTyped ==
    ASSUME Words, UnreadAsTyped, BehindArgument
    PROVE  LET m == NextOption
           IN  /\ m \in Nat /\ optind <= m /\ m <= Len(typed) + 1 /\ Len(typed) \in Nat
               /\ {i \in Options : i < m} = SoFar
               /\ m <= Len(typed) =>
                     /\ m \in Options /\ m \in 1..Len(typed) /\ IsOption(typed[m])
                     /\ argv[m] = typed[m]
                     /\ m + 1 <= Len(typed) => argv[m + 1] = typed[m + 1]
                     /\ IsWrong(argv, m) <=> IsWrong(typed, m)
<1> DEFINE m == NextOption
           n == Len(typed)
<1>0. /\ typed \in Seq(STRING) /\ argv \in Seq(STRING) /\ Len(argv) = n /\ n \in Nat
      /\ optind \in Nat /\ 1 <= optind /\ optind <= n + 1
    BY DEF Words
<1>1. /\ m \in Nat /\ optind <= m /\ m <= n + 1
      /\ m <= n => IsOption(argv[m])
      /\ \A i \in optind..m - 1 : ~IsOption(argv[i])
    BY <1>0, NextOptionIs
<1> HIDE DEF m
<1>2. \A k \in optind..n : argv[k] = typed[k]
    BY <1>0 DEF UnreadAsTyped
<1>3. \A i \in Options : i < m => i < optind
    <2> SUFFICES ASSUME NEW i \in Options, i < m, ~(i < optind) PROVE FALSE
        OBVIOUS
    <2>1. i \in 1..n /\ IsOption(typed[i])
        BY <1>0, OptionsDef
    <2>2. i \in optind..m - 1 /\ i \in optind..n
        BY <1>0, <1>1, <2>1
    <2> QED
        BY <1>1, <1>2, <2>1, <2>2
<1>4. {i \in Options : i < m} = SoFar
    <2>1. \A i \in Options : i \in Nat
        BY <1>0, OptionsDef
    <2> QED
        BY <1>0, <1>1, <1>3, <2>1 DEF SoFar
<1>5. ASSUME m <= n
      PROVE  /\ m \in Options /\ m \in 1..n /\ IsOption(typed[m])
             /\ argv[m] = typed[m]
             /\ m + 1 <= n => argv[m + 1] = typed[m + 1]
             /\ IsWrong(argv, m) <=> IsWrong(typed, m)
    <2>1. m \in 1..n /\ m \in optind..n /\ (m + 1 <= n => m + 1 \in optind..n)
        BY <1>0, <1>1, <1>5
    <2>2. argv[m] = typed[m] /\ (m + 1 <= n => argv[m + 1] = typed[m + 1])
        BY <1>2, <2>1
    <2>3. IsOption(typed[m])
        BY <1>1, <1>5, <2>2
    <2>4. ~(m - 1 \in Options /\ TakesArgument(typed[m - 1]))
        <3>1. CASE m = optind
            BY <3>1 DEF BehindArgument
        <3>2. CASE m # optind
            <4>1. m - 1 < m /\ ~(m - 1 < optind)
                BY <1>0, <1>1, <3>2
            <4> QED
                BY <1>3, <4>1
        <3> QED
            BY <3>1, <3>2
    <2>5. m \in Options
        BY <1>0, <2>1, <2>3, <2>4, OptionsDef
    <2>6. IsWrong(argv, m) <=> IsWrong(typed, m)
        <3>1. CASE m = n
            BY <1>0, <2>2, <3>1, FieldIs DEF IsWrong, TakesArgument
        <3>2. CASE m # n
            <4>1. m + 1 <= n
                BY <1>0, <2>1, <3>2
            <4> QED
                BY <1>0, <2>2, <4>1 DEF IsWrong
        <3> QED
            BY <3>1, <3>2
    <2> QED
        BY <2>1, <2>2, <2>3, <2>5, <2>6
<1> QED
    BY <1>0, <1>1, <1>4, <1>5 DEF m

\* The options that count are those before the first wrong one, or all.
LEMMA EffectiveIs ==
    ASSUME typed \in Seq(STRING), NEW S \in SUBSET Options,
           \A i \in S : ~IsWrong(typed, i),
           \A i \in Options \ S, j \in S : j < i,
           S = Options \/ \E m \in Options \ S : IsWrong(typed, m)
                                /\ \A i \in Options \ S : m <= i
    PROVE  Effective = S
<1>0. \A i \in Options : i \in Nat
    BY OptionsDef
<1>1. ASSUME NEW i \in S PROVE i \in Effective
    <2>1. \A j \in Options : j <= i => j \in S
        BY <1>0, <1>1
    <2> QED
        BY <1>1, <2>1 DEF Effective
<1>2. ASSUME NEW i \in Effective, i \notin S PROVE FALSE
    <2>1. i \in Options /\ \A j \in Options : j <= i => ~IsWrong(typed, j)
        BY <1>2 DEF Effective
    <2> QED
        BY <1>0, <1>2, <2>1
<1> QED
    BY <1>1, <1>2 DEF Effective

\* One option more is read, whatever getopt moved.
LEMMA ParseOptionInv == IInv /\ ParseOption => IInv'
<1> SUFFICES ASSUME IInv, ParseOption PROVE IInv'
    OBVIOUS
<1> DEFINE m == NextOption
           n == Len(typed)
           w == typed[m]
<1>0. /\ Words /\ HasMembers(args)
      /\ UnreadAsTyped /\ BehindArgument /\ NoneWrong /\ Says(args, SoFar)
    BY DEF IInv, ParseOption
<1>1. /\ typed \in Seq(STRING) /\ argv \in Seq(STRING) /\ Len(argv) = n /\ n \in Nat
      /\ {optind, firstNonopt, lastNonopt} \subseteq Nat
      /\ 1 <= firstNonopt /\ firstNonopt <= lastNonopt /\ lastNonopt <= optind
      /\ optind <= n + 1
    BY <1>0 DEF Words
<1>2. /\ m \in Nat /\ optind <= m /\ m <= n /\ m \in 1..n
      /\ {i \in Options : i < m} = SoFar
      /\ m \in Options /\ IsOption(w) /\ argv[m] = w
      /\ m + 1 <= n => argv[m + 1] = typed[m + 1]
      /\ IsWrong(argv, m) <=> IsWrong(typed, m)
    <2>1. m <= n
        BY <1>1 DEF ParseOption
    <2> HIDE DEF m
    <2> QED
        BY <1>0, <2>1, NextIsTyped DEF m
<1>3. /\ argv' = Exchanged /\ firstNonopt' = FirstSkipped /\ lastNonopt' = m
      /\ optind' = m + 1 + (IF TakesArgument(w) /\ m < n THEN 1 ELSE 0)
      /\ UNCHANGED <<typed, up, sent, status>>
      /\ IF IsWrong(argv, m) THEN pc' = "main" /\ args' = args
         ELSE /\ pc' = "parse"
              /\ args' = IF w \in DOMAIN Command
                         THEN [args EXCEPT !.cache_command = Command[w]]
                         ELSE Assign(w, argv[m + 1])
    BY <1>1, <1>2 DEF ParseOption
<1> HIDE DEF m
<1>4. /\ Exchanged \in Seq(STRING) /\ Len(Exchanged) = n
      /\ \A k \in optind..n : Exchanged[k] = argv[k]
    BY <1>1, ExchangedIs
<1>5. /\ optind' \in Nat /\ m < optind' /\ optind' <= n + 1 /\ optind' <= m + 2
      /\ FirstSkipped \in Nat /\ 1 <= FirstSkipped /\ FirstSkipped <= m
    <2>1. optind \in Nat /\ firstNonopt \in Nat /\ lastNonopt \in Nat
        BY <1>1
    <2>2. optind' = m + 1 \/ (optind' = m + 2 /\ m < n)
        BY <1>2, <1>3
    <2>3. optind' \in Nat /\ m < optind' /\ optind' <= n + 1 /\ optind' <= m + 2
        BY <1>1, <1>2, <2>2
    <2>4. FirstSkipped \in Nat /\ 1 <= FirstSkipped /\ FirstSkipped <= m
        BY <1>1, <1>2, <2>1 DEF FirstSkipped
    <2> QED
        BY <2>3, <2>4
<1>6. Words'
    BY <1>1, <1>2, <1>3, <1>4, <1>5 DEF Words
<1>7. \A k \in optind..n : Exchanged[k] = typed[k]
    BY <1>0, <1>1, <1>4 DEF UnreadAsTyped
<1>8. Options' = Options /\ \A i : i \in SoFar <=> i \in Options /\ i < m
    BY <1>2, <1>3 DEF Options
<1>9. \A S, a : Says(a, S)' <=> Says(a, S)
    BY <1>3 DEF Says, LatestIn, Means
<1>10. CASE IsWrong(argv, m)
    <2>1. Effective = SoFar
        <3>1. SoFar \in SUBSET Options /\ \A i \in SoFar : ~IsWrong(typed, i)
            BY <1>0 DEF SoFar, NoneWrong
        <3>2. \A i \in Options : i \in Nat
            BY <1>1, OptionsDef
        <3>3. m \in Options \ SoFar /\ IsWrong(typed, m)
            BY <1>2, <1>10
        <3>4. \A i \in Options \ SoFar : m <= i /\ \A j \in SoFar : j < i
            <4> SUFFICES ASSUME NEW i \in Options \ SoFar
                         PROVE  m <= i /\ \A j \in SoFar : j < i
                OBVIOUS
            <4>1. i \in Nat /\ ~(i < m)
                BY <1>8, <3>2
            <4>2. \A j \in SoFar : j \in Nat /\ j < m
                BY <1>8, <3>2
            <4> QED
                BY <1>2, <4>1, <4>2
        <3> QED
            BY <1>1, <3>1, <3>3, <3>4, EffectiveIs
    <2>2. Effective' = Effective
        BY <1>3, <1>8 DEF Effective, IsWrong
    <2>3. Says(args', Effective')
        BY <1>0, <1>3, <1>10, <2>1, <2>2
    <2>4. Says(args, Effective)'
        BY <2>3, <1>9, <2>2
    <2> QED
        BY <1>0, <1>3, <1>6, <1>10, <2>4 DEF IInv
<1>11. CASE ~IsWrong(argv, m)
    <2>1. w \in DOMAIN Field \cup DOMAIN Command
        BY <1>2, <1>11 DEF IsWrong, IsOption
    <2>2. ~IsWrong(typed, m) /\ (TakesArgument(w) => m < n)
        BY <1>1, <1>2, <1>11 DEF IsWrong
    <2>3. args' = Told(m)
        <3>1. CASE w \in DOMAIN Command
            BY <1>3, <1>11, <3>1 DEF Told
        <3>2. CASE w = "--trace"
            BY <1>3, <1>11, <3>2, FieldIs DEF Told, Assign
        <3>3. CASE w \in DOMAIN Field \ {"--trace"}
            <4>1. TakesArgument(w)
                BY <3>3 DEF TakesArgument
            <4>2. argv[m + 1] = typed[m + 1]
                BY <1>1, <1>2, <2>2, <4>1
            <4> QED
                BY <1>3, <1>11, <3>3, <4>2, FieldIs DEF Told
        <3> QED
            BY <2>1, <3>1, <3>2, <3>3
    <2>5. SoFar' = SoFar \cup {m}
        <3>1. \A i \in Options : i \in Nat /\ i \in 1..n
            BY <1>1, OptionsDef
        <3>2. CASE TakesArgument(w)
            <4>1. optind' = m + 2 /\ m + 1 \in 1..n
                BY <1>1, <1>2, <1>3, <2>2, <3>2
            <4>2. m + 1 \notin Options
                <5>1. m + 1 - 1 = m
                    BY <1>2
                <5> QED
                    BY <1>1, <1>2, <3>2, <4>1, <5>1, OptionsDef
            <4>3. \A i \in Options : i < m + 2 <=> i < m \/ i = m
                BY <1>2, <3>1, <4>2
            <4> QED
                BY <1>2, <1>8, <4>1, <4>3 DEF SoFar
        <3>3. CASE ~TakesArgument(w)
            <4>1. optind' = m + 1
                BY <1>2, <1>3, <3>3
            <4>2. \A i \in Options : i < m + 1 <=> i < m \/ i = m
                BY <1>2, <3>1
            <4> QED
                BY <1>2, <1>8, <4>1, <4>2 DEF SoFar
        <3> QED
            BY <3>2, <3>3
    <2>6. Says(args', SoFar') /\ HasMembers(args')
        <3>1. SoFar \in SUBSET Nat /\ \A i \in SoFar : i < m
            BY <1>1, <1>8, OptionsDef
        <3>2. m # 0
            BY <1>2
        <3>3. Says(Told(m), SoFar \cup {m}) /\ HasMembers(Told(m))
            BY <1>0, <1>2, <2>1, <3>1, <3>2, OptionTold
        <3> QED
            BY <2>3, <2>5, <3>3
    <2>7. Says(args, SoFar)'
        BY <2>6, <1>9
    <2>8. UnreadAsTyped'
        BY <1>1, <1>2, <1>3, <1>4, <1>5, <1>7 DEF UnreadAsTyped
    <2>9. BehindArgument'
        <3>1. CASE TakesArgument(w)
            <4>1. optind' - 1 = m + 1 /\ m + 1 \in 1..n /\ m + 1 - 1 = m
                BY <1>1, <1>2, <1>3, <2>2, <3>1
            <4>2. m + 1 \notin Options
                BY <1>1, <1>2, <3>1, <4>1, OptionsDef
            <4> QED
                BY <1>8, <4>1, <4>2 DEF BehindArgument
        <3>2. CASE ~TakesArgument(w)
            <4>1. optind' - 1 = m
                BY <1>2, <1>3, <3>2
            <4> QED
                BY <1>3, <3>2, <4>1 DEF BehindArgument
        <3> QED
            BY <3>1, <3>2
    <2>10. NoneWrong'
        BY <1>0, <1>3, <2>2, <2>5 DEF NoneWrong, IsWrong
    <2> QED
        BY <1>0, <1>3, <1>6, <1>11, <2>6, <2>7, <2>8, <2>9, <2>10 DEF IInv
<1> QED
    BY <1>10, <1>11

\* No option is left: all that were typed have been read.
LEMMA ParseEndInv == IInv /\ ParseEnd => IInv'
<1> SUFFICES ASSUME IInv, ParseEnd PROVE IInv'
    OBVIOUS
<1> DEFINE n == Len(typed)
<1>0. /\ Words /\ HasMembers(args)
      /\ UnreadAsTyped /\ BehindArgument /\ NoneWrong /\ Says(args, SoFar)
    BY DEF IInv, ParseEnd
<1>1. /\ typed \in Seq(STRING) /\ argv \in Seq(STRING) /\ Len(argv) = n /\ n \in Nat
      /\ optind \in Nat /\ firstNonopt \in Nat /\ lastNonopt \in Nat
      /\ 1 <= firstNonopt /\ firstNonopt <= lastNonopt /\ lastNonopt <= optind
      /\ optind <= n + 1
    BY <1>0 DEF Words
<1>2. Exchanged \in Seq(STRING) /\ Len(Exchanged) = n
    BY <1>1, ExchangedIs
<1>3. /\ argv' = Exchanged /\ pc' = "main"
      /\ UNCHANGED <<typed, up, optind, firstNonopt, lastNonopt, args, sent, status>>
    BY DEF ParseEnd
<1>4. Words'
    BY <1>1, <1>2, <1>3 DEF Words
<1>5. SoFar = Options
    <2>1. ~(NextOption <= n) /\ NextOption \in Nat
        BY <1>0, <1>1, NextIsTyped DEF ParseEnd
    <2>2. \A i \in Options : i \in 1..n
        BY <1>1, OptionsDef
    <2>3. \A i \in Options : i < NextOption
        BY <1>1, <2>1, <2>2
    <2>4. {i \in Options : i < NextOption} = SoFar
        BY <1>0, NextIsTyped
    <2> QED
        BY <2>3, <2>4
<1>6. Effective = Options
    BY <1>0, <1>1, <1>5, EffectiveIs DEF NoneWrong
<1>7. Says(args, Effective)
    BY <1>0, <1>5, <1>6
<1>8. Options' = Options
    BY <1>3 DEF Options
<1>9. Says(args, Effective)'
    BY <1>3, <1>7, <1>8 DEF Says, LatestIn, Means, Effective, IsWrong
<1> QED
    BY <1>0, <1>3, <1>4, <1>9 DEF IInv

\* What is done with the members changes none of them.
LEMMA Invariance == IInv /\ [Next]_vars => IInv'
<1> SUFFICES ASSUME IInv, [Next]_vars PROVE IInv'
    OBVIOUS
<1>1. ASSUME UNCHANGED <<typed, argv, optind, firstNonopt, lastNonopt, args>>,
             \/ pc # "parse" /\ pc' \in {"main", "send", "serve", "resolve", "exit"}
             \/ pc' = pc
      PROVE  IInv'
    <2>1. Words' /\ HasMembers(args)'
        BY <1>1 DEF IInv, Words, HasMembers
    <2>2. Options' = Options
        BY <1>1 DEF Options
    <2>3. /\ Says(args, Effective)' <=> Says(args, Effective)
          /\ Says(args, SoFar)' <=> Says(args, SoFar)
        BY <1>1, <2>2 DEF Says, LatestIn, Means, Effective, SoFar, IsWrong
    <2>4. /\ UnreadAsTyped' <=> UnreadAsTyped
          /\ BehindArgument' <=> BehindArgument
          /\ NoneWrong' <=> NoneWrong
        BY <1>1, <2>2 DEF UnreadAsTyped, BehindArgument, NoneWrong, IsWrong, SoFar
    <2> QED
        BY <1>1, <2>1, <2>3, <2>4 DEF IInv
<1>2. CASE RunCommand
    <2>1. /\ UNCHANGED <<typed, argv, optind, firstNonopt, lastNonopt, args>> /\ pc = "main"
          /\ pc' \in {"serve", "send", "exit"}
        BY <1>2 DEF RunCommand, Exit
    <2> QED
        BY <1>1, <2>1 DEF IInv
<1>3. CASE Answered
    BY <1>1, <1>3 DEF Answered, Exit
<1>4. CASE RunQuery
    <2>1. /\ UNCHANGED <<typed, argv, optind, firstNonopt, lastNonopt, args>> /\ pc = "main"
          /\ pc' \in {"resolve", "exit"}
        BY <1>4 DEF RunQuery, Exit
    <2> QED
        BY <1>1, <2>1 DEF IInv
<1>5. CASE UNCHANGED vars
    BY <1>1, <1>5 DEF vars, IInv
<1> QED
    BY <1>2, <1>3, <1>4, <1>5, ParseOptionInv, ParseEndInv DEF Next

LEMMA AlwaysInv == Spec => []IInv
BY InitInv, Invariance, PTL DEF Spec
-----------------------------------------------------------------------------
(***************************************************************************)
(* getopt moves options before the other words of argv, one call late, and *)
(* loses none: for every command line the members of Arguments are what    *)
(* its options say, the last of each kind, up to the first that is wrong   *)
(* (arguments.cpp:17-230).                                                 *)
(***************************************************************************)
THEOREM OptionsAreReadTheorem == Spec => []OptionsAreRead
<1>1. \A words : Latest(words) = LatestIn(words, Effective)
    BY DEF Latest, LatestIn, LastOf
<1>2. Says(args, Effective) /\ pc # "parse" => OptionsAreRead
    BY <1>1, Zenon DEF Says, OptionsAreRead, Means, Numbers
<1>3. IInv => OptionsAreRead
    BY <1>2 DEF IInv, OptionsAreRead
<1> QED
    BY <1>3, AlwaysInv, PTL
-----------------------------------------------------------------------------
(***************************************************************************)
(* What getopt leaves of the words: where they stand after the one command *)
(* was read with its argument, and the line that is sent.                  *)
(***************************************************************************)
SameWords == \A k \in DOMAIN argv : \E j \in DOMAIN typed : argv[k] = typed[j]

TakesIts == OneCommand /\ 1 \in Effective /\ TakesArgument(typed[1])

Unmoved == argv = typed

\* An option of a query has come behind the command and its argument.
Pushed ==
    /\ Len(argv) >= 3 /\ argv[1] = typed[1] /\ argv[2] = typed[2]
    /\ argv[3] \in DOMAIN Field

CommandRead == Unmoved /\ firstNonopt = 1 /\ lastNonopt = 1 /\ optind \in {1, 3}
FieldRead ==
    /\ Unmoved /\ firstNonopt = 3 /\ lastNonopt >= 3 /\ lastNonopt < optind
    /\ typed[lastNonopt] \in DOMAIN Field
FieldPushed == Pushed /\ firstNonopt > 3

WordsStay ==
    /\ SameWords
    /\ TakesIts /\ pc = "parse" => CommandRead \/ FieldRead \/ FieldPushed
    /\ TakesIts /\ pc # "parse" => Unmoved \/ Pushed
    /\ TakesIts /\ Effective = {1} =>
          Unmoved /\ (pc = "parse" => firstNonopt = 1 /\ lastNonopt = 1)

CommandSent ==
    /\ args.cache_command \notin {"None", "Activate"} /\ Len(argv) >= Least
    /\ sent = Split(CommandWords)

LineIsSent ==
    /\ pc \in {"parse", "main", "serve", "resolve"} => sent = << >>
    /\ pc = "send" => CommandSent
    /\ pc = "exit" =>
          \/ CommandSent
          \/ sent = << >> /\ (args.cache_command = "None" \/ Len(argv) < Least)

\* What getopt's move of words leaves where it was, and what comes to the front.
LEMMA ExchangedParts ==
    ASSUME Words
    PROVE  /\ \A k \in 1..Len(argv) : k < firstNonopt => Exchanged[k] = argv[k]
           /\ firstNonopt < lastNonopt /\ lastNonopt < optind =>
                 Exchanged[firstNonopt] = argv[lastNonopt]
           /\ ~(firstNonopt < lastNonopt /\ lastNonopt < optind) => Exchanged = argv
           /\ \A k \in 1..Len(argv) : \E j \in 1..Len(argv) : Exchanged[k] = argv[j]
<1> DEFINE n == Len(argv)
           a == SubSeq(argv, 1, firstNonopt - 1)
           b == SubSeq(argv, lastNonopt, optind - 1)
           c == SubSeq(argv, firstNonopt, lastNonopt - 1)
           d == SubSeq(argv, optind, n)
<1>0. /\ argv \in Seq(STRING) /\ n \in Nat
      /\ firstNonopt \in Nat /\ lastNonopt \in Nat /\ optind \in Nat
      /\ 1 <= firstNonopt /\ firstNonopt <= lastNonopt /\ lastNonopt <= optind
      /\ optind <= n + 1
    BY DEF Words
<1>1. CASE ~(firstNonopt < lastNonopt /\ lastNonopt < optind)
    BY <1>0, <1>1 DEF Exchanged
<1>2. CASE firstNonopt < lastNonopt /\ lastNonopt < optind
    <2>1. /\ a \in Seq(STRING) /\ Len(a) = firstNonopt - 1
          /\ \A k \in 1..firstNonopt - 1 : a[k] = argv[1 + k - 1]
        BY <1>0, <1>2, SubSeqIs
    <2>2. /\ b \in Seq(STRING) /\ Len(b) = optind - lastNonopt
          /\ \A k \in 1..optind - lastNonopt : b[k] = argv[lastNonopt + k - 1]
        BY <1>0, <1>2, SubSeqIs
    <2>3. /\ c \in Seq(STRING) /\ Len(c) = lastNonopt - firstNonopt
          /\ \A k \in 1..lastNonopt - firstNonopt : c[k] = argv[firstNonopt + k - 1]
        BY <1>0, <1>2, SubSeqIs
    <2>4. /\ d \in Seq(STRING) /\ Len(d) = n - optind + 1
          /\ \A k \in 1..n - optind + 1 : d[k] = argv[optind + k - 1]
        BY <1>0, <1>2, SubSeqIs
    <2>5. Exchanged = ((a \o b) \o c) \o d
        BY <1>2 DEF Exchanged
    <2> HIDE DEF a, b, c, d
    <2> DEFINE ab == a \o b
               abc == ab \o c
    <2>6. /\ ab \in Seq(STRING) /\ Len(ab) = Len(a) + Len(b)
          /\ \A k \in 1..Len(a) : ab[k] = a[k]
          /\ \A k \in 1..Len(b) : ab[Len(a) + k] = b[k]
        BY <2>1, <2>2, ConcatIs
    <2> HIDE DEF ab
    <2>7. /\ abc \in Seq(STRING) /\ Len(abc) = Len(ab) + Len(c)
          /\ \A k \in 1..Len(ab) : abc[k] = ab[k]
          /\ \A k \in 1..Len(c) : abc[Len(ab) + k] = c[k]
        BY <2>3, <2>6, ConcatIs
    <2>8. Exchanged = abc \o d
        BY <2>5 DEF ab
    <2> HIDE DEF abc
    <2>9. /\ Exchanged \in Seq(STRING) /\ Len(Exchanged) = Len(abc) + Len(d)
          /\ \A k \in 1..Len(abc) : Exchanged[k] = abc[k]
          /\ \A k \in 1..Len(d) : Exchanged[Len(abc) + k] = d[k]
        BY <2>4, <2>7, <2>8, ConcatIs
    <2> DEFINE f == firstNonopt
               l == lastNonopt
               o == optind
    <2>10. /\ Len(a) = f - 1 /\ Len(b) = o - l /\ Len(c) = l - f
           /\ Len(ab) = f - 1 + (o - l) /\ Len(abc) = o - 1
           /\ f \in Nat /\ l \in Nat /\ o \in Nat /\ 1 <= f /\ f < l /\ l < o
        BY <1>0, <1>2, <2>1, <2>2, <2>3, <2>6, <2>7
    <2> HIDE DEF f, l, o
    <2>11. ASSUME NEW k \in 1..f - 1 PROVE Exchanged[k] = argv[k]
        <3>1. k \in 1..Len(abc) /\ k \in 1..Len(ab) /\ k \in 1..Len(a) /\ 1 + k - 1 = k
            BY <1>0, <1>2, <2>10
        <3> QED
            BY <2>1, <2>6, <2>7, <2>9, <3>1 DEF f
    <2>12. ASSUME NEW k \in 1..o - l PROVE Exchanged[f - 1 + k] = argv[l + k - 1]
        <3>1. /\ f - 1 + k \in 1..Len(abc) /\ f - 1 + k \in 1..Len(ab) /\ k \in 1..Len(b)
              /\ Len(a) + k = f - 1 + k
            BY <2>10
        <3>2. Exchanged[f - 1 + k] = ab[f - 1 + k]
            BY <2>7, <2>9, <3>1
        <3>3. ab[f - 1 + k] = b[k]
            BY <2>6, <3>1
        <3> QED
            BY <2>2, <3>2, <3>3 DEF o, l
    <2>13. ASSUME NEW k \in 1..l - f PROVE Exchanged[f - 1 + (o - l) + k] = argv[f + k - 1]
        <3>1. /\ f - 1 + (o - l) + k \in 1..Len(abc) /\ k \in 1..Len(c)
              /\ Len(ab) + k = f - 1 + (o - l) + k
            BY <2>10
        <3>2. abc[f - 1 + (o - l) + k] = c[k]
            BY <2>7, <3>1
        <3> QED
            BY <2>3, <2>9, <3>1, <3>2 DEF f, l
    <2>14. ASSUME NEW k \in o..n PROVE Exchanged[k] = argv[k]
        BY <1>0, <2>14, ExchangedIs DEF o
    <2>15. Exchanged[f] = argv[l]
        <3>1. 1 \in 1..o - l /\ f - 1 + 1 = f /\ l + 1 - 1 = l
            BY <2>10
        <3>2. Exchanged[f - 1 + 1] = argv[l + 1 - 1]
            BY <2>12, <3>1
        <3> QED
            BY <3>1, <3>2
    <2>16. ASSUME NEW k \in 1..n PROVE \E j \in 1..n : Exchanged[k] = argv[j]
        <3>1. CASE k < f
            <4>1. k \in 1..f - 1
                BY <1>0, <2>10, <3>1
            <4> QED
                BY <2>11, <4>1
        <3>2. CASE f <= k /\ k < f + (o - l)
            <4>1. /\ k - f + 1 \in 1..o - l /\ f - 1 + (k - f + 1) = k
                  /\ l + (k - f + 1) - 1 \in 1..n
                BY <1>0, <2>10, <3>2 DEF o
            <4>2. Exchanged[f - 1 + (k - f + 1)] = argv[l + (k - f + 1) - 1]
                BY <2>12, <4>1
            <4> QED
                BY <4>1, <4>2
        <3>3. CASE f + (o - l) <= k /\ k < o
            <4> DEFINE i == k - f - (o - l) + 1
            <4>1. i \in 1..l - f /\ f - 1 + (o - l) + i = k /\ f + i - 1 \in 1..n
                BY <1>0, <2>10, <3>3 DEF o
            <4> HIDE DEF i
            <4>2. Exchanged[f - 1 + (o - l) + i] = argv[f + i - 1]
                BY <2>13, <4>1
            <4> QED
                BY <4>1, <4>2
        <3>4. CASE o <= k
            BY <1>0, <2>10, <2>14, <3>4
        <3> QED
            BY <1>0, <2>10, <3>1, <3>2, <3>3, <3>4
    <2>17. \A k \in 1..n : k < f => k \in 1..f - 1
        BY <1>0, <2>10
    <2> QED
        BY <1>2, <2>11, <2>15, <2>16, <2>17 DEF f, l, o
<1> QED
    BY <1>1, <1>2

LEMMA SameWordsKept ==
    ASSUME Words, SameWords, argv' = Exchanged, typed' = typed
    PROVE  SameWords'
<1>1. /\ argv \in Seq(STRING) /\ Len(Exchanged) = Len(argv) /\ Exchanged \in Seq(STRING)
    BY ExchangedIs DEF Words
<1>2. DOMAIN argv = 1..Len(argv) /\ DOMAIN argv' = 1..Len(argv)
    BY <1>1
<1>3. \A k \in 1..Len(argv) : \E j \in 1..Len(argv) : Exchanged[k] = argv[j]
    BY ExchangedParts
<1>4. \A k \in DOMAIN argv' : \E j \in DOMAIN argv : argv'[k] = argv[j]
    BY <1>2, <1>3
<1>5. \A j \in DOMAIN argv : \E i \in DOMAIN typed : argv[j] = typed[i]
    BY DEF SameWords
<1>6. \A k \in DOMAIN argv' : \E i \in DOMAIN typed' : argv'[k] = typed'[i]
    BY <1>4, <1>5
<1> QED
    BY <1>6 DEF SameWords

\* What is known of a line of one command that takes an argument.
LEMMA TakesItsIs ==
    ASSUME typed \in Seq(STRING), TakesIts
    PROVE  /\ Len(typed) \in Nat /\ Len(typed) >= 2 /\ 1 \in Options
           /\ IsOption(typed[1]) /\ ~IsWrong(typed, 1)
           /\ 2 \notin Options
           /\ \A i \in Options : i # 1 /\ ~IsWrong(typed, i) => typed[i] \in DOMAIN Field
<1>1. typed # << >> /\ {i \in Options : typed[i] \in DOMAIN Command} = {1}
    BY DEF TakesIts, OneCommand
<1>2. /\ 1 \in Options /\ ~IsWrong(typed, 1)
    <2>1. 1 \in Effective
        BY DEF TakesIts
    <2>2. 1 \in Options /\ \A j \in Options : j <= 1 => ~IsWrong(typed, j)
        BY <2>1 DEF Effective
    <2> QED
        BY <2>2
<1>3. TakesArgument(typed[1])
    BY DEF TakesIts
<1>4. Len(typed) \in Nat /\ Len(typed) >= 2
    <2>1. Len(typed) \in Nat /\ Len(typed) # 0
        BY <1>1
    <2>2. Len(typed) # 1
        BY <1>2, <1>3 DEF IsWrong
    <2>3. \A n \in Nat : n # 0 /\ n # 1 => n >= 2
        OBVIOUS
    <2> QED
        BY <2>1, <2>2, <2>3
<1>5. \A i \in Options : i \in 1..Len(typed) /\ IsOption(typed[i])
    BY OptionsDef
<1>6. 2 \notin Options
    <2> DEFINE i == 2
    <2>1. i \in 1..Len(typed) /\ i - 1 = 1
        BY <1>4
    <2> HIDE DEF i
    <2>2. i \notin Options
        BY <1>2, <1>3, <2>1, OptionsDef
    <2> QED
        BY <2>2 DEF i
<1>7. ASSUME NEW i \in Options, i # 1, ~IsWrong(typed, i)
      PROVE  typed[i] \in DOMAIN Field
    <2>1. typed[i] \notin DOMAIN Command
        BY <1>1, <1>7
    <2>2. typed[i] \notin Unknown
        BY <1>7 DEF IsWrong
    <2> QED
        BY <1>5, <1>7, <2>1, <2>2 DEF IsOption
<1> QED
    BY <1>2, <1>4, <1>5, <1>6, <1>7

\* Where the moves that are due leave the command, its argument, and the word behind.
LEMMA MovesLeave ==
    ASSUME Words, TakesIts, CommandRead \/ FieldRead \/ FieldPushed,
           argv' = Exchanged, typed' = typed
    PROVE  /\ CommandRead => Unmoved'
           /\ ~CommandRead => Pushed'
<1> DEFINE n == Len(typed)
<1>1. /\ typed \in Seq(STRING) /\ argv \in Seq(STRING) /\ Len(argv) = n /\ n \in Nat
      /\ firstNonopt \in Nat /\ lastNonopt \in Nat /\ optind \in Nat
      /\ 1 <= firstNonopt /\ firstNonopt <= lastNonopt /\ lastNonopt <= optind
      /\ optind <= n + 1
    BY DEF Words
<1>2. Exchanged \in Seq(STRING) /\ Len(Exchanged) = n
    BY <1>1, ExchangedIs
<1>3. n >= 2
    BY <1>1, TakesItsIs
<1>4. CASE CommandRead
    <2>1. Exchanged = argv
        BY <1>1, <1>4, ExchangedParts DEF CommandRead
    <2>2. Unmoved'
        BY <1>4, <2>1 DEF CommandRead, Unmoved
    <2> QED
        BY <1>4, <2>2
<1>5. CASE FieldRead
    <2>1. /\ argv = typed /\ firstNonopt = 3 /\ lastNonopt >= 3 /\ lastNonopt < optind
          /\ typed[lastNonopt] \in DOMAIN Field
        BY <1>5 DEF FieldRead, Unmoved
    <2>2. 1 \in 1..Len(argv) /\ 2 \in 1..Len(argv) /\ n >= 3 /\ 1 < firstNonopt /\ 2 < firstNonopt
        BY <1>1, <1>3, <2>1
    <2>3. Exchanged[1] = argv[1] /\ Exchanged[2] = argv[2]
        BY <2>2, ExchangedParts
    <2>4. Exchanged[3] \in DOMAIN Field
        <3>1. CASE lastNonopt = 3
            <4>1. Exchanged = argv
                BY <2>1, <3>1, ExchangedParts
            <4> QED
                BY <2>1, <3>1, <4>1
        <3>2. CASE lastNonopt # 3
            <4>1. firstNonopt < lastNonopt
                BY <1>1, <2>1, <3>2
            <4>2. Exchanged[firstNonopt] = argv[lastNonopt]
                BY <2>1, <4>1, ExchangedParts
            <4> QED
                BY <2>1, <4>2
        <3> QED
            BY <3>1, <3>2
    <2>5. Pushed'
        BY <1>2, <2>1, <2>2, <2>3, <2>4 DEF Pushed
    <2>6. ~CommandRead
        BY <2>1 DEF CommandRead
    <2> QED
        BY <2>5, <2>6
<1>6. CASE FieldPushed
    <2>1. /\ Len(argv) >= 3 /\ argv[1] = typed[1] /\ argv[2] = typed[2]
          /\ argv[3] \in DOMAIN Field /\ firstNonopt > 3
        BY <1>6 DEF FieldPushed, Pushed
    <2>2. /\ 1 \in 1..Len(argv) /\ 2 \in 1..Len(argv) /\ 3 \in 1..Len(argv)
          /\ 1 < firstNonopt /\ 2 < firstNonopt /\ 3 < firstNonopt
        BY <1>1, <2>1
    <2>3. Exchanged[1] = argv[1] /\ Exchanged[2] = argv[2] /\ Exchanged[3] = argv[3]
        BY <2>2, ExchangedParts
    <2>4. Pushed'
        BY <1>1, <1>2, <2>1, <2>3 DEF Pushed
    <2>5. ~CommandRead
        BY <2>1 DEF CommandRead
    <2> QED
        BY <2>4, <2>5
<1> QED
    BY <1>4, <1>5, <1>6

LEMMA ParseOptionStays == IInv /\ IInv' /\ WordsStay /\ ParseOption => WordsStay'
<1> SUFFICES ASSUME IInv, IInv', WordsStay, ParseOption PROVE WordsStay'
    OBVIOUS
<1> DEFINE m == NextOption
           n == Len(typed)
           w == typed[m]
<1>1. /\ Words /\ UnreadAsTyped /\ BehindArgument /\ NoneWrong /\ pc = "parse" /\ SameWords
    BY DEF IInv, ParseOption, WordsStay
<1>2. /\ typed \in Seq(STRING) /\ argv \in Seq(STRING) /\ Len(argv) = n /\ n \in Nat
      /\ firstNonopt \in Nat /\ lastNonopt \in Nat /\ optind \in Nat
      /\ 1 <= firstNonopt /\ firstNonopt <= lastNonopt /\ lastNonopt <= optind
      /\ optind <= n + 1
    BY <1>1 DEF Words
<1>3. /\ m \in Nat /\ optind <= m /\ m <= n /\ m \in 1..n
      /\ {i \in Options : i < m} = SoFar
      /\ m \in Options /\ argv[m] = w
      /\ IsWrong(argv, m) <=> IsWrong(typed, m)
    <2>1. m <= n
        BY <1>2 DEF ParseOption
    <2> HIDE DEF m
    <2> QED
        BY <1>1, <2>1, NextIsTyped DEF m
<1>4. /\ argv' = Exchanged /\ firstNonopt' = FirstSkipped /\ lastNonopt' = m
      /\ optind' = m + 1 + (IF TakesArgument(w) /\ m < n THEN 1 ELSE 0)
      /\ typed' = typed
      /\ IF IsWrong(argv, m) THEN pc' = "main" ELSE pc' = "parse"
    BY <1>1, <1>2, <1>3 DEF ParseOption
<1> HIDE DEF m
<1>5. SameWords'
    BY <1>1, <1>4, SameWordsKept
<1>6. Options' = Options /\ Effective' = Effective /\ (TakesIts' <=> TakesIts)
    <2>1. Options' = Options
        BY <1>4 DEF Options
    <2>2. Effective' = Effective
        BY <1>4, <2>1 DEF Effective, IsWrong
    <2> QED
        BY <1>4, <2>1, <2>2 DEF TakesIts, OneCommand
<1>7. ASSUME TakesIts
      PROVE  /\ pc' = "parse" => (CommandRead \/ FieldRead \/ FieldPushed)'
             /\ pc' # "parse" => Unmoved' \/ Pushed'
             /\ Effective = {1} =>
                  Unmoved' /\ (pc' = "parse" => firstNonopt' = 1 /\ lastNonopt' = 1)
    <2>1. CommandRead \/ FieldRead \/ FieldPushed
        BY <1>1, <1>7 DEF WordsStay
    <2>2. /\ CommandRead => Unmoved'
          /\ ~CommandRead => Pushed'
        BY <1>1, <1>4, <1>7, <2>1, MovesLeave
    <2>3. /\ n >= 2 /\ 1 \in Options /\ IsOption(typed[1]) /\ ~IsWrong(typed, 1)
          /\ \A i \in Options : i # 1 /\ ~IsWrong(typed, i) => typed[i] \in DOMAIN Field
        BY <1>2, <1>7, TakesItsIs
    <2>4. TakesArgument(typed[1])
        BY <1>7 DEF TakesIts
    <2>5. m # 1 /\ ~IsWrong(typed, m) => m \in Effective /\ w \in DOMAIN Field
        <3>1. \A i \in Options : i <= m => i = m \/ i \in SoFar
            <4>1. \A i \in Options : i \in Nat
                BY <1>2, OptionsDef
            <4>2. \A i \in Options : i <= m => i = m \/ i < m
                BY <1>3, <4>1
            <4> QED
                BY <1>3, <4>2
        <3> QED
            BY <1>1, <1>3, <2>3, <3>1 DEF NoneWrong, Effective
    <2>6. CASE CommandRead /\ optind = 1
        <3>1. m = 1
            <4>1. 1 \notin SoFar
                BY <2>6 DEF SoFar
            <4>2. ~(1 < m)
                BY <1>3, <2>3, <4>1
            <4> QED
                BY <1>3, <4>2
        <3>2. optind' = 3 /\ lastNonopt' = 1 /\ pc' = "parse"
            BY <1>3, <1>4, <2>3, <2>4, <3>1
        <3>3. firstNonopt' = 1
            BY <1>4, <2>6 DEF CommandRead, FirstSkipped
        <3>4. CommandRead'
            BY <2>2, <2>6, <3>2, <3>3 DEF CommandRead
        <3> QED
            BY <2>2, <2>6, <3>2, <3>3, <3>4
    <2>7. CASE CommandRead /\ optind = 3
        <3>1. m >= 3 /\ m # 1
            BY <1>3, <2>7
        <3>2. CASE IsWrong(argv, m)
            BY <1>4, <2>2, <2>7, <3>2
        <3>3. CASE ~IsWrong(argv, m)
            <4>1. m \in Effective /\ w \in DOMAIN Field
                BY <1>3, <2>5, <3>1, <3>3
            <4>2. firstNonopt' = 3
                BY <1>4, <2>7 DEF CommandRead, FirstSkipped
            <4>3. lastNonopt' < optind'
                BY <1>3, <1>4
            <4>4. FieldRead'
                BY <1>4, <2>2, <2>7, <3>1, <4>1, <4>2, <4>3 DEF FieldRead
            <4>5. Effective # {1}
                BY <3>1, <4>1
            <4>6. pc' = "parse"
                BY <1>4, <3>3
            <4> QED
                BY <4>4, <4>5, <4>6
        <3> QED
            BY <3>2, <3>3
    <2>8. CASE ~CommandRead
        <3>1. firstNonopt' > 3
            <4>1. CASE FieldRead
                BY <1>2, <1>4, <4>1 DEF FieldRead, FirstSkipped
            <4>2. CASE FieldPushed
                BY <1>2, <1>4, <4>2 DEF FieldPushed, FirstSkipped
            <4> QED
                BY <2>1, <2>8, <4>1, <4>2
        <3>2. firstNonopt # 1
            <4>1. firstNonopt = 3 \/ firstNonopt > 3
                BY <2>1, <2>8 DEF FieldRead, FieldPushed
            <4> QED
                BY <4>1
        <3>3. Effective # {1}
            BY <1>1, <1>7, <3>2 DEF WordsStay
        <3>4. FieldPushed'
            BY <2>2, <2>8, <3>1 DEF FieldPushed
        <3> QED
            BY <2>2, <2>8, <3>3, <3>4
    <2> QED
        BY <2>6, <2>7, <2>8 DEF CommandRead
<1> QED
    BY <1>4, <1>5, <1>6, <1>7 DEF WordsStay

LEMMA ParseEndStays == IInv /\ IInv' /\ WordsStay /\ ParseEnd => WordsStay'
<1> SUFFICES ASSUME IInv, IInv', WordsStay, ParseEnd PROVE WordsStay'
    OBVIOUS
<1>1. /\ Words /\ pc = "parse" /\ SameWords
      /\ argv' = Exchanged /\ typed' = typed /\ pc' = "main"
      /\ UNCHANGED <<firstNonopt, lastNonopt, optind>>
    BY DEF IInv, ParseEnd, WordsStay
<1>2. SameWords'
    BY <1>1, SameWordsKept
<1>3. Options' = Options /\ Effective' = Effective /\ (TakesIts' <=> TakesIts)
    <2>1. Options' = Options
        BY <1>1 DEF Options
    <2>2. Effective' = Effective
        BY <1>1, <2>1 DEF Effective, IsWrong
    <2> QED
        BY <1>1, <2>1, <2>2 DEF TakesIts, OneCommand
<1>4. ASSUME TakesIts
      PROVE  (Unmoved' \/ Pushed') /\ (Effective = {1} => Unmoved')
    <2>1. CommandRead \/ FieldRead \/ FieldPushed
        BY <1>1, <1>4 DEF WordsStay
    <2>2. /\ CommandRead => Unmoved'
          /\ ~CommandRead => Pushed'
        BY <1>1, <1>4, <2>1, MovesLeave
    <2>3. Effective = {1} => CommandRead
        <3>1. Effective = {1} => firstNonopt = 1
            BY <1>1, <1>4 DEF WordsStay
        <3> QED
            BY <2>1, <3>1 DEF FieldRead, FieldPushed
    <2> QED
        BY <2>2, <2>3
<1> QED
    BY <1>1, <1>2, <1>3, <1>4 DEF WordsStay

LEMMA WordsStayInit == Init => WordsStay
<1> SUFFICES ASSUME Init PROVE WordsStay
    OBVIOUS
<1>1. argv = typed /\ firstNonopt = 1 /\ lastNonopt = 1 /\ optind = 1 /\ pc = "parse"
    BY DEF Init
<1> QED
    BY <1>1 DEF WordsStay, SameWords, CommandRead, Unmoved

LEMMA WordsStayInvariance == IInv /\ IInv' /\ WordsStay /\ [Next]_vars => WordsStay'
<1> SUFFICES ASSUME IInv, IInv', WordsStay, [Next]_vars PROVE WordsStay'
    OBVIOUS
<1>1. ASSUME UNCHANGED <<typed, argv, optind, firstNonopt, lastNonopt>>,
             (pc = "parse") <=> (pc' = "parse")
      PROVE  WordsStay'
    <2>1. Options' = Options
        BY <1>1 DEF Options
    <2>2. Effective' = Effective
        BY <1>1, <2>1 DEF Effective, IsWrong
    <2>3. TakesIts' <=> TakesIts
        BY <1>1, <2>1, <2>2 DEF TakesIts, OneCommand
    <2> QED
        BY <1>1, <2>2, <2>3 DEF WordsStay, SameWords, CommandRead, FieldRead, FieldPushed,
                                Pushed, Unmoved
<1>2. CASE RunCommand
    <2>1. pc = "main" /\ pc' \in {"serve", "send", "exit"}
        BY <1>2 DEF RunCommand, Exit
    <2> QED
        BY <1>1, <1>2, <2>1 DEF RunCommand
<1>3. CASE Answered
    BY <1>1, <1>3 DEF Answered, Exit
<1>4. CASE RunQuery
    <2>1. pc = "main" /\ pc' \in {"resolve", "exit"}
        BY <1>4 DEF RunQuery, Exit
    <2> QED
        BY <1>1, <1>4, <2>1 DEF RunQuery
<1>5. CASE UNCHANGED vars
    BY <1>1, <1>5 DEF vars
<1> QED
    BY <1>2, <1>3, <1>4, <1>5, ParseOptionStays, ParseEndStays DEF Next

LEMMA LineIsSentInvariance == IInv /\ LineIsSent /\ [Next]_vars => LineIsSent'
<1> SUFFICES ASSUME IInv, LineIsSent, [Next]_vars PROVE LineIsSent'
    OBVIOUS
<1>1. CASE ParseOption \/ ParseEnd
    <2>1. pc = "parse" /\ pc' \in {"parse", "main"} /\ sent' = sent
        BY <1>1 DEF ParseOption, ParseEnd
    <2> QED
        BY <2>1 DEF LineIsSent
<1>2. ASSUME UNCHANGED <<args, argv>>
      PROVE  /\ Least' = Least /\ CommandWords' = CommandWords
             /\ Split(CommandWords)' = Split(CommandWords)
    BY <1>2 DEF Least, CommandWords, Lookup, Given, Arguments, Split
<1>3. CASE RunCommand
    <2>1. /\ pc = "main" /\ args.cache_command # "None" /\ UNCHANGED <<args, argv>>
          /\ sent = << >>
        BY <1>3 DEF RunCommand, LineIsSent
    <2>2. CASE args.cache_command = "Activate"
        <3>1. pc' = "serve" /\ sent' = sent
            BY <1>3, <2>2 DEF RunCommand
        <3> QED
            BY <2>1, <3>1 DEF LineIsSent
    <2>3. CASE args.cache_command # "Activate" /\ Len(argv) < Least
        <3>1. pc' = "exit" /\ sent' = sent
            BY <1>3, <2>3 DEF RunCommand, Exit
        <3> QED
            BY <1>2, <2>1, <2>3, <3>1 DEF LineIsSent
    <2>4. CASE args.cache_command # "Activate" /\ ~(Len(argv) < Least)
        <3>1. pc' = "send" /\ sent' = Split(CommandWords)
            BY <1>3, <2>4 DEF RunCommand
        <3>2. Len(argv) >= Least
            <4>1. Len(argv) \in Nat
                BY DEF IInv, Words
            <4>2. Least \in Nat
                BY DEF Least
            <4> QED
                BY <2>4, <4>1, <4>2
        <3>3. CommandSent'
            BY <1>2, <2>1, <2>4, <3>1, <3>2 DEF CommandSent
        <3> QED
            BY <3>1, <3>3 DEF LineIsSent
    <2> QED
        BY <2>2, <2>3, <2>4
<1>4. CASE Answered
    <2>1. pc = "send" /\ pc' = "exit" /\ UNCHANGED <<args, argv, sent>>
        BY <1>4 DEF Answered, Exit
    <2>2. CommandSent'
        BY <1>2, <2>1 DEF LineIsSent, CommandSent
    <2> QED
        BY <2>1, <2>2 DEF LineIsSent
<1>5. CASE RunQuery
    <2>1. /\ pc = "main" /\ args.cache_command = "None" /\ pc' \in {"exit", "resolve"}
          /\ UNCHANGED <<args, argv, sent>>
        BY <1>5 DEF RunQuery, Exit
    <2> QED
        BY <2>1 DEF LineIsSent
<1>6. CASE UNCHANGED vars
    <2>1. UNCHANGED <<args, argv, sent, pc>>
        BY <1>6 DEF vars
    <2> QED
        BY <1>2, <2>1 DEF LineIsSent, CommandSent
<1> QED
    BY <1>1, <1>3, <1>4, <1>5, <1>6 DEF Next

LEMMA AlwaysSent == Spec => [](WordsStay /\ LineIsSent)
<1>1. Init => LineIsSent
    BY DEF Init, LineIsSent
<1>2. Spec => []WordsStay
    BY AlwaysInv, WordsStayInit, WordsStayInvariance, PTL DEF Spec
<1>3. Spec => []LineIsSent
    BY <1>1, AlwaysInv, LineIsSentInvariance, PTL DEF Spec
<1> QED
    BY <1>2, <1>3, PTL

\* One element more, and sequences joined in either order.
LEMMA AppendIs ==
    ASSUME NEW S, NEW m \in Nat, NEW s \in Seq(S), Len(s) = m, NEW e \in S
    PROVE  /\ Append(s, e) \in Seq(S) /\ Len(Append(s, e)) = m + 1
           /\ DOMAIN Append(s, e) = 1..m + 1
           /\ \A k \in 1..m : Append(s, e)[k] = s[k]
           /\ Append(s, e)[m + 1] = e
           /\ Append(s, e) = s \o <<e>>
OBVIOUS

LEMMA OneOf ==
    ASSUME NEW S, NEW e \in S
    PROVE  <<e>> \in Seq(S) /\ Len(<<e>>) = 1 /\ <<e>>[1] = e
OBVIOUS

LEMMA OneWord ==
    \A w \in STRING : <<w>> \in Seq(STRING) /\ Len(<<w>>) = 1 /\ <<w>>[1] = w
BY OneOf

LEMMA WordsAssociative ==
    \A s, t, u \in Seq(STRING) : (s \o t) \o u = s \o (t \o u)
BY ConcatAssociative

LEMMA WordAppended ==
    \A m \in Nat, s \in Seq(STRING), w \in STRING : Len(s) = m =>
        /\ Append(s, w) \in Seq(STRING) /\ Len(Append(s, w)) = m + 1
        /\ DOMAIN Append(s, w) = 1..m + 1
        /\ \A k \in 1..m : Append(s, w)[k] = s[k]
        /\ Append(s, w)[m + 1] = w
        /\ Append(s, w) = s \o <<w>>
<1> DEFINE W == STRING
<1> HIDE DEF W
<1>1. \A m \in Nat, s \in Seq(W), w \in W : Len(s) = m =>
        /\ Append(s, w) \in Seq(W) /\ Len(Append(s, w)) = m + 1
        /\ DOMAIN Append(s, w) = 1..m + 1
        /\ \A k \in 1..m : Append(s, w)[k] = s[k]
        /\ Append(s, w)[m + 1] = w
        /\ Append(s, w) = s \o <<w>>
    <2> TAKE m \in Nat, s \in Seq(W), w \in W
    <2> HAVE Len(s) = m
    <2> QED
        OBVIOUS
<1> QED
    BY <1>1, Zenon DEF W

LEMMA WordJoined ==
    \A s \in Seq(STRING), w \in STRING : Append(s, w) = s \o <<w>>
BY AppendIsConcat, Zenon

LEMMA ListAppended ==
    \A m \in Nat, s \in Seq(Seq(STRING)), e \in Seq(STRING) : Len(s) = m =>
        /\ Append(s, e) \in Seq(Seq(STRING)) /\ Len(Append(s, e)) = m + 1
        /\ DOMAIN Append(s, e) = 1..m + 1
        /\ \A k \in 1..m : Append(s, e)[k] = s[k]
        /\ Append(s, e)[m + 1] = e
<1> DEFINE W == Seq(STRING)
<1> HIDE DEF W
<1>1. \A m \in Nat, s \in Seq(W), e \in W : Len(s) = m =>
        /\ Append(s, e) \in Seq(W) /\ Len(Append(s, e)) = m + 1
        /\ DOMAIN Append(s, e) = 1..m + 1
        /\ \A k \in 1..m : Append(s, e)[k] = s[k]
        /\ Append(s, e)[m + 1] = e
    BY AppendIs
<1> QED
    BY <1>1, Zenon DEF W
-----------------------------------------------------------------------------
(***************************************************************************)
(* Words with blanks.  Split is FlattenSeq, a recursive function: it is    *)
(* the words' pieces, one after the other.                                 *)
(***************************************************************************)
Lists == Seq(Seq(STRING))

\* f joins the first lists of s, as many as its argument says.
Joins(f, s) == f = [i \in 1..Len(s) |-> IF i = 1 THEN s[i] ELSE f[i - 1] \o s[i]]

LEMMA JoinsExists ==
    ASSUME NEW s \in Lists
    PROVE  \E f : Joins(f, s)
<1> DEFINE n == Len(s)
           Here(f, i) == IF i = 1 THEN s[i] ELSE f[i - 1] \o s[i]
           UpTo(m) == \E f : f = [i \in 1..n |-> IF i <= m THEN Here(f, i) ELSE << >>]
<1>0. n \in Nat
    BY DEF Lists
<1>1. ASSUME NEW f, NEW g, NEW i \in 1..n, i > 1 => f[i - 1] = g[i - 1]
      PROVE  Here(f, i) = Here(g, i)
    BY <1>1
<1> HIDE DEF Here, n
<1>2. UpTo(0)
    <2> DEFINE f == [i \in 1..n |-> << >>]
    <2>1. f = [i \in 1..n |-> IF i <= 0 THEN Here(f, i) ELSE << >>]
        BY <1>0
    <2> HIDE DEF f
    <2> QED
        BY <2>1
<1>3. ASSUME NEW m \in Nat, UpTo(m)
      PROVE  UpTo(m + 1)
    <2>1. PICK f : f = [i \in 1..n |-> IF i <= m THEN Here(f, i) ELSE << >>]
        BY <1>3
    <2> DEFINE g == [i \in 1..n |-> IF i <= m + 1 THEN Here(f, i) ELSE << >>]
    <2>2. ASSUME NEW i \in 1..n, i <= m + 1
          PROVE  Here(f, i) = Here(g, i)
        <3>1. CASE i > 1
            <4>1. i - 1 \in 1..n /\ i - 1 <= m /\ i - 1 <= m + 1
                BY <1>0, <2>2, <3>1
            <4>2. f[i - 1] = Here(f, i - 1)
                BY <2>1, <4>1
            <4>3. g[i - 1] = Here(f, i - 1)
                BY <4>1
            <4> HIDE DEF g
            <4> QED
                BY <1>1, <4>2, <4>3
        <3>2. CASE ~(i > 1)
            <4> HIDE DEF g
            <4> QED
                BY <1>1, <3>2
        <3> QED
            BY <3>1, <3>2
    <2>3. g = [i \in 1..n |-> IF i <= m + 1 THEN Here(g, i) ELSE << >>]
        BY <2>2
    <2> HIDE DEF g
    <2> QED
        BY <2>3
<1> DEFINE Fine == {m \in Nat : UpTo(m)}
<1> HIDE DEF UpTo
<1>4. 0 \in Fine /\ \A m \in Nat : m \in Fine => m + 1 \in Fine
    BY <1>2, <1>3
<1> HIDE DEF Fine
<1>5. n \in Fine
    BY <1>0, <1>4, Induction
<1>6. PICK f : f = [i \in 1..n |-> IF i <= n THEN Here(f, i) ELSE << >>]
    BY <1>5 DEF Fine, UpTo
<1>7. \A i \in 1..n : i <= n
    BY <1>0
<1>8. [i \in 1..n |-> IF i <= n THEN Here(f, i) ELSE << >>] = [i \in 1..n |-> Here(f, i)]
    BY <1>7
<1>9. f = [i \in 1..n |-> Here(f, i)]
    BY <1>6, <1>8
<1> QED
    BY <1>9 DEF Joins, Here, n

LEMMA FlattenIs ==
    ASSUME NEW s \in Lists, Len(s) # 0
    PROVE  \E f : Joins(f, s) /\ FlattenSeq(s) = f[Len(s)]
<1> DEFINE flatten[i \in 1..Len(s)] == IF i = 1 THEN s[i] ELSE flatten[i - 1] \o s[i]
<1>1. FlattenSeq(s) = flatten[Len(s)]
    BY DEF FlattenSeq
<1>2. flatten = CHOOSE f : Joins(f, s)
    BY DEF flatten, Joins
<1> HIDE DEF flatten
<1>3. Joins(flatten, s)
    BY <1>2, JoinsExists
<1> QED
    BY <1>1, <1>3

\* One list more.
LEMMA FlattenAppend ==
    ASSUME NEW s \in Lists, NEW e \in Seq(STRING), FlattenSeq(s) \in Seq(STRING)
    PROVE  FlattenSeq(Append(s, e)) = FlattenSeq(s) \o e
<1> DEFINE t == Append(s, e)
           n == Len(s)
<1>1. /\ t \in Lists /\ Len(t) = n + 1 /\ n \in Nat /\ t[n + 1] = e
      /\ \A i \in 1..n : t[i] = s[i]
    BY AppendProperties DEF Lists
<1> HIDE DEF t
<1>2. PICK g : Joins(g, t) /\ FlattenSeq(t) = g[n + 1]
    BY <1>1, FlattenIs
<1>3. \A i \in 1..n + 1 : g[i] = IF i = 1 THEN t[i] ELSE g[i - 1] \o t[i]
    BY <1>1, <1>2 DEF Joins
<1>4. ASSUME NEW i \in 1..n, NEW j \in 1..n + 1, j = i + 1
      PROVE  g[j] = g[i] \o t[j]
    <2>1. j - 1 = i /\ j # 1
        BY <1>1, <1>4
    <2> QED
        BY <1>3, <2>1
<1>5. CASE n = 0
    <2>1. 1 \in 1..n + 1 /\ n + 1 = 1
        BY <1>5
    <2>2. g[1] = e
        BY <1>1, <1>3, <2>1
    <2>3. FlattenSeq(s) = << >>
        BY <1>5 DEF FlattenSeq, Lists
    <2>4. << >> \o e = e
        BY ConcatEmptySeq
    <2> QED
        BY <1>2, <2>1, <2>2, <2>3, <2>4 DEF t
<1>6. CASE n # 0
    <2>1. PICK f : Joins(f, s) /\ FlattenSeq(s) = f[n]
        BY <1>6, FlattenIs
    <2>2. \A i \in 1..n : f[i] = IF i = 1 THEN s[i] ELSE f[i - 1] \o s[i]
        BY <2>1 DEF Joins
    <2>3. ASSUME NEW i \in 1..n, NEW j \in 1..n, j = i + 1
          PROVE  f[j] = f[i] \o s[j]
        <3>1. j - 1 = i /\ j # 1
            BY <1>1, <2>3
        <3> QED
            BY <2>2, <3>1
    <2> DEFINE Same == {i \in Nat : i \in 1..n => f[i] = g[i]}
    <2>4. 0 \in Same
        OBVIOUS
    <2>5. ASSUME NEW i \in Nat, i \in Same PROVE i + 1 \in Same
        <3> SUFFICES ASSUME i + 1 \in 1..n PROVE f[i + 1] = g[i + 1]
            OBVIOUS
        <3>1. i + 1 \in 1..n + 1 /\ i + 1 - 1 = i /\ s[i + 1] = t[i + 1]
            BY <1>1
        <3>2. CASE i = 0
            BY <1>3, <2>2, <3>1, <3>2
        <3>3. CASE i # 0
            <4>1. i \in 1..n /\ i + 1 # 1
                BY <3>3
            <4>2. f[i] = g[i]
                BY <2>5, <4>1
            <4>3. f[i + 1] = f[i] \o s[i + 1]
                BY <2>3, <4>1
            <4>4. g[i + 1] = g[i] \o t[i + 1]
                BY <1>4, <3>1, <4>1
            <4> QED
                BY <3>1, <4>2, <4>3, <4>4
        <3> QED
            BY <3>2, <3>3
    <2> HIDE DEF Same
    <2>6. n \in Same
        BY <1>1, <2>4, <2>5, Induction
    <2>7. n \in 1..n /\ n + 1 \in 1..n + 1 /\ n + 1 # 1 /\ n + 1 - 1 = n
        BY <1>1, <1>6
    <2>8. f[n] = g[n]
        BY <2>6, <2>7 DEF Same
    <2>9. g[n + 1] = g[n] \o e
        BY <1>1, <1>4, <2>7
    <2> QED
        BY <1>2, <2>1, <2>8, <2>9 DEF t
<1> QED
    BY <1>5, <1>6

\* The words that one word is for who reads the line.
Parts(w) == IF w \in DOMAIN Pieces THEN Pieces[w] ELSE <<w>>
AllParts(words) == [k \in DOMAIN words |-> Parts(words[k])]

LEMMA PartsType ==
    /\ \A w \in STRING : Parts(w) \in Seq(STRING)
    /\ \A w : w \notin DOMAIN Pieces => Parts(w) = <<w>>
<1>1. \A w \in DOMAIN Pieces : Pieces[w] \in Seq(STRING)
    BY LineAssumption
<1>2. ASSUME NEW w \in STRING PROVE Parts(w) \in Seq(STRING)
    <2>1. CASE w \in DOMAIN Pieces
        BY <1>1, <2>1 DEF Parts
    <2>2. CASE w \notin DOMAIN Pieces
        <3>1. Parts(w) = <<w>>
            BY <2>2 DEF Parts
        <3> QED
            BY <3>1, OneWord
    <2> QED
        BY <2>1, <2>2
<1>3. ASSUME NEW w, w \notin DOMAIN Pieces PROVE Parts(w) = <<w>>
    BY <1>3 DEF Parts
<1> QED
    BY <1>2, <1>3

LEMMA AllPartsIs ==
    ASSUME NEW words \in Seq(STRING)
    PROVE  /\ AllParts(words) \in Lists /\ Len(AllParts(words)) = Len(words)
           /\ Split(words) = FlattenSeq(AllParts(words))
           /\ \A w \in STRING :
                 AllParts(Append(words, w)) = Append(AllParts(words), Parts(w))
<1> DEFINE n == Len(words)
<1>1. n \in Nat /\ DOMAIN words = 1..n /\ \A k \in 1..n : words[k] \in STRING
    OBVIOUS
<1>2. AllParts(words) = [k \in 1..n |-> Parts(words[k])]
    BY <1>1 DEF AllParts
<1>3. \A k \in 1..n : Parts(words[k]) \in Seq(STRING)
    BY <1>1, PartsType
<1> HIDE DEF n
<1>4. AllParts(words) \in Lists /\ Len(AllParts(words)) = n
    BY <1>1, <1>2, <1>3 DEF Lists
<1>5. Split(words) = FlattenSeq(AllParts(words))
    BY DEF Split, AllParts, Parts
<1>6. ASSUME NEW w \in STRING
      PROVE  AllParts(Append(words, w)) = Append(AllParts(words), Parts(w))
    <2> DEFINE l == AllParts(Append(words, w))
               r == Append(AllParts(words), Parts(w))
    <2>1. /\ Append(words, w) \in Seq(STRING) /\ DOMAIN Append(words, w) = 1..n + 1
          /\ \A k \in 1..n : Append(words, w)[k] = words[k]
          /\ Append(words, w)[n + 1] = w
        BY <1>1, WordAppended, Zenon DEF n
    <2>2. l = [k \in 1..n + 1 |-> Parts(Append(words, w)[k])]
        BY <2>1 DEF AllParts
    <2>3. /\ r \in Seq(Seq(STRING)) /\ Len(r) = n + 1
          /\ \A k \in 1..n : r[k] = AllParts(words)[k]
          /\ r[n + 1] = Parts(w)
        <3>1. Parts(w) \in Seq(STRING)
            BY PartsType
        <3> QED
            BY <1>1, <1>4, <3>1, ListAppended, Zenon DEF Lists
    <2>4. \A k \in 1..n + 1 : k = n + 1 \/ k \in 1..n
        BY <1>1
    <2>5. \A k \in 1..n + 1 : Parts(Append(words, w)[k]) = r[k]
        <3>1. \A k \in 1..n : AllParts(words)[k] = Parts(words[k])
            BY <1>2
        <3> HIDE DEF r
        <3> QED
            BY <2>1, <2>3, <2>4, <3>1
    <2>6. DOMAIN r = 1..n + 1
        BY <2>3
    <2> HIDE DEF r, l
    <2>7. r = [k \in 1..n + 1 |-> r[k]]
        BY <2>3, <2>6
    <2>8. l = r
        BY <2>2, <2>5, <2>7
    <2> QED
        BY <2>8 DEF l, r
<1> QED
    BY <1>4, <1>5, <1>6 DEF n

\* A sequence of words is empty, or a shorter one and a last word.
LEMMA LastWord ==
    ASSUME NEW m \in Nat, NEW words \in Seq(STRING), Len(words) = m + 1
    PROVE  \E front \in Seq(STRING), w \in STRING :
               /\ words = Append(front, w) /\ Len(front) = m
               /\ words = front \o <<w>> /\ words[m + 1] = w
               /\ \A k \in 1..m : words[k] = front[k]
<1>1. words # << >>
    OBVIOUS
<1>2. PICK front \in Seq(STRING), w \in STRING : words = Append(front, w)
    BY <1>1, SequenceEmptyOrAppend
<1>3. Len(front) = m
    <2>1. Len(Append(front, w)) = Len(front) + 1 /\ Len(front) \in Nat
        BY AppendProperties
    <2> QED
        BY <1>2, <2>1
<1> QED
    BY <1>2, <1>3, WordAppended, Zenon

LEMMA SplitEmpty == Split(<< >>) = << >>
<1>1. << >> \in Seq(STRING)
    OBVIOUS
<1>2. Len(AllParts(<< >>)) = 0 /\ Split(<< >>) = FlattenSeq(AllParts(<< >>))
    BY <1>1, AllPartsIs
<1>3. AllParts(<< >>) \in Lists
    BY <1>1, AllPartsIs
<1> QED
    BY <1>2, <1>3 DEF FlattenSeq, Lists

LEMMA SplitType == \A words \in Seq(STRING) : Split(words) \in Seq(STRING)
<1> DEFINE Typed == {m \in Nat : \A words \in Seq(STRING) :
                                     Len(words) = m => Split(words) \in Seq(STRING)}
<1>1. 0 \in Typed
    <2> SUFFICES ASSUME NEW words \in Seq(STRING), Len(words) = 0
                 PROVE  Split(words) \in Seq(STRING)
        OBVIOUS
    <2>1. words = << >>
        OBVIOUS
    <2> QED
        BY <2>1, SplitEmpty
<1>2. ASSUME NEW m \in Nat, m \in Typed PROVE m + 1 \in Typed
    <2> SUFFICES ASSUME NEW words \in Seq(STRING), Len(words) = m + 1
                 PROVE  Split(words) \in Seq(STRING)
        OBVIOUS
    <2>1. PICK front \in Seq(STRING), w \in STRING :
                 words = Append(front, w) /\ Len(front) = m
        BY LastWord
    <2>2. Split(front) \in Seq(STRING)
        BY <1>2, <2>1
    <2>3. /\ AllParts(front) \in Lists /\ Split(front) = FlattenSeq(AllParts(front))
          /\ AllParts(words) = Append(AllParts(front), Parts(w))
          /\ Split(words) = FlattenSeq(AllParts(words))
        BY <2>1, AllPartsIs
    <2>4. Parts(w) \in Seq(STRING)
        BY PartsType
    <2>5. Split(words) = Split(front) \o Parts(w)
        BY <2>2, <2>3, <2>4, FlattenAppend
    <2> QED
        BY <2>2, <2>4, <2>5, ConcatIs
<1> HIDE DEF Typed
<1>3. \A m \in Nat : m \in Typed
    BY <1>1, <1>2, Induction
<1> QED
    <2> TAKE words \in Seq(STRING)
    <2>1. Len(words) \in Nat
        OBVIOUS
    <2> QED
        BY <1>3, <2>1 DEF Typed

LEMMA SplitAppend ==
    ASSUME NEW words \in Seq(STRING), NEW w \in STRING
    PROVE  Split(Append(words, w)) = Split(words) \o Parts(w)
<1>1. Append(words, w) \in Seq(STRING) /\ Split(words) \in Seq(STRING)
    <2>1. Len(words) \in Nat
        OBVIOUS
    <2> QED
        BY <2>1, SplitType, WordAppended, Zenon
<1>2. /\ AllParts(words) \in Lists /\ Split(words) = FlattenSeq(AllParts(words))
      /\ AllParts(Append(words, w)) = Append(AllParts(words), Parts(w))
    BY AllPartsIs
<1>3. Split(Append(words, w)) = FlattenSeq(AllParts(Append(words, w)))
    BY <1>1, AllPartsIs
<1>4. Parts(w) \in Seq(STRING)
    BY PartsType
<1> QED
    BY <1>1, <1>2, <1>3, <1>4, FlattenAppend

\* The pieces of two parts of a line are the pieces of the line.
LEMMA SplitConcat ==
    \A s, t \in Seq(STRING) : Split(s \o t) = Split(s) \o Split(t)
<1> SUFFICES ASSUME NEW s \in Seq(STRING)
             PROVE  \A t \in Seq(STRING) : Split(s \o t) = Split(s) \o Split(t)
    OBVIOUS
<1> DEFINE Fine == {m \in Nat : \A t \in Seq(STRING) :
                                    Len(t) = m => Split(s \o t) = Split(s) \o Split(t)}
<1>1. 0 \in Fine
    <2> SUFFICES ASSUME NEW t \in Seq(STRING), Len(t) = 0
                 PROVE  Split(s \o t) = Split(s) \o Split(t)
        OBVIOUS
    <2>1. t = << >>
        OBVIOUS
    <2>2. s \o << >> = s /\ Split(s) \o << >> = Split(s)
        BY SplitType, ConcatEmptySeq
    <2> QED
        BY <2>1, <2>2, SplitEmpty
<1>2. ASSUME NEW m \in Nat, m \in Fine PROVE m + 1 \in Fine
    <2> SUFFICES ASSUME NEW t \in Seq(STRING), Len(t) = m + 1
                 PROVE  Split(s \o t) = Split(s) \o Split(t)
        OBVIOUS
    <2>1. PICK front \in Seq(STRING), w \in STRING :
                 t = Append(front, w) /\ Len(front) = m /\ t = front \o <<w>>
        BY LastWord
    <2>2. Split(s \o front) = Split(s) \o Split(front)
        BY <1>2, <2>1
    <2>3. s \o t = Append(s \o front, w)
        <3>1. <<w>> \in Seq(STRING)
            BY OneWord
        <3>2. s \o front \in Seq(STRING) /\ Len(s \o front) \in Nat
            BY ConcatIs
        <3>3. Append(s \o front, w) = (s \o front) \o <<w>>
            BY <3>2, WordJoined, Zenon
        <3>4. (s \o front) \o <<w>> = s \o (front \o <<w>>)
            BY <3>1, WordsAssociative, Zenon
        <3> QED
            BY <2>1, <3>3, <3>4
    <2>4. Split(s \o t) = Split(s \o front) \o Parts(w)
        <3>1. s \o front \in Seq(STRING)
            BY ConcatIs
        <3> QED
            BY <2>3, <3>1, SplitAppend
    <2>5. Split(t) = Split(front) \o Parts(w)
        BY <2>1, SplitAppend
    <2>6. /\ Split(s) \in Seq(STRING) /\ Split(front) \in Seq(STRING)
          /\ Parts(w) \in Seq(STRING)
        BY SplitType, PartsType
    <2>7. (Split(s) \o Split(front)) \o Parts(w) = Split(s) \o (Split(front) \o Parts(w))
        <3> DEFINE a == Split(s)
                   b == Split(front)
                   c == Parts(w)
        <3>1. a \in Seq(STRING) /\ b \in Seq(STRING) /\ c \in Seq(STRING)
            BY <2>6
        <3> HIDE DEF a, b, c
        <3>2. (a \o b) \o c = a \o (b \o c)
            BY <3>1, WordsAssociative
        <3> QED
            BY <3>2 DEF a, b, c
    <2> QED
        BY <2>2, <2>4, <2>5, <2>7
<1> HIDE DEF Fine
<1>3. \A m \in Nat : m \in Fine
    BY <1>1, <1>2, Induction
<1> QED
    <2> TAKE t \in Seq(STRING)
    <2>1. Len(t) \in Nat
        OBVIOUS
    <2> QED
        BY <1>3, <2>1 DEF Fine

\* Words without blanks stay as they are.
LEMMA SplitWhole ==
    ASSUME NEW words \in Seq(STRING), \A k \in 1..Len(words) : words[k] \notin DOMAIN Pieces
    PROVE  Split(words) = words
<1> DEFINE Fine == {m \in Nat : \A s \in Seq(STRING) :
               (Len(s) = m /\ \A k \in 1..Len(s) : s[k] \notin DOMAIN Pieces) => Split(s) = s}
<1>1. 0 \in Fine
    <2> SUFFICES ASSUME NEW s \in Seq(STRING), Len(s) = 0 PROVE Split(s) = s
        OBVIOUS
    <2>1. s = << >>
        OBVIOUS
    <2> QED
        BY <2>1, SplitEmpty
<1>2. ASSUME NEW m \in Nat, m \in Fine PROVE m + 1 \in Fine
    <2> SUFFICES ASSUME NEW s \in Seq(STRING), Len(s) = m + 1,
                        \A k \in 1..Len(s) : s[k] \notin DOMAIN Pieces
                 PROVE  Split(s) = s
        OBVIOUS
    <2> HIDE DEF Fine
    <2>1. PICK front \in Seq(STRING), w \in STRING :
                 /\ s = Append(front, w) /\ Len(front) = m
                 /\ s = front \o <<w>> /\ s[m + 1] = w
                 /\ \A k \in 1..m : s[k] = front[k]
        BY LastWord
    <2>2. /\ \A k \in 1..Len(front) : front[k] \notin DOMAIN Pieces
          /\ w \notin DOMAIN Pieces
        <3>1. m + 1 \in 1..Len(s) /\ \A k \in 1..m : k \in 1..Len(s)
            OBVIOUS
        <3> QED
            BY <2>1, <3>1
    <2>3. Split(front) = front
        BY <1>2, <2>1, <2>2 DEF Fine
    <2>4. Split(s) = front \o <<w>>
        BY <2>1, <2>2, <2>3, SplitAppend, PartsType
    <2> QED
        BY <2>1, <2>4
<1> HIDE DEF Fine
<1>3. \A m \in Nat : m \in Fine
    BY <1>1, <1>2, Induction
<1>4. Len(words) \in Nat
    OBVIOUS
<1> QED
    BY <1>3, <1>4 DEF Fine
-----------------------------------------------------------------------------
(***************************************************************************)
(* The line and the words typed, cut at their blanks: word for word the    *)
(* same behind the first one, but for the numbers a lookup fills in.       *)
(***************************************************************************)
Near(words) ==
    Len(sent) >= 4 =>
        \A k \in 2..4 :
            IF k <= Len(words) THEN sent[k] = words[k] ELSE k > 2 /\ sent[k] = "1"

Alike(words) ==
    \A k \in 2..7 : k <= Len(sent) => k <= Len(words) /\ sent[k] = words[k]

LEMMA NotCut ==
    /\ \A w \in Verbs : w \in STRING /\ w \notin DOMAIN Pieces
    /\ \A w \in DOMAIN Number : w \in STRING /\ w \notin DOMAIN Pieces
    /\ \A w \in DOMAIN Command : w \notin DOMAIN Pieces /\ w \notin DOMAIN Number
    /\ \A w \in DOMAIN Field : w \notin DOMAIN Number
BY LineAssumption, TextAssumption

LEMMA EmptyWords == << >> \in Seq(STRING) /\ Len(<< >>) = 0
OBVIOUS

\* A first word, then others, then others.
Joined(v, r, y) == (<<v>> \o r) \o y

LEMMA JoinedIs ==
    ASSUME NEW v \in STRING, NEW r \in Seq(STRING), NEW y \in Seq(STRING)
    PROVE  /\ Joined(v, r, y) \in Seq(STRING)
           /\ Len(Joined(v, r, y)) = 1 + Len(r) + Len(y)
           /\ Len(r) \in Nat /\ Len(y) \in Nat
           /\ Joined(v, r, y)[1] = v
           /\ \A k \in 1..Len(r) : Joined(v, r, y)[1 + k] = r[k]
           /\ \A k \in 1..Len(y) : Joined(v, r, y)[1 + Len(r) + k] = y[k]
<1> DEFINE o == <<v>>
           vr == o \o r
           t == vr \o y
<1>1. o \in Seq(STRING) /\ Len(o) = 1 /\ o[1] = v
    BY OneWord
<1> HIDE DEF o
<1>2. /\ o \o r \in Seq(STRING) /\ Len(o \o r) = Len(o) + Len(r)
      /\ Len(o) \in Nat /\ Len(r) \in Nat
      /\ \A k \in 1..Len(o) : (o \o r)[k] = o[k]
      /\ \A k \in 1..Len(r) : (o \o r)[Len(o) + k] = r[k]
    BY <1>1, ConcatIs
<1>3. /\ vr \in Seq(STRING) /\ Len(vr) = 1 + Len(r) /\ Len(r) \in Nat
      /\ vr[1] = v
      /\ \A k \in 1..Len(r) : vr[1 + k] = r[k]
    <2> HIDE DEF vr
    <2>1. 1 \in 1..Len(o)
        BY <1>1
    <2>2. /\ vr \in Seq(STRING) /\ Len(vr) = Len(o) + Len(r)
          /\ \A k \in 1..Len(o) : vr[k] = o[k]
          /\ \A k \in 1..Len(r) : vr[Len(o) + k] = r[k]
        BY <1>2 DEF vr
    <2> QED
        BY <1>1, <1>2, <2>1, <2>2
<1> HIDE DEF vr
<1>4. /\ vr \o y \in Seq(STRING) /\ Len(vr \o y) = Len(vr) + Len(y)
      /\ Len(vr) \in Nat /\ Len(y) \in Nat
      /\ \A k \in 1..Len(vr) : (vr \o y)[k] = vr[k]
      /\ \A k \in 1..Len(y) : (vr \o y)[Len(vr) + k] = y[k]
    BY <1>3, ConcatIs
<1>5. Joined(v, r, y) = t
    BY DEF Joined, vr, o
<1>6. /\ t \in Seq(STRING) /\ Len(t) = Len(vr) + Len(y) /\ Len(y) \in Nat
      /\ \A k \in 1..Len(vr) : t[k] = vr[k]
      /\ \A k \in 1..Len(y) : t[Len(vr) + k] = y[k]
    BY <1>4
<1> HIDE DEF t
<1>7. t[1] = v
    <2>1. 1 \in 1..Len(vr)
        BY <1>3
    <2> QED
        BY <1>3, <1>6, <2>1
<1>8. ASSUME NEW k \in 1..Len(r) PROVE t[1 + k] = r[k]
    <2>1. 1 + k \in 1..Len(vr)
        BY <1>3
    <2>2. vr[1 + k] = r[k]
        BY <1>3
    <2> QED
        BY <1>6, <2>1, <2>2
<1> QED
    BY <1>3, <1>5, <1>6, <1>7, <1>8

Shape(t, v, r, y) ==
    /\ t \in Seq(STRING) /\ Len(t) = 1 + Len(r) + Len(y)
    /\ Len(r) \in Nat /\ Len(y) \in Nat
    /\ t[1] = v
    /\ \A k \in 1..Len(r) : t[1 + k] = r[k]
    /\ \A k \in 1..Len(y) : t[1 + Len(r) + k] = y[k]

LEMMA JoinedShape ==
    \A v \in STRING, r, y \in Seq(STRING) : Shape(Joined(v, r, y), v, r, y)
<1> TAKE v \in STRING, r, y \in Seq(STRING)
<1>1. /\ Joined(v, r, y) \in Seq(STRING)
      /\ Len(Joined(v, r, y)) = 1 + Len(r) + Len(y)
      /\ Len(r) \in Nat /\ Len(y) \in Nat
    BY JoinedIs
<1>2. Joined(v, r, y)[1] = v
    BY JoinedIs
<1>3. \A k \in 1..Len(r) : Joined(v, r, y)[1 + k] = r[k]
    BY JoinedIs
<1>4. \A k \in 1..Len(y) : Joined(v, r, y)[1 + Len(r) + k] = y[k]
    BY JoinedIs
<1> QED
    BY <1>1, <1>2, <1>3, <1>4 DEF Shape

LEMMA JoinedEquals ==
    \A a \in STRING, b, c, words \in Seq(STRING) :
        /\ Len(words) = 1 + Len(b) + Len(c) /\ words[1] = a
        /\ \A k \in 1..Len(b) : words[1 + k] = b[k]
        /\ \A k \in 1..Len(c) : words[1 + Len(b) + k] = c[k]
        => words = Joined(a, b, c)
<1> TAKE a \in STRING, b, c, words \in Seq(STRING)
<1> DEFINE t == Joined(a, b, c)
           p == Len(b)
           q == Len(c)
<1>1. Shape(t, a, b, c)
    BY JoinedShape, Zenon
<1> HIDE DEF t
<1>5. /\ t \in Seq(STRING) /\ Len(t) = 1 + p + q /\ p \in Nat /\ q \in Nat /\ t[1] = a
      /\ \A k \in 1..p : t[1 + k] = b[k]
      /\ \A k \in 1..q : t[1 + p + k] = c[k]
    BY <1>1 DEF Shape
<1> HIDE DEF t, p, q
<1> SUFFICES ASSUME /\ Len(words) = 1 + p + q /\ words[1] = a
                    /\ \A k \in 1..p : words[1 + k] = b[k]
                    /\ \A k \in 1..q : words[1 + p + k] = c[k]
             PROVE  words = t
    BY DEF t, p, q
<1>6. ASSUME NEW k \in 1..1 + p + q PROVE words[k] = t[k]
    <2>1. CASE k = 1
        BY <1>5, <2>1
    <2>2. CASE k > 1 /\ k <= 1 + p
        <3>1. k - 1 \in 1..p /\ 1 + (k - 1) = k
            BY <1>5, <2>2
        <3>2. words[1 + (k - 1)] = b[k - 1] /\ t[1 + (k - 1)] = b[k - 1]
            BY <1>5, <3>1
        <3> QED
            BY <3>1, <3>2
    <2>3. CASE k > 1 + p
        <3>1. k - p - 1 \in 1..q /\ 1 + p + (k - p - 1) = k
            BY <1>5, <2>3
        <3>2. words[1 + p + (k - p - 1)] = c[k - p - 1] /\ t[1 + p + (k - p - 1)] = c[k - p - 1]
            BY <1>5, <3>1
        <3> QED
            BY <3>1, <3>2
    <2> QED
        BY <1>5, <2>1, <2>2, <2>3
<1> QED
    BY <1>5, <1>6

LEMMA SplitFirst ==
    ASSUME NEW words \in Seq(STRING), NEW w \in STRING, w \notin DOMAIN Pieces
    PROVE  Split(<<w>> \o words) = <<w>> \o Split(words)
<1>1. <<w>> \in Seq(STRING) /\ Len(<<w>>) = 1 /\ <<w>>[1] = w
    BY OneWord
<1>2. Split(<<w>>) = <<w>>
    <2> DEFINE o == <<w>>
    <2>0. o \in Seq(STRING) /\ Len(o) = 1 /\ o[1] = w
        BY <1>1
    <2> HIDE DEF o
    <2>1. \A k \in 1..Len(o) : o[k] \notin DOMAIN Pieces
        <3>1. \A k \in 1..1 : k = 1
            OBVIOUS
        <3> QED
            BY <2>0, <3>1
    <2>2. Split(o) = o
        BY <2>0, <2>1, SplitWhole
    <2> QED
        BY <2>2 DEF o
<1> QED
    BY <1>1, <1>2, SplitConcat, Zenon

LEMMA SplitOne == \A w \in STRING : Split(<<w>>) = Parts(w)
<1> TAKE w \in STRING
<1>1. << >> \in Seq(STRING) /\ Append(<< >>, w) = <<w>>
    OBVIOUS
<1>2. Split(Append(<< >>, w)) = Split(<< >>) \o Parts(w)
    BY <1>1, SplitAppend
<1>3. << >> \o Parts(w) = Parts(w)
    BY PartsType, ConcatEmptySeq
<1> QED
    BY <1>1, <1>2, <1>3, SplitEmpty

\* The words typed, cut: the first, those up to word m, and the others.
LEMMA TypedSplit ==
    ASSUME typed \in Seq(STRING), NEW n \in Nat, Len(typed) = n, NEW m \in 1..n,
           typed[1] \notin DOMAIN Pieces
    PROVE  /\ Split(SubSeq(typed, 2, m)) \in Seq(STRING)
           /\ \E z \in Seq(STRING) :
                 /\ Split(typed) = (<<typed[1]>> \o Split(SubSeq(typed, 2, m))) \o z
                 /\ m = n => z = << >>
<1> DEFINE a == typed[1]
           b == SubSeq(typed, 2, m)
           c == SubSeq(typed, m + 1, n)
           ab == <<a>> \o b
<1>0. a \in STRING /\ n >= 1 /\ m >= 1 /\ m <= n
    OBVIOUS
<1>1. /\ b \in Seq(STRING) /\ Len(b) = m - 1
      /\ \A k \in 1..m - 1 : b[k] = typed[2 + k - 1]
    BY <1>0, SubSeqIs
<1>2. /\ c \in Seq(STRING) /\ Len(c) = n - m
      /\ \A k \in 1..n - m : c[k] = typed[m + k]
    <2>1. /\ c \in Seq(STRING) /\ Len(c) = n - (m + 1) + 1
          /\ \A k \in 1..n - (m + 1) + 1 : c[k] = typed[m + 1 + k - 1]
        BY <1>0, SubSeqIs
    <2>2. n - (m + 1) + 1 = n - m /\ \A k \in 1..n - m : m + 1 + k - 1 = m + k
        BY <1>0
    <2> QED
        BY <2>1, <2>2
<1> HIDE DEF a, b, c
<1>4. typed = Joined(a, b, c)
    <2>1. typed[1] = a
        BY DEF a
    <2>2. \A k \in 1..m - 1 : typed[1 + k] = b[k]
        <3>1. \A k \in 1..m - 1 : 2 + k - 1 = 1 + k
            OBVIOUS
        <3> QED
            BY <1>1, <3>1
    <2>3. Len(typed) = 1 + Len(b) + Len(c)
        BY <1>0, <1>1, <1>2
    <2>4. \A k \in 1..n - m : typed[1 + Len(b) + k] = c[k]
        <3>1. \A k \in 1..n - m : 1 + Len(b) + k = m + k
            BY <1>0, <1>1
        <3> QED
            BY <1>2, <3>1
    <2>5. /\ \A k \in 1..Len(b) : typed[1 + k] = b[k]
          /\ \A k \in 1..Len(c) : typed[1 + Len(b) + k] = c[k]
        BY <1>1, <1>2, <2>2, <2>4
    <2>6. a \in STRING /\ b \in Seq(STRING) /\ c \in Seq(STRING)
        BY <1>0, <1>1, <1>2
    <2> QED
        BY <2>1, <2>3, <2>5, <2>6, JoinedEquals
<1>5. Split(b) \in Seq(STRING) /\ Split(c) \in Seq(STRING)
    BY <1>1, <1>2, SplitType
<1>6. Split(typed) = (<<a>> \o Split(b)) \o Split(c)
    <2>1. <<a>> \in Seq(STRING)
        BY <1>0, OneWord
    <2>2. ab \in Seq(STRING)
        BY <1>1, <2>1, ConcatIs
    <2>3. Split(ab) = <<a>> \o Split(b)
        BY <1>0, <1>1, SplitFirst DEF a
    <2>4. typed = ab \o c
        BY <1>4 DEF Joined
    <2> HIDE DEF ab
    <2>5. Split(ab \o c) = Split(ab) \o Split(c)
        BY <1>2, <2>2, SplitConcat
    <2> QED
        BY <2>3, <2>4, <2>5
<1>7. m = n => Split(c) = << >>
    <2> SUFFICES ASSUME m = n PROVE Split(c) = << >>
        OBVIOUS
    <2>1. Len(c) = 0
        BY <1>0, <1>2
    <2>2. c = << >>
        BY <1>2, <2>1
    <2> QED
        BY <2>2, SplitEmpty
<1> QED
    BY <1>5, <1>6, <1>7 DEF a, b

LEMMA SplitJoined ==
    ASSUME NEW v \in STRING, v \notin DOMAIN Pieces,
           NEW r \in Seq(STRING), NEW y \in Seq(STRING)
    PROVE  Split(Joined(v, r, y)) = Joined(v, Split(r), Split(y))
<1> DEFINE vr == <<v>> \o r
<1>1. vr \in Seq(STRING)
    <2>1. <<v>> \in Seq(STRING)
        BY OneWord
    <2> QED
        BY <2>1, ConcatIs
<1>2. Split(vr) = <<v>> \o Split(r)
    BY SplitFirst
<1>3. Joined(v, r, y) = vr \o y
    BY DEF Joined
<1> HIDE DEF vr
<1>4. Split(vr \o y) = Split(vr) \o Split(y)
    BY <1>1, SplitConcat
<1> QED
    BY <1>2, <1>3, <1>4 DEF Joined

\* A line with the words r, then numbers y; what was typed ends there, or y is empty.
LEMMA NearJoined ==
    ASSUME NEW v \in STRING, NEW a \in STRING, NEW r \in Seq(STRING),
           NEW y \in Seq(STRING), NEW z \in Seq(STRING), NEW words,
           Shape(sent, v, r, y), Shape(words, a, r, z),
           Len(y) <= 2, \A k \in 1..Len(y) : y[k] = "1", Len(y) = 0 \/ z = << >>
    PROVE  Near(words)
<1> DEFINE p == Len(r)
           q == Len(y)
<1>1. p \in Nat /\ q \in Nat /\ q <= 2
    OBVIOUS
<1>2. \A k \in 1..q : y[k] = "1"
    OBVIOUS
<1>4. /\ Len(sent) = 1 + p + q
      /\ \A k \in 1..p : sent[1 + k] = r[k]
      /\ \A k \in 1..q : sent[1 + p + k] = y[k]
    BY DEF Shape
<1>5. /\ Len(words) = 1 + p + Len(z) /\ Len(z) \in Nat
      /\ \A k \in 1..p : words[1 + k] = r[k]
    BY DEF Shape
<1>6. q = 0 \/ Len(z) = 0
    OBVIOUS
<1> HIDE DEF p, q
<1> SUFFICES ASSUME Len(sent) >= 4, NEW k \in 2..4
             PROVE  IF k <= Len(words) THEN sent[k] = words[k] ELSE k > 2 /\ sent[k] = "1"
    BY DEF Near
<1>7. CASE k <= 1 + p
    <2>1. k - 1 \in 1..p /\ 1 + (k - 1) = k /\ k <= Len(words)
        BY <1>1, <1>5, <1>7
    <2>2. sent[1 + (k - 1)] = r[k - 1] /\ words[1 + (k - 1)] = r[k - 1]
        BY <1>4, <1>5, <2>1
    <2> QED
        BY <2>1, <2>2
<1>8. CASE k > 1 + p
    <2>1. k <= 1 + p + q
        BY <1>1, <1>4
    <2>2. q # 0
        BY <1>1, <1>8, <2>1
    <2>3. Len(words) = 1 + p
        BY <1>1, <1>5, <1>6, <2>2
    <2>4. k - 1 - p \in 1..q /\ 1 + p + (k - 1 - p) = k /\ ~(k <= Len(words))
        BY <1>1, <1>8, <2>1, <2>3
    <2>5. p >= 1
        BY <1>1, <1>4
    <2>6. sent[1 + p + (k - 1 - p)] = "1"
        BY <1>2, <1>4, <2>4
    <2>7. k > 2
        BY <1>1, <1>8, <2>5
    <2> QED
        BY <2>4, <2>6, <2>7
<1> QED
    BY <1>1, <1>7, <1>8

LEMMA AlikeJoined ==
    ASSUME NEW v \in STRING, NEW a \in STRING, NEW r \in Seq(STRING),
           NEW z \in Seq(STRING), NEW words,
           Shape(sent, v, r, << >>), Shape(words, a, r, z)
    PROVE  Alike(words)
<1> DEFINE p == Len(r)
<1>2. Len(sent) = 1 + p /\ p \in Nat
    <2>1. Len(sent) = 1 + p + Len(<< >>) /\ p \in Nat
        BY DEF Shape
    <2> HIDE DEF p
    <2> QED
        BY <2>1, EmptyWords
<1>3. \A k \in 1..p : sent[1 + k] = r[k] /\ words[1 + k] = r[k]
    BY DEF Shape
<1>4. Len(words) = 1 + p + Len(z) /\ Len(z) \in Nat
    BY DEF Shape
<1> HIDE DEF p
<1>5. ASSUME NEW k \in 2..7, k <= Len(sent)
      PROVE  k <= Len(words) /\ sent[k] = words[k]
    <2>1. k - 1 \in 1..p /\ 1 + (k - 1) = k
        BY <1>2, <1>5
    <2>2. k <= Len(words)
        BY <1>2, <1>4, <1>5
    <2>3. sent[1 + (k - 1)] = words[1 + (k - 1)]
        BY <1>3, <2>1
    <2> QED
        BY <2>1, <2>2, <2>3
<1> QED
    BY <1>5 DEF Alike

\* A put whose words getopt has not moved.
LEMMA PutAlike ==
    ASSUME typed \in Seq(STRING), NEW n \in Nat, Len(typed) = n, n >= 1,
           typed[1] \notin DOMAIN Pieces, Unmoved,
           NEW verb \in Verbs, NEW c \in {5, 6}, sent = Split(<<verb>> \o Arguments(c))
    PROVE  /\ sent \in Seq(STRING) /\ Len(sent) >= 1 /\ sent[1] = verb
           /\ Split(typed) \in Seq(STRING) /\ Len(Split(typed)) >= 1
           /\ Split(typed)[1] = typed[1] /\ Alike(Split(typed))
<1> DEFINE m == IF n <= c THEN n ELSE c + 1
           a == typed[1]
           b == SubSeq(typed, 2, m)
           r == Split(b)
<1>1. m \in 1..n /\ a \in STRING
    OBVIOUS
<1>2. Arguments(c) = b
    BY DEF Arguments, Unmoved
<1> HIDE DEF m
<1>3. b \in Seq(STRING)
    <2>1. m \in 2 - 1..Len(typed) /\ 2 \in 1..Len(typed) + 1
        BY <1>1
    <2> QED
        BY <2>1, SubSeqIs
<1>4. PICK z \in Seq(STRING) : Split(typed) = (<<a>> \o r) \o z
    BY <1>1, TypedSplit
<1>5. r \in Seq(STRING)
    BY <1>3, SplitType
<1>6. verb \in STRING /\ verb \notin DOMAIN Pieces
    BY NotCut
<1>7. sent = <<verb>> \o r
    BY <1>2, <1>3, <1>6, SplitFirst
<1> HIDE DEF r, b
<1>8. <<verb>> \in Seq(STRING)
    BY <1>6, OneWord
<1>9. sent = Joined(verb, r, << >>)
    <2>1. <<verb>> \o r \in Seq(STRING)
        BY <1>5, <1>8, ConcatIs
    <2>2. (<<verb>> \o r) \o << >> = <<verb>> \o r
        BY <2>1, ConcatEmptySeq
    <2> QED
        BY <1>7, <2>2 DEF Joined
<1>10. Split(typed) = Joined(a, r, z)
    BY <1>4 DEF Joined
<1> HIDE DEF a
<1>12. Shape(Split(typed), a, r, z) /\ Shape(sent, verb, r, << >>)
    BY <1>1, <1>5, <1>6, <1>9, <1>10, EmptyWords, JoinedShape, Zenon
<1>11. Alike(Split(typed))
    BY <1>1, <1>5, <1>6, <1>12, AlikeJoined
<1>13. /\ Split(typed) \in Seq(STRING) /\ Split(typed)[1] = a
       /\ sent \in Seq(STRING) /\ sent[1] = verb
    BY <1>12 DEF Shape
<1>14. Len(Split(typed)) >= 1 /\ Len(sent) >= 1
    <2>1. /\ Len(Split(typed)) = 1 + Len(r) + Len(z) /\ Len(sent) = 1 + Len(r) + 0
          /\ Len(r) \in Nat /\ Len(z) \in Nat
        BY <1>12, EmptyWords DEF Shape
    <2> HIDE DEF Unmoved
    <2> QED
        BY <2>1
<1> QED
    BY <1>11, <1>13, <1>14 DEF a

LEMMA FourOf ==
    ASSUME NEW S, NEW v \in S, NEW a \in S, NEW b \in S, NEW c \in S
    PROVE  <<v, a, b, c>> \in Seq(S)
OBVIOUS

LEMMA FourWords ==
    ASSUME NEW v \in STRING, NEW a \in STRING, NEW b \in STRING, NEW c \in STRING
    PROVE  /\ <<v, a, b, c>> \in Seq(STRING) /\ Len(<<v, a, b, c>>) = 4
           /\ <<v, a, b, c>>[1] = v /\ <<v, a, b, c>>[2] = a
           /\ <<v, a, b, c>>[3] = b /\ <<v, a, b, c>>[4] = c
<1> DEFINE l == <<v, a, b, c>>
<1>1. l \in Seq(STRING)
    BY FourOf, Zenon
<1>2. Len(l) = 4
    OBVIOUS
<1>3. l[1] = v /\ l[2] = a
    OBVIOUS
<1>4. l[3] = b /\ l[4] = c
    OBVIOUS
<1> QED
    BY <1>1, <1>2, <1>3, <1>4

Ones(k) == IF k = 2 THEN <<"1", "1">> ELSE IF k = 3 THEN <<"1">> ELSE << >>

LEMMA OnesIs ==
    ASSUME NEW k \in 2..4
    PROVE  /\ Ones(k) \in Seq(STRING) /\ Len(Ones(k)) = 4 - k
           /\ \A i \in 1..4 - k : Ones(k)[i] = "1"
<1>1. "1" \in STRING
    BY LineAssumption
<1>2. CASE k = 2
    BY <1>1, <1>2 DEF Ones
<1>3. CASE k = 3
    BY <1>1, <1>3 DEF Ones
<1>4. CASE k = 4
    BY <1>1, <1>4 DEF Ones
<1> QED
    BY <1>2, <1>3, <1>4

\* A lookup whose words getopt has not moved.
LEMMA LookupNear ==
    ASSUME typed \in Seq(STRING), NEW n \in Nat, Len(typed) = n, n >= 2,
           typed[1] \notin DOMAIN Pieces, Unmoved,
           NEW verb \in Verbs, sent = Split(Lookup(verb))
    PROVE  /\ sent \in Seq(STRING) /\ Len(sent) >= 1 /\ sent[1] = verb
           /\ Split(typed) \in Seq(STRING) /\ Len(Split(typed)) >= 1
           /\ Split(typed)[1] = typed[1] /\ Near(Split(typed))
<1> DEFINE m == IF n > 4 THEN 4 ELSE n
           a == typed[1]
           b == SubSeq(typed, 2, m)
           r == Split(b)
           y == Ones(m)
           l == Lookup(verb)
<1>1. m \in 1..n /\ m \in 2..4 /\ a \in STRING /\ (m = n \/ m = 4)
    OBVIOUS
<1>2. l = <<verb, typed[2], IF 3 <= n THEN typed[3] ELSE "1",
            IF 4 <= n THEN typed[4] ELSE "1">>
    BY DEF Lookup, Given, Unmoved
<1>3. typed[2] \in STRING /\ \A k \in 1..n : typed[k] \in STRING
    OBVIOUS
<1>4. verb \in STRING /\ verb \notin DOMAIN Pieces /\ "1" \in STRING /\ "1" \notin DOMAIN Pieces
    BY NotCut, LineAssumption
<1>5. /\ 3 <= n <=> 3 <= m
      /\ 4 <= n <=> 4 <= m
    OBVIOUS
<1> HIDE DEF m
<1>6. /\ b \in Seq(STRING) /\ Len(b) = m - 1
      /\ \A k \in 1..m - 1 : b[k] = typed[2 + k - 1]
    <2>1. m \in 2 - 1..Len(typed) /\ 2 \in 1..Len(typed) + 1 /\ m - 2 + 1 = m - 1
        BY <1>1
    <2> QED
        BY <2>1, SubSeqIs
<1>7. /\ y \in Seq(STRING) /\ Len(y) = 4 - m /\ \A k \in 1..4 - m : y[k] = "1"
    BY <1>1, OnesIs
<1>8. PICK z \in Seq(STRING) : /\ Split(typed) = (<<a>> \o r) \o z
                               /\ m = n => z = << >>
    BY <1>1, TypedSplit
<1>9. r \in Seq(STRING)
    BY <1>6, SplitType
<1>10. /\ l \in Seq(STRING) /\ Len(l) = 4 /\ l[1] = verb /\ l[2] = typed[2]
       /\ l[3] = IF 3 <= n THEN typed[3] ELSE "1"
       /\ l[4] = IF 4 <= n THEN typed[4] ELSE "1"
    <2> DEFINE p == typed[2]
               q == IF 3 <= n THEN typed[3] ELSE "1"
               u == IF 4 <= n THEN typed[4] ELSE "1"
    <2>1. p \in STRING /\ q \in STRING /\ u \in STRING
        BY <1>3, <1>4
    <2>2. l = <<verb, p, q, u>>
        BY <1>2
    <2> HIDE DEF l, p, q, u
    <2>3. /\ l \in Seq(STRING) /\ Len(l) = 4 /\ l[1] = verb /\ l[2] = p
          /\ l[3] = q /\ l[4] = u
        BY <1>4, <2>1, <2>2, FourWords
    <2> QED
        BY <2>3 DEF p, q, u
<1> HIDE DEF l, b, y
<1>11. l = Joined(verb, b, y)
    <2>1. Len(l) = 1 + Len(b) + Len(y)
        BY <1>1, <1>6, <1>7, <1>10
    <2>2. ASSUME NEW k \in 1..Len(b) PROVE l[1 + k] = b[k]
        <3>1. k \in 1..m - 1 /\ 2 + k - 1 = 1 + k /\ 1 + k <= m /\ 1 + k \in {2, 3, 4}
            BY <1>1, <1>6
        <3>2. b[k] = typed[1 + k]
            BY <1>6, <3>1
        <3>3. l[1 + k] = typed[1 + k]
            BY <1>5, <1>10, <3>1
        <3> QED
            BY <3>2, <3>3
    <2>3. ASSUME NEW k \in 1..Len(y) PROVE l[1 + Len(b) + k] = y[k]
        <3>1. /\ k \in 1..4 - m /\ 1 + Len(b) + k = m + k /\ m + k \in {3, 4}
              /\ ~(m + k <= m)
            BY <1>1, <1>6, <1>7
        <3>2. y[k] = "1"
            BY <1>7, <3>1
        <3>3. m + k = 3 => ~(3 <= n)
            BY <1>5, <3>1
        <3>4. m + k = 4 => ~(4 <= n)
            BY <1>5, <3>1
        <3>5. l[m + k] = "1"
            BY <1>10, <3>1, <3>3, <3>4
        <3> QED
            BY <3>1, <3>2, <3>5
    <2> QED
        BY <1>4, <1>6, <1>7, <1>10, <2>1, <2>2, <2>3, JoinedEquals
<1>12. Split(y) = y
    <2>1. \A k \in 1..Len(y) : y[k] \notin DOMAIN Pieces
        BY <1>4, <1>7
    <2> QED
        BY <1>7, <2>1, SplitWhole
<1>13. sent = Joined(verb, r, y)
    <2>1. Split(l) = Joined(verb, Split(b), Split(y))
        BY <1>4, <1>6, <1>7, <1>11, SplitJoined
    <2> QED
        BY <1>12, <2>1 DEF l
<1>14. Split(typed) = Joined(a, r, z)
    BY <1>8 DEF Joined
<1> HIDE DEF a, r
<1>15. Shape(Split(typed), a, r, z) /\ Shape(sent, verb, r, y)
    BY <1>1, <1>4, <1>7, <1>9, <1>13, <1>14, JoinedShape, Zenon
<1>16. Near(Split(typed))
    <2>1. Len(y) <= 2 /\ \A k \in 1..Len(y) : y[k] = "1"
        BY <1>1, <1>7
    <2>2. Len(y) = 0 \/ z = << >>
        BY <1>1, <1>7, <1>8
    <2> QED
        BY <1>1, <1>4, <1>7, <1>9, <1>15, <2>1, <2>2, NearJoined
<1>17. /\ Split(typed) \in Seq(STRING) /\ Split(typed)[1] = a
       /\ sent \in Seq(STRING) /\ sent[1] = verb
    BY <1>15 DEF Shape
<1>18. Len(Split(typed)) >= 1 /\ Len(sent) >= 1
    <2>1. /\ Len(Split(typed)) = 1 + Len(r) + Len(z) /\ Len(sent) = 1 + Len(r) + Len(y)
          /\ Len(r) \in Nat /\ Len(z) \in Nat /\ Len(y) \in Nat
        BY <1>15 DEF Shape
    <2> QED
        BY <2>1
<1> QED
    BY <1>16, <1>17, <1>18 DEF a
-----------------------------------------------------------------------------
\* What the daemon makes of a line by its verb, if it takes it at all.
LEMMA ParsedPut ==
    ASSUME Word(1) = "PUT", Daemon!Parse(Line) # Daemon!Throw
    PROVE  /\ Key # Garbage /\ Word(7) \in {"0", "1"}
           /\ Num(6) # Garbage /\ Num(6) \in (-IntMax - 1)..IntMax
           /\ Daemon!Parse(Line) =
                 [type |-> "PUT_POSITIVE", key |-> Key,
                  entry |-> [data |-> Word(5), expiration_time |-> 0 + Num(6)]]
<1> DEFINE t == IF Word(7) \in {"0", "1"} THEN Num(6) ELSE Garbage
<1>1. Line = [verb |-> "PUT", key |-> Key, data |-> Word(5), ttl |-> t]
    BY DEF Line
<1>2. /\ Line.verb = "PUT" /\ Line.key = Key /\ Line.data = Word(5) /\ Line.ttl = t
    BY <1>1
<1>3. Daemon!Parse(Line) = Daemon!ParsePut(Line)
    BY <1>2 DEF Daemon!Parse
<1>4. Daemon!Stores(Line)
    BY <1>3 DEF Daemon!ParsePut
<1>5. Key # Garbage /\ t # Garbage /\ t \in (-IntMax - 1)..IntMax
    BY <1>2, <1>4 DEF Daemon!Stores, Daemon!IsInt
<1>6. Daemon!ParsePut(Line) =
          [type |-> "PUT_POSITIVE", key |-> Key,
           entry |-> [data |-> Word(5), expiration_time |-> 0 + t]]
    BY <1>2, <1>4 DEF Daemon!ParsePut, Daemon!Lasting
<1>7. Word(7) \in {"0", "1"} /\ t = Num(6)
    BY <1>5
<1> QED
    BY <1>3, <1>5, <1>6, <1>7

LEMMA ParsedPutNegative ==
    ASSUME Word(1) = "PUT_NEGATIVE", Daemon!Parse(Line) # Daemon!Throw
    PROVE  /\ Key # Garbage
           /\ Num(6) # Garbage /\ Num(6) \in (-IntMax - 1)..IntMax
           /\ Daemon!Parse(Line) =
                 [type |-> "PUT_NEGATIVE", key |-> Key,
                  entry |-> [data |-> IF Word(5) = "NXDOMAIN" THEN "NXDOMAIN" ELSE "NODATA",
                             expiration_time |-> 0 + Num(6)]]
<1>1. Line = [verb |-> "PUT_NEGATIVE", key |-> Key, data |-> Word(5), ttl |-> Num(6)]
    BY DEF Line
<1>2. /\ Line.verb = "PUT_NEGATIVE" /\ Line.key = Key /\ Line.data = Word(5)
      /\ Line.ttl = Num(6)
    BY <1>1
<1>3. Daemon!Parse(Line) = Daemon!ParsePutNegative(Line)
    BY <1>2 DEF Daemon!Parse
<1>4. Daemon!Stores(Line)
    BY <1>3 DEF Daemon!ParsePutNegative
<1>5. Key # Garbage /\ Num(6) # Garbage /\ Num(6) \in (-IntMax - 1)..IntMax
    BY <1>2, <1>4 DEF Daemon!Stores, Daemon!IsInt
<1>6. Daemon!ParsePutNegative(Line) =
          [type |-> "PUT_NEGATIVE", key |-> Key,
           entry |-> [data |-> IF Word(5) = "NXDOMAIN" THEN "NXDOMAIN" ELSE "NODATA",
                      expiration_time |-> 0 + Num(6)]]
    BY <1>2, <1>4 DEF Daemon!ParsePutNegative, Daemon!Lasting
<1> QED
    BY <1>3, <1>5, <1>6

LEMMA ParsedGet ==
    ASSUME Word(1) \in {"GET", "GET_NEGATIVE"}
    PROVE  LET type == IF Word(1) = "GET" THEN "GET_POSITIVE" ELSE "GET_NEGATIVE"
           IN  Daemon!Parse(Line) = IF Key # Garbage THEN [type |-> type, key |-> Key]
                                    ELSE Daemon!Throw
<1>1. Line = [verb |-> Word(1), key |-> Key]
    BY DEF Line
<1>2. Line.verb = Word(1) /\ Line.key = Key
    BY <1>1
<1>3. CASE Word(1) = "GET"
    <2>1. Daemon!Parse(Line) = Daemon!ParseGet(Line, "GET_POSITIVE")
        BY <1>2, <1>3 DEF Daemon!Parse
    <2> QED
        BY <1>2, <1>3, <2>1 DEF Daemon!ParseGet
<1>4. CASE Word(1) = "GET_NEGATIVE"
    <2>1. Daemon!Parse(Line) = Daemon!ParseGet(Line, "GET_NEGATIVE")
        BY <1>2, <1>4 DEF Daemon!Parse
    <2> QED
        BY <1>2, <1>4, <2>1 DEF Daemon!ParseGet
<1> QED
    BY <1>3, <1>4

LEMMA ParsedSet ==
    ASSUME Word(1) = "SET"
    PROVE  Daemon!Parse(Line) =
               IF Num(3) # Garbage /\ Num(3) \in (1 - SizeModulus)..(SizeModulus - 1)
               THEN [type |-> "SET_MAX_SIZE", size |-> Num(3) % SizeModulus,
                     is_positive |-> Word(2) = "POSITIVE"]
               ELSE Daemon!Throw
<1>1. Line = [verb |-> "SET", target |-> Word(2), size |-> Num(3)]
    BY DEF Line
<1>2. Line.verb = "SET" /\ Line.target = Word(2) /\ Line.size = Num(3)
    BY <1>1
<1>3. Daemon!Parse(Line) = Daemon!ParseSet(Line)
    BY <1>2 DEF Daemon!Parse
<1> QED
    BY <1>2, <1>3 DEF Daemon!ParseSet, Daemon!IsSize, Daemon!ToSize

LEMMA ParsedBare ==
    /\ Word(1) \in {"STATUS", "SHUTDOWN"} => Daemon!Parse(Line) = [type |-> Word(1)]
    /\ Word(1) \in {"PURGE", "LIST"} =>
          Daemon!Parse(Line) =
             [type |-> Word(1), target |-> Daemon!StringToTarget(Word(2))]
<1>1. ASSUME Word(1) \in {"STATUS", "SHUTDOWN"} PROVE Daemon!Parse(Line) = [type |-> Word(1)]
    <2>1. Line = [verb |-> Word(1)]
        BY <1>1 DEF Line
    <2>2. Line.verb = Word(1)
        BY <2>1
    <2> QED
        BY <1>1, <2>2 DEF Daemon!Parse
<1>2. ASSUME Word(1) \in {"PURGE", "LIST"}
      PROVE  Daemon!Parse(Line) =
                [type |-> Word(1), target |-> Daemon!StringToTarget(Word(2))]
    <2>1. Line = [verb |-> Word(1), target |-> Word(2)]
        BY <1>2 DEF Line
    <2>2. Line.verb = Word(1) /\ Line.target = Word(2)
        BY <2>1
    <2>3. Daemon!Parse(Line) = Daemon!ParseTargeted(Line, Line.verb)
        BY <1>2, <2>2 DEF Daemon!Parse
    <2> QED
        BY <2>2, <2>3 DEF Daemon!ParseTargeted
<1> QED
    BY <1>1, <1>2

\* The numbers of the line are words of the line that spell them.
LEMMA NumRead ==
    ASSUME sent \in Seq(STRING), NEW k \in 1..7, Num(k) # Garbage
    PROVE  /\ k <= Len(sent) /\ Word(k) = sent[k] /\ sent[k] \in DOMAIN Number
           /\ Num(k) = Number[sent[k]] /\ Num(k) \in Int
<1>1. Word(k) \in DOMAIN Number /\ Num(k) = Number[Word(k)]
    BY DEF Num
<1>2. Word(k) \in STRING /\ Number[Word(k)] \in Int
    BY <1>1, LineAssumption
<1>3. Word(k) # Garbage
    BY <1>2, LineAssumption
<1>4. k <= Len(sent) /\ Word(k) = sent[k]
    BY <1>3 DEF Word
<1> QED
    BY <1>1, <1>2, <1>4

Wrapped(n) == n % 65536

LEMMA NumUint16 ==
    ASSUME sent \in Seq(STRING), NEW k \in {3, 4}, IsUint16(Num(k))
    PROVE  /\ k <= Len(sent) /\ sent[k] \in DOMAIN Number
           /\ Num(k) = Number[sent[k]] /\ IsUint16(Number[sent[k]])
<1>1. Num(k) # Garbage
    BY DEF IsUint16
<1>2. k \in 1..7
    OBVIOUS
<1>3. k <= Len(sent) /\ sent[k] \in DOMAIN Number /\ Num(k) = Number[sent[k]]
    BY <1>1, <1>2, NumRead
<1> QED
    BY <1>3

LEMMA KeyRead ==
    ASSUME sent \in Seq(STRING), Key # Garbage
    PROVE  /\ Len(sent) >= 4
           /\ sent[3] \in DOMAIN Number /\ IsUint16(Number[sent[3]])
           /\ sent[4] \in DOMAIN Number /\ IsUint16(Number[sent[4]])
           /\ Key = <<sent[2], Wrapped(Number[sent[3]]), Wrapped(Number[sent[4]])>>
<1>1. /\ IsUint16(Num(3)) /\ IsUint16(Num(4))
      /\ Key = <<Word(2), Wrapped(Num(3)), Wrapped(Num(4))>>
    BY DEF Key, Wrapped
<1>2. /\ 3 <= Len(sent) /\ sent[3] \in DOMAIN Number
      /\ Num(3) = Number[sent[3]] /\ IsUint16(Number[sent[3]])
    BY <1>1, NumUint16
<1>3. /\ 4 <= Len(sent) /\ sent[4] \in DOMAIN Number
      /\ Num(4) = Number[sent[4]] /\ IsUint16(Number[sent[4]])
    BY <1>1, NumUint16
<1>4. Len(sent) \in Nat
    OBVIOUS
<1>5. Word(2) = sent[2]
    <2>1. 2 <= Len(sent)
        BY <1>3, <1>4
    <2> QED
        BY <2>1 DEF Word
<1>6. Len(sent) >= 4
    BY <1>3, <1>4
<1> QED
    BY <1>1, <1>2, <1>3, <1>5, <1>6

LEMMA UnsignedIs ==
    ASSUME NEW w \in DOMAIN Number, IsUint16(Number[w])
    PROVE  UnsignedOf(w, 65536) = Wrapped(Number[w])
BY DEF IsUint16, UnsignedOf, Wrapped

LEMMA OneWrapped == Wrapped(Number["1"]) = 1
<1>1. Number["1"] = 1
    BY LineAssumption
<1>2. 1 % 65536 = 1
    OBVIOUS
<1> QED
    BY <1>1, <1>2 DEF Wrapped

LEMMA KeyNear ==
    ASSUME sent \in Seq(STRING), Key # Garbage,
           NEW words \in Seq(STRING), Near(words)
    PROVE  Key = KeyOf(words)
<1> DEFINE n == Len(words)
<1>1. /\ Len(sent) >= 4
      /\ sent[3] \in DOMAIN Number /\ IsUint16(Number[sent[3]])
      /\ sent[4] \in DOMAIN Number /\ IsUint16(Number[sent[4]])
      /\ Key = <<sent[2], Wrapped(Number[sent[3]]), Wrapped(Number[sent[4]])>>
    BY KeyRead
<1>2. n \in Nat
    OBVIOUS
<1>3. \A k \in 2..4 : IF k <= n THEN sent[k] = words[k] ELSE k > 2 /\ sent[k] = "1"
    BY <1>1 DEF Near
<1>4. KeyOf(words) =
          <<words[2], IF n > 2 THEN UnsignedOf(words[3], 65536) ELSE 1,
                      IF n > 3 THEN UnsignedOf(words[4], 65536) ELSE 1>>
    BY DEF KeyOf
<1> HIDE DEF n
<1>5. /\ IF 2 <= n THEN sent[2] = words[2] ELSE 2 > 2 /\ sent[2] = "1"
      /\ IF 3 <= n THEN sent[3] = words[3] ELSE 3 > 2 /\ sent[3] = "1"
      /\ IF 4 <= n THEN sent[4] = words[4] ELSE 4 > 2 /\ sent[4] = "1"
    <2>1. 2 \in 2..4 /\ 3 \in 2..4 /\ 4 \in 2..4
        OBVIOUS
    <2> QED
        BY <1>3, <2>1
<1>6. /\ sent[2] = words[2]
      /\ n > 2 => sent[3] = words[3]
      /\ ~(n > 2) => sent[3] = "1"
      /\ n > 3 => sent[4] = words[4]
      /\ ~(n > 3) => sent[4] = "1"
    <2>1. ~(2 > 2) /\ (n > 2 <=> 3 <= n) /\ (n > 3 <=> 4 <= n)
        BY <1>2
    <2> QED
        BY <1>5, <2>1
<1>7. Wrapped(Number[sent[3]]) = IF n > 2 THEN UnsignedOf(words[3], 65536) ELSE 1
    <2>1. CASE n > 2
        <3>1. UnsignedOf(sent[3], 65536) = Wrapped(Number[sent[3]])
            BY <1>1, UnsignedIs
        <3> QED
            BY <1>6, <2>1, <3>1
    <2>2. CASE ~(n > 2)
        BY <1>6, <2>2, OneWrapped
    <2> QED
        BY <2>1, <2>2
<1>8. Wrapped(Number[sent[4]]) = IF n > 3 THEN UnsignedOf(words[4], 65536) ELSE 1
    <2>1. CASE n > 3
        <3>1. UnsignedOf(sent[4], 65536) = Wrapped(Number[sent[4]])
            BY <1>1, UnsignedIs
        <3> QED
            BY <1>6, <2>1, <3>1
    <2>2. CASE ~(n > 3)
        BY <1>6, <2>2, OneWrapped
    <2> QED
        BY <2>1, <2>2
<1> QED
    BY <1>1, <1>4, <1>6, <1>7, <1>8

LEMMA AlikeNear ==
    ASSUME NEW words, Alike(words), Len(sent) \in Nat
    PROVE  Near(words)
<1> SUFFICES ASSUME Len(sent) >= 4, NEW k \in 2..4
             PROVE  k <= Len(words) /\ sent[k] = words[k]
    BY DEF Near
<1>1. k \in 2..7 /\ k <= Len(sent)
    OBVIOUS
<1> QED
    BY <1>1 DEF Alike
-----------------------------------------------------------------------------
LEMMA ThreeOf ==
    ASSUME NEW S, NEW v \in S, NEW a \in S, NEW b \in S
    PROVE  <<v, a, b>> \in Seq(S)
OBVIOUS

LEMMA TwoOf ==
    ASSUME NEW S, NEW v \in S, NEW a \in S
    PROVE  <<v, a>> \in Seq(S)
OBVIOUS

LEMMA ThreeJoined ==
    \A v, u, a \in STRING : <<v, u, a>> = Joined(v, <<u>>, <<a>>)
<1> TAKE v, u, a \in STRING
<1> DEFINE l == <<v, u, a>>
           b == <<u>>
           c == <<a>>
<1>1. l \in Seq(STRING)
    BY ThreeOf, Zenon
<1>2. Len(l) = 3 /\ l[1] = v /\ l[2] = u /\ l[3] = a
    OBVIOUS
<1>3. /\ b \in Seq(STRING) /\ Len(b) = 1 /\ b[1] = u
      /\ c \in Seq(STRING) /\ Len(c) = 1 /\ c[1] = a
    BY OneWord
<1>4. l = Joined(v, b, c)
    <2> HIDE DEF l, b, c
    <2>1. Len(l) = 1 + Len(b) + Len(c)
        BY <1>2, <1>3
    <2>2. \A k \in 1..Len(b) : l[1 + k] = b[k]
        <3>1. \A k \in 1..1 : k = 1 /\ 1 + 1 = 2
            OBVIOUS
        <3> QED
            BY <1>2, <1>3, <3>1
    <2>3. \A k \in 1..Len(c) : l[1 + Len(b) + k] = c[k]
        <3>1. \A k \in 1..1 : k = 1 /\ 1 + 1 + 1 = 3
            OBVIOUS
        <3> QED
            BY <1>2, <1>3, <3>1
    <2> QED
        BY <1>1, <1>2, <1>3, <2>1, <2>2, <2>3, JoinedEquals
<1> QED
    BY <1>4

\* What the program writes itself is not cut.
LEMMA VerbsSplit ==
    \A v, w \in Verbs : Split(<<v>>) = <<v>> /\ Split(<<v, w>>) = <<v, w>>
<1> TAKE v, w \in Verbs
<1>1. /\ v \in STRING /\ v \notin DOMAIN Pieces /\ w \in STRING /\ w \notin DOMAIN Pieces
    BY NotCut
<1> DEFINE l == <<v>>
           b == <<v, w>>
<1>2. l \in Seq(STRING) /\ Len(l) = 1 /\ l[1] = v
    BY <1>1, OneWord
<1>3. b \in Seq(STRING)
    BY <1>1, TwoOf, Zenon
<1>4. Len(b) = 2 /\ b[1] = v /\ b[2] = w
    OBVIOUS
<1> HIDE DEF l, b
<1>5. \A k \in 1..Len(l) : l[k] \notin DOMAIN Pieces
    <2>1. \A k \in 1..1 : k = 1
        OBVIOUS
    <2> QED
        BY <1>1, <1>2, <2>1
<1>6. \A k \in 1..Len(b) : b[k] \notin DOMAIN Pieces
    <2>1. \A k \in 1..2 : k = 1 \/ k = 2
        OBVIOUS
    <2> QED
        BY <1>1, <1>4, <2>1
<1>7. Split(l) = l
    BY <1>2, <1>5, SplitWhole
<1>8. Split(b) = b
    BY <1>3, <1>6, SplitWhole
<1> QED
    BY <1>7, <1>8 DEF l, b

\* The words typed, cut, begin with the command.
LEMMA TypedFirst ==
    ASSUME typed \in Seq(STRING), NEW n \in Nat, Len(typed) = n, n >= 1,
           typed[1] \notin DOMAIN Pieces
    PROVE  Split(typed) \in Seq(STRING) /\ Len(Split(typed)) >= 1 /\ Split(typed)[1] = typed[1]
<1> DEFINE a == typed[1]
           r == Split(SubSeq(typed, 2, n))
<1>1. n \in 1..n /\ a \in STRING
    OBVIOUS
<1>2. r \in Seq(STRING)
    BY <1>1, TypedSplit
<1>3. PICK z \in Seq(STRING) : Split(typed) = (<<a>> \o r) \o z
    BY <1>1, TypedSplit
<1> HIDE DEF a, r
<1>4. Shape(Split(typed), a, r, z)
    <2>1. Split(typed) = Joined(a, r, z)
        BY <1>3 DEF Joined
    <2> QED
        BY <1>1, <1>2, <2>1, JoinedShape, Zenon
<1>5. Split(typed) \in Seq(STRING) /\ Split(typed)[1] = a
    BY <1>4 DEF Shape
<1>6. Len(Split(typed)) >= 1
    <2>1. Len(Split(typed)) = 1 + Len(r) + Len(z) /\ Len(r) \in Nat /\ Len(z) \in Nat
        BY <1>4 DEF Shape
    <2> QED
        BY <2>1
<1> QED
    BY <1>5, <1>6 DEF a

LEMMA SetLine ==
    ASSUME typed \in Seq(STRING), NEW n \in Nat, Len(typed) = n, n >= 2,
           typed[1] \notin DOMAIN Pieces, argv[2] = typed[2],
           NEW u \in Verbs, sent = Split(<<"SET", u, argv[2]>>)
    PROVE  /\ sent \in Seq(STRING) /\ Len(sent) >= 2 /\ sent[1] = "SET" /\ sent[2] = u
           /\ Len(sent) >= 3 => Len(Split(typed)) >= 2 /\ Split(typed)[2] = sent[3]
<1> DEFINE a == typed[1]
           w == typed[2]
           p == Parts(w)
           l == <<u>>
           e == SubSeq(typed, 2, 2)
<1>1. /\ a \in STRING /\ w \in STRING /\ 2 \in 1..n /\ 2 \in 1..Len(typed) + 1
      /\ 2 \in 2 - 1..Len(typed)
    OBVIOUS
<1>2. u \in STRING /\ u \notin DOMAIN Pieces /\ "SET" \in STRING /\ "SET" \notin DOMAIN Pieces
    <2>1. "SET" \in Verbs
        BY DEF Verbs
    <2> QED
        BY <2>1, NotCut
<1>3. p \in Seq(STRING) /\ Split(<<w>>) = p
    BY <1>1, PartsType, SplitOne
<1>4. e = <<w>>
    <2>1. e \in Seq(STRING) /\ Len(e) = 2 - 2 + 1 /\ \A k \in 1..2 - 2 + 1 : e[k] = typed[2 + k - 1]
        BY <1>1, SubSeqIs
    <2>2. <<w>> \in Seq(STRING) /\ Len(<<w>>) = 1 /\ <<w>>[1] = w
        BY <1>1, OneWord
    <2> DEFINE o == <<w>>
    <2>3. e \in Seq(STRING) /\ Len(e) = 1 /\ e[1] = w
        <3>1. 1 \in 1..2 - 2 + 1 /\ 2 + 1 - 1 = 2 /\ 2 - 2 + 1 = 1
            OBVIOUS
        <3>2. e[1] = typed[2 + 1 - 1]
            BY <2>1, <3>1
        <3> QED
            BY <2>1, <3>1, <3>2
    <2>4. o \in Seq(STRING) /\ Len(o) = 1 /\ o[1] = w
        BY <2>2
    <2> HIDE DEF e, o
    <2>5. \A k \in 1..1 : e[k] = o[k]
        <3>1. \A k \in 1..1 : k = 1
            OBVIOUS
        <3> QED
            BY <2>3, <2>4, <3>1
    <2>6. e = o
        BY <2>3, <2>4, <2>5
    <2> QED
        BY <2>6 DEF o
<1>5. PICK z \in Seq(STRING) : Split(typed) = (<<a>> \o p) \o z
    <2>1. Split(e) = p
        BY <1>3, <1>4
    <2>2. \E z \in Seq(STRING) : Split(typed) = (<<a>> \o Split(e)) \o z
        BY <1>1, TypedSplit
    <2> QED
        BY <2>1, <2>2
<1>6. l \in Seq(STRING) /\ Len(l) = 1 /\ l[1] = u /\ Split(l) = l /\ <<w>> \in Seq(STRING)
    BY <1>1, <1>2, OneWord, VerbsSplit
<1>7. sent = Joined("SET", l, p)
    <2>1. <<"SET", u, w>> = Joined("SET", l, <<w>>)
        BY <1>1, <1>2, ThreeJoined, Zenon
    <2>2. Split(Joined("SET", l, <<w>>)) = Joined("SET", Split(l), Split(<<w>>))
        BY <1>2, <1>6, SplitJoined, Zenon
    <2>3. sent = Split(<<"SET", u, w>>)
        OBVIOUS
    <2> QED
        BY <1>3, <1>6, <2>1, <2>2, <2>3
<1> HIDE DEF a, w, p, l, e
<1>8. Shape(sent, "SET", l, p) /\ Shape(Split(typed), a, p, z)
    <2>1. Split(typed) = Joined(a, p, z)
        BY <1>5 DEF Joined
    <2> QED
        BY <1>1, <1>2, <1>3, <1>6, <1>7, <2>1, JoinedShape, Zenon
<1>9. /\ sent \in Seq(STRING) /\ Len(sent) = 1 + Len(l) + Len(p) /\ Len(p) \in Nat
      /\ sent[1] = "SET"
      /\ \A k \in 1..Len(l) : sent[1 + k] = l[k]
      /\ \A k \in 1..Len(p) : sent[1 + Len(l) + k] = p[k]
    BY <1>8 DEF Shape
<1>10. /\ Len(Split(typed)) = 1 + Len(p) + Len(z) /\ Len(z) \in Nat
       /\ \A k \in 1..Len(p) : Split(typed)[1 + k] = p[k]
    BY <1>8 DEF Shape
<1>11. Len(sent) = 2 + Len(p) /\ Len(sent) >= 2
    BY <1>6, <1>9
<1>12. sent[2] = u
    <2>1. 1 \in 1..1 /\ 1 + 1 = 2
        OBVIOUS
    <2>2. sent[1 + 1] = l[1]
        BY <1>6, <1>9, <2>1
    <2> QED
        BY <1>6, <2>1, <2>2
<1>13. ASSUME Len(sent) >= 3
       PROVE  Len(Split(typed)) >= 2 /\ Split(typed)[2] = sent[3]
    <2>1. Len(p) >= 1
        BY <1>9, <1>11, <1>13
    <2>2. 1 \in 1..Len(p) /\ 1 + 1 = 2 /\ 1 + Len(l) + 1 = 3
        BY <1>6, <1>9, <2>1
    <2>3. Split(typed)[1 + 1] = p[1] /\ sent[1 + Len(l) + 1] = p[1]
        BY <1>9, <1>10, <2>2
    <2>4. Len(Split(typed)) >= 2
        BY <1>9, <1>10, <2>1
    <2> QED
        BY <2>2, <2>3, <2>4
<1> QED
    BY <1>9, <1>11, <1>12, <1>13

\* When an option of a query has come behind the argument, its name stands where the
\* line needs a number.
LEMMA PushedKey ==
    ASSUME sent[3] \in DOMAIN Field, Len(sent) \in Nat
    PROVE  Key = Garbage
<1>2. Word(3) \notin DOMAIN Number
    <2>1. Garbage \notin DOMAIN Number
        BY LineAssumption
    <2> QED
        BY <2>1, NotCut DEF Word
<1>3. Num(3) = Garbage
    BY <1>2 DEF Num
<1>4. ~IsUint16(Num(3))
    BY <1>3 DEF IsUint16
<1> QED
    BY <1>4 DEF Key

\* Without blanks the line is the words of argv.
LEMMA WholeLookup ==
    ASSUME argv \in Seq(STRING), NEW n \in Nat, Len(argv) = n, n >= 2,
           \A k \in 1..n : argv[k] \notin DOMAIN Pieces,
           NEW verb \in Verbs, sent = Split(Lookup(verb))
    PROVE  /\ sent \in Seq(STRING) /\ Len(sent) = 4 /\ sent[1] = verb
           /\ n >= 3 => sent[3] = argv[3]
<1> DEFINE p == argv[2]
           q == Given(3, "1")
           u == Given(4, "1")
           l == Lookup(verb)
<1>2. verb \in STRING /\ verb \notin DOMAIN Pieces /\ "1" \in STRING /\ "1" \notin DOMAIN Pieces
    BY NotCut, LineAssumption
<1>3. \A k \in 1..n : argv[k] \in STRING
    OBVIOUS
<1>4. p \in STRING /\ p \notin DOMAIN Pieces /\ q \in STRING /\ q \notin DOMAIN Pieces
    <2>1. 2 \in 1..n /\ (3 <= n => 3 \in 1..n)
        OBVIOUS
    <2> QED
        BY <1>2, <1>3, <2>1 DEF Given
<1>5. u \in STRING /\ u \notin DOMAIN Pieces
    <2>1. 4 <= n => 4 \in 1..n
        OBVIOUS
    <2> QED
        BY <1>2, <1>3, <2>1 DEF Given
<1>6. n >= 3 => q = argv[3]
    BY DEF Given
<1>7. l = <<verb, p, q, u>>
    BY DEF Lookup
<1> HIDE DEF l, p, q, u
<1>8. /\ l \in Seq(STRING) /\ Len(l) = 4 /\ l[1] = verb /\ l[2] = p /\ l[3] = q /\ l[4] = u
    BY <1>2, <1>4, <1>5, <1>7, FourWords
<1>9. \A k \in 1..Len(l) : l[k] \notin DOMAIN Pieces
    <2>1. \A k \in 1..4 : k = 1 \/ k = 2 \/ k = 3 \/ k = 4
        OBVIOUS
    <2> QED
        BY <1>2, <1>4, <1>5, <1>8, <2>1
<1>10. sent = l
    <2>1. Split(l) = l
        BY <1>8, <1>9, SplitWhole
    <2> QED
        BY <2>1 DEF l
<1> QED
    BY <1>6, <1>8, <1>10

LEMMA WholePut ==
    ASSUME argv \in Seq(STRING), NEW n \in Nat, Len(argv) = n, n >= 2,
           \A k \in 1..n : argv[k] \notin DOMAIN Pieces,
           NEW verb \in Verbs, NEW c \in {5, 6}, sent = Split(<<verb>> \o Arguments(c))
    PROVE  LET m == IF n <= c THEN n ELSE c + 1
           IN  /\ sent \in Seq(STRING) /\ Len(sent) = m /\ sent[1] = verb
               /\ \A k \in 2..m : sent[k] = argv[k]
<1> DEFINE m == IF n <= c THEN n ELSE c + 1
           b == SubSeq(argv, 2, m)
           o == <<verb>>
           l == o \o b
<1>2. m \in 2..n
    OBVIOUS
<1>3. Arguments(c) = b
    BY DEF Arguments
<1> HIDE DEF m
<1>4. verb \in STRING /\ verb \notin DOMAIN Pieces
    BY NotCut
<1>5. /\ b \in Seq(STRING) /\ Len(b) = m - 1
      /\ \A k \in 1..m - 1 : b[k] = argv[2 + k - 1]
    <2>1. m \in 2 - 1..Len(argv) /\ 2 \in 1..Len(argv) + 1 /\ m - 2 + 1 = m - 1
        BY <1>2
    <2> QED
        BY <2>1, SubSeqIs
<1>6. o \in Seq(STRING) /\ Len(o) = 1 /\ o[1] = verb
    BY <1>4, OneWord
<1> HIDE DEF b, o
<1>7. /\ l \in Seq(STRING) /\ Len(l) = Len(o) + Len(b)
      /\ \A k \in 1..Len(o) : l[k] = o[k]
      /\ \A k \in 1..Len(b) : l[Len(o) + k] = b[k]
    <2>1. /\ o \o b \in Seq(STRING) /\ Len(o \o b) = Len(o) + Len(b)
          /\ \A k \in 1..Len(o) : (o \o b)[k] = o[k]
          /\ \A k \in 1..Len(b) : (o \o b)[Len(o) + k] = b[k]
        BY <1>5, <1>6, ConcatIs
    <2> QED
        BY <2>1
<1>8. \A k \in 1..m - 1 : b[k] \notin DOMAIN Pieces
    <2>1. \A k \in 1..m - 1 : 2 + k - 1 \in 1..n
        BY <1>2
    <2> QED
        BY <1>5, <2>1
<1>9. sent = Split(l)
    BY <1>3 DEF o, l, b
<1> HIDE DEF l
<1>10. l[1] = verb /\ Len(l) = m
    <2>1. 1 \in 1..Len(o)
        BY <1>6
    <2> QED
        BY <1>2, <1>5, <1>6, <1>7, <2>1
<1>11. \A k \in 1..m - 1 : l[1 + k] = b[k]
    BY <1>5, <1>6, <1>7
<1>12. \A k \in 1..Len(l) : l[k] \notin DOMAIN Pieces
    <2> SUFFICES ASSUME NEW k \in 1..m PROVE l[k] \notin DOMAIN Pieces
        BY <1>10
    <2>1. CASE k = 1
        BY <1>4, <1>10, <2>1
    <2>2. CASE k # 1
        <3>1. k - 1 \in 1..m - 1 /\ 1 + (k - 1) = k
            BY <1>2, <2>2
        <3>2. l[1 + (k - 1)] = b[k - 1]
            BY <1>11, <3>1
        <3> QED
            BY <1>8, <3>1, <3>2
    <2> QED
        BY <2>1, <2>2
<1>13. sent = l
    BY <1>7, <1>9, <1>12, SplitWhole
<1>14. ASSUME NEW k \in 2..m PROVE sent[k] = argv[k]
    <2>1. k - 1 \in 1..m - 1 /\ 1 + (k - 1) = k /\ 2 + (k - 1) - 1 = k
        BY <1>2
    <2>2. l[1 + (k - 1)] = b[k - 1] /\ b[k - 1] = argv[2 + (k - 1) - 1]
        BY <1>5, <1>11, <2>1
    <2> QED
        BY <1>13, <2>1, <2>2
<1> QED
    BY <1>7, <1>10, <1>13, <1>14 DEF m

LEMMA PushedLookup ==
    ASSUME argv \in Seq(STRING), NEW n \in Nat, Len(argv) = n, Pushed,
           \A k \in 1..n : argv[k] \notin DOMAIN Pieces,
           NEW verb \in Verbs, sent = Split(Lookup(verb))
    PROVE  sent \in Seq(STRING) /\ Len(sent) >= 1 /\ sent[1] = verb /\ Key = Garbage
<1>1. n >= 3 /\ argv[3] \in DOMAIN Field /\ n >= 2
    BY DEF Pushed
<1>2. sent \in Seq(STRING) /\ Len(sent) = 4 /\ sent[1] = verb /\ sent[3] = argv[3]
    BY <1>1, WholeLookup
<1>3. Len(sent) \in Nat /\ Len(sent) >= 1
    BY <1>2
<1>4. Key = Garbage
    BY <1>1, <1>2, <1>3, PushedKey
<1> QED
    BY <1>2, <1>3, <1>4

LEMMA PushedPut ==
    ASSUME argv \in Seq(STRING), NEW n \in Nat, Len(argv) = n, Pushed,
           \A k \in 1..n : argv[k] \notin DOMAIN Pieces,
           NEW verb \in Verbs, NEW c \in {5, 6}, sent = Split(<<verb>> \o Arguments(c))
    PROVE  sent \in Seq(STRING) /\ Len(sent) >= 1 /\ sent[1] = verb /\ Key = Garbage
<1> DEFINE m == IF n <= c THEN n ELSE c + 1
<1>1. n >= 3 /\ argv[3] \in DOMAIN Field /\ n >= 2
    BY DEF Pushed
<1>2. /\ sent \in Seq(STRING) /\ Len(sent) = m /\ sent[1] = verb
      /\ \A k \in 2..m : sent[k] = argv[k]
    BY <1>1, WholePut
<1>3. m \in Nat /\ m >= 3
    BY <1>1
<1> HIDE DEF m
<1>4. sent[3] = argv[3]
    <2>1. 3 \in 2..m
        BY <1>3
    <2> QED
        BY <1>2, <2>1
<1>5. Len(sent) \in Nat /\ Len(sent) >= 1
    BY <1>2, <1>3
<1>6. Key = Garbage
    BY <1>1, <1>4, <1>5, PushedKey
<1> QED
    BY <1>2, <1>5, <1>6
-----------------------------------------------------------------------------
\* What the words mean, by the first.
LEMMA MeaningIs ==
    ASSUME NEW words
    PROVE  /\ words[1] = "--put" => Meaning(words) =
                 [type |-> "PUT_POSITIVE", key |-> KeyOf(words),
                  entry |-> [data |-> words[5], expiration_time |-> IntOf(words[6])]]
           /\ words[1] = "--put-negative" => Meaning(words) =
                 [type |-> "PUT_NEGATIVE", key |-> KeyOf(words),
                  entry |-> [data |-> IF words[5] = "NXDOMAIN" THEN "NXDOMAIN" ELSE "NODATA",
                             expiration_time |-> IntOf(words[6])]]
           /\ words[1] = "--get" => Meaning(words) =
                 [type |-> "GET_POSITIVE", key |-> KeyOf(words)]
           /\ words[1] = "--get-negative" => Meaning(words) =
                 [type |-> "GET_NEGATIVE", key |-> KeyOf(words)]
           /\ words[1] \in {"--set-positive", "--set-negative"} => Meaning(words) =
                 [type |-> "SET_MAX_SIZE", is_positive |-> words[1] = "--set-positive",
                  size |-> UnsignedOf(words[2], SizeModulus)]
BY DEF Meaning

LEMMA BareMeaning ==
    ASSUME NEW words
    PROVE  /\ words[1] = "--purge-all" => Meaning(words) = [type |-> "PURGE", target |-> "All"]
           /\ words[1] = "--purge-positive" =>
                 Meaning(words) = [type |-> "PURGE", target |-> "Positive"]
           /\ words[1] = "--purge-negative" =>
                 Meaning(words) = [type |-> "PURGE", target |-> "Negative"]
           /\ words[1] = "--list-all" => Meaning(words) = [type |-> "LIST", target |-> "All"]
           /\ words[1] = "--list-positive" =>
                 Meaning(words) = [type |-> "LIST", target |-> "Positive"]
           /\ words[1] = "--list-negative" =>
                 Meaning(words) = [type |-> "LIST", target |-> "Negative"]
           /\ words[1] = "--status" => Meaning(words) = [type |-> "STATUS"]
           /\ words[1] = "--deactivate" => Meaning(words) = [type |-> "SHUTDOWN"]
BY DEF Meaning

LEMMA BareLine ==
    \A v, u \in Verbs :
        /\ sent = Split(<<v>>) => Word(1) = v /\ sent # << >>
        /\ sent = Split(<<v, u>>) => Word(1) = v /\ Word(2) = u /\ sent # << >>
<1> TAKE v, u \in Verbs
<1>1. Split(<<v>>) = <<v>> /\ Split(<<v, u>>) = <<v, u>>
    BY VerbsSplit
<1>2. ASSUME sent = <<v>> PROVE Word(1) = v /\ sent # << >>
    BY <1>2 DEF Word
<1>3. ASSUME sent = <<v, u>> PROVE Word(1) = v /\ Word(2) = u /\ sent # << >>
    BY <1>3 DEF Word
<1> QED
    BY <1>1, <1>2, <1>3

Bare == DOMAIN Command \ {"--activate", "--put", "--put-negative", "--get", "--get-negative",
                          "--set-positive", "--set-negative"}

LEMMA BareIs ==
    ASSUME NEW w \in Bare, args.cache_command = Command[w], sent = Split(CommandWords),
           NEW words, words[1] = w
    PROVE  Daemon!Parse(Line) = Meaning(words)
<1>0. w \in {"--deactivate", "--status", "--purge-positive", "--purge-negative",
             "--purge-all", "--list-positive", "--list-negative", "--list-all"}
    BY DEF Bare, Command
<1> DEFINE c == args.cache_command
<1> HIDE DEF c
<1>1. ASSUME NEW v, NEW u, v \in {"PURGE", "LIST"}, u \in {"ALL", "POSITIVE", "NEGATIVE"},
             CommandWords = <<v, u>>
      PROVE  Daemon!Parse(Line) =
                [type |-> v, target |-> CASE u = "ALL" -> "All" [] u = "POSITIVE" -> "Positive"
                                          [] u = "NEGATIVE" -> "Negative"]
    <2>1. v \in Verbs /\ u \in Verbs
        BY <1>1 DEF Verbs
    <2>2. Word(1) = v /\ Word(2) = u
        BY <1>1, <2>1, BareLine
    <2>3. Daemon!Parse(Line) = [type |-> v, target |-> Daemon!StringToTarget(u)]
        BY <1>1, <2>2, ParsedBare
    <2> QED
        BY <1>1, <2>3 DEF Daemon!StringToTarget
<1>2. ASSUME NEW v, v \in {"STATUS", "SHUTDOWN"}, CommandWords = <<v>>
      PROVE  Daemon!Parse(Line) = [type |-> v]
    <2>1. v \in Verbs
        BY <1>2 DEF Verbs
    <2>2. Word(1) = v
        BY <1>2, <2>1, BareLine
    <2> QED
        BY <1>2, <2>2, ParsedBare
<1>3. CASE w = "--purge-all"
    <2>1. CommandWords = <<"PURGE", "ALL">>
        BY <1>3 DEF CommandWords, Command
    <2>2. Meaning(words) = [type |-> "PURGE", target |-> "All"]
        BY <1>3, BareMeaning
    <2> QED
        BY <1>1, <2>1, <2>2
<1>4. CASE w = "--purge-positive"
    <2>1. CommandWords = <<"PURGE", "POSITIVE">>
        BY <1>4 DEF CommandWords, Command
    <2>2. Meaning(words) = [type |-> "PURGE", target |-> "Positive"]
        BY <1>4, BareMeaning
    <2> QED
        BY <1>1, <2>1, <2>2
<1>5. CASE w = "--purge-negative"
    <2>1. CommandWords = <<"PURGE", "NEGATIVE">>
        BY <1>5 DEF CommandWords, Command
    <2>2. Meaning(words) = [type |-> "PURGE", target |-> "Negative"]
        BY <1>5, BareMeaning
    <2> QED
        BY <1>1, <2>1, <2>2
<1>6. CASE w = "--list-all"
    <2>1. CommandWords = <<"LIST", "ALL">>
        BY <1>6 DEF CommandWords, Command
    <2>2. Meaning(words) = [type |-> "LIST", target |-> "All"]
        BY <1>6, BareMeaning
    <2> QED
        BY <1>1, <2>1, <2>2
<1>7. CASE w = "--list-positive"
    <2>1. CommandWords = <<"LIST", "POSITIVE">>
        BY <1>7 DEF CommandWords, Command
    <2>2. Meaning(words) = [type |-> "LIST", target |-> "Positive"]
        BY <1>7, BareMeaning
    <2> QED
        BY <1>1, <2>1, <2>2
<1>8. CASE w = "--list-negative"
    <2>1. CommandWords = <<"LIST", "NEGATIVE">>
        BY <1>8 DEF CommandWords, Command
    <2>2. Meaning(words) = [type |-> "LIST", target |-> "Negative"]
        BY <1>8, BareMeaning
    <2> QED
        BY <1>1, <2>1, <2>2
<1>9. CASE w = "--status"
    <2>1. CommandWords = <<"STATUS">>
        BY <1>9 DEF CommandWords, Command
    <2>2. Meaning(words) = [type |-> "STATUS"]
        BY <1>9, BareMeaning
    <2> QED
        BY <1>2, <2>1, <2>2
<1>10. CASE w = "--deactivate"
    <2>1. CommandWords = <<"SHUTDOWN">>
        BY <1>10 DEF CommandWords, Command
    <2>2. Meaning(words) = [type |-> "SHUTDOWN"]
        BY <1>10, BareMeaning
    <2> QED
        BY <1>2, <2>1, <2>2
<1> QED
    BY <1>0, <1>3, <1>4, <1>5, <1>6, <1>7, <1>8, <1>9, <1>10

LEMMA EntryAlike ==
    ASSUME sent \in Seq(STRING), Key # Garbage, Num(6) # Garbage,
           Num(6) \in (-IntMax - 1)..IntMax, NEW words \in Seq(STRING), Alike(words)
    PROVE  /\ Key = KeyOf(words) /\ Word(5) = words[5] /\ 0 + Num(6) = IntOf(words[6])
<1>1. Len(sent) \in Nat
    OBVIOUS
<1>2. Near(words)
    BY <1>1, AlikeNear
<1>3. Key = KeyOf(words)
    BY <1>2, KeyNear
<1>4. 6 \in 1..7
    OBVIOUS
<1>5. /\ 6 <= Len(sent) /\ sent[6] \in DOMAIN Number /\ Num(6) = Number[sent[6]]
      /\ Num(6) \in Int
    BY <1>4, NumRead
<1>6. 5 <= Len(sent) /\ 5 \in 2..7 /\ 6 \in 2..7
    BY <1>1, <1>5
<1>7. sent[5] = words[5] /\ sent[6] = words[6]
    BY <1>5, <1>6 DEF Alike
<1>8. Word(5) = words[5]
    BY <1>6, <1>7 DEF Word
<1>9. IntOf(words[6]) = Num(6)
    <2>1. IsInt(words[6])
        BY <1>5, <1>7 DEF IsInt
    <2> QED
        BY <1>5, <1>7, <2>1 DEF IntOf
<1>10. 0 + Num(6) = Num(6)
    BY <1>5
<1> QED
    BY <1>3, <1>8, <1>9, <1>10

LEMMA PutIs ==
    ASSUME sent \in Seq(STRING), Len(sent) >= 1, Daemon!Parse(Line) # Daemon!Throw,
           NEW words \in Seq(STRING), Alike(words),
           \/ sent[1] = "PUT" /\ words[1] = "--put"
           \/ sent[1] = "PUT_NEGATIVE" /\ words[1] = "--put-negative"
    PROVE  Daemon!Parse(Line) = Meaning(words)
<1>0. Word(1) = sent[1]
    BY DEF Word
<1>1. CASE sent[1] = "PUT" /\ words[1] = "--put"
    <2>1. /\ Key # Garbage /\ Num(6) # Garbage /\ Num(6) \in (-IntMax - 1)..IntMax
          /\ Daemon!Parse(Line) =
                 [type |-> "PUT_POSITIVE", key |-> Key,
                  entry |-> [data |-> Word(5), expiration_time |-> 0 + Num(6)]]
        BY <1>0, <1>1, ParsedPut
    <2>2. Key = KeyOf(words) /\ Word(5) = words[5] /\ 0 + Num(6) = IntOf(words[6])
        BY <2>1, EntryAlike
    <2>3. Meaning(words) =
             [type |-> "PUT_POSITIVE", key |-> KeyOf(words),
              entry |-> [data |-> words[5], expiration_time |-> IntOf(words[6])]]
        BY <1>1, MeaningIs
    <2> QED
        BY <2>1, <2>2, <2>3
<1>2. CASE sent[1] = "PUT_NEGATIVE" /\ words[1] = "--put-negative"
    <2>1. /\ Key # Garbage /\ Num(6) # Garbage /\ Num(6) \in (-IntMax - 1)..IntMax
          /\ Daemon!Parse(Line) =
                 [type |-> "PUT_NEGATIVE", key |-> Key,
                  entry |-> [data |-> IF Word(5) = "NXDOMAIN" THEN "NXDOMAIN" ELSE "NODATA",
                             expiration_time |-> 0 + Num(6)]]
        BY <1>0, <1>2, ParsedPutNegative
    <2>2. Key = KeyOf(words) /\ Word(5) = words[5] /\ 0 + Num(6) = IntOf(words[6])
        BY <2>1, EntryAlike
    <2>3. Meaning(words) =
             [type |-> "PUT_NEGATIVE", key |-> KeyOf(words),
              entry |-> [data |-> IF words[5] = "NXDOMAIN" THEN "NXDOMAIN" ELSE "NODATA",
                         expiration_time |-> IntOf(words[6])]]
        BY <1>2, MeaningIs
    <2> QED
        BY <2>1, <2>2, <2>3
<1> QED
    BY <1>1, <1>2

LEMMA GetIs ==
    ASSUME sent \in Seq(STRING), Len(sent) >= 1, Daemon!Parse(Line) # Daemon!Throw,
           NEW words \in Seq(STRING), Near(words),
           \/ sent[1] = "GET" /\ words[1] = "--get"
           \/ sent[1] = "GET_NEGATIVE" /\ words[1] = "--get-negative"
    PROVE  Daemon!Parse(Line) = Meaning(words)
<1>0. Word(1) = sent[1]
    BY DEF Word
<1>1. CASE sent[1] = "GET" /\ words[1] = "--get"
    <2>1. Daemon!Parse(Line) = IF Key # Garbage THEN [type |-> "GET_POSITIVE", key |-> Key]
                               ELSE Daemon!Throw
        BY <1>0, <1>1, ParsedGet
    <2>2. Key = KeyOf(words)
        BY <2>1, KeyNear
    <2>3. Meaning(words) = [type |-> "GET_POSITIVE", key |-> KeyOf(words)]
        BY <1>1, MeaningIs
    <2> QED
        BY <2>1, <2>2, <2>3
<1>2. CASE sent[1] = "GET_NEGATIVE" /\ words[1] = "--get-negative"
    <2>1. Daemon!Parse(Line) = IF Key # Garbage THEN [type |-> "GET_NEGATIVE", key |-> Key]
                               ELSE Daemon!Throw
        BY <1>0, <1>2, ParsedGet
    <2>2. Key = KeyOf(words)
        BY <2>1, KeyNear
    <2>3. Meaning(words) = [type |-> "GET_NEGATIVE", key |-> KeyOf(words)]
        BY <1>2, MeaningIs
    <2> QED
        BY <2>1, <2>2, <2>3
<1> QED
    BY <1>1, <1>2

LEMMA SetIs ==
    ASSUME sent \in Seq(STRING), Len(sent) >= 2, Daemon!Parse(Line) # Daemon!Throw,
           NEW words \in Seq(STRING), Len(sent) >= 3 => words[2] = sent[3],
           sent[1] = "SET",
           \/ sent[2] = "POSITIVE" /\ words[1] = "--set-positive"
           \/ sent[2] = "NEGATIVE" /\ words[1] = "--set-negative"
    PROVE  Daemon!Parse(Line) = Meaning(words)
<1> DEFINE positive == Word(2) = "POSITIVE"
           asked == words[1] = "--set-positive"
           size == UnsignedOf(words[2], SizeModulus)
<1>0. Word(1) = "SET" /\ Word(2) = sent[2] /\ Len(sent) \in Nat
    BY DEF Word
<1>1. /\ Num(3) # Garbage /\ Num(3) \in (1 - SizeModulus)..(SizeModulus - 1)
      /\ Daemon!Parse(Line) =
            [type |-> "SET_MAX_SIZE", size |-> Num(3) % SizeModulus, is_positive |-> positive]
    BY <1>0, ParsedSet
<1>2. 3 \in 1..7
    OBVIOUS
<1>3. /\ 3 <= Len(sent) /\ sent[3] \in DOMAIN Number /\ Num(3) = Number[sent[3]]
      /\ Num(3) \in Int
    BY <1>1, <1>2, NumRead
<1>4. words[2] = sent[3]
    BY <1>0, <1>3
<1>5. size = Num(3) % SizeModulus
    <2>1. -SizeModulus < Num(3) /\ Num(3) < SizeModulus
        BY <1>1, <1>3, LineAssumption
    <2> QED
        BY <1>3, <1>4, <2>1 DEF UnsignedOf
<1>6. positive = asked
    <2>1. positive <=> asked
        BY <1>0
    <2> QED
        BY <2>1
<1>7. Meaning(words) = [type |-> "SET_MAX_SIZE", is_positive |-> asked, size |-> size]
    BY MeaningIs
<1> HIDE DEF positive, asked, size
<1> QED
    BY <1>1, <1>5, <1>6, <1>7
-----------------------------------------------------------------------------
\* A command is sent when it is the one option that is a command.
LEMMA SentIs ==
    ASSUME IInv, LineIsSent, sent # << >>, OneCommand
    PROVE  /\ pc # "parse" /\ CommandSent /\ 1 \in Effective
           /\ args.cache_command = Command[typed[1]]
<1>1. /\ pc \in {"parse", "main", "send", "serve", "resolve", "exit"}
      /\ pc # "parse" => Says(args, Effective)
    BY DEF IInv
<1>2. pc # "parse" /\ CommandSent
    BY <1>1 DEF LineIsSent
<1>3. args.cache_command # "None"
    BY <1>2 DEF CommandSent
<1> DEFINE at == {i \in Effective : typed[i] \in DOMAIN Command}
<1>4. at \subseteq {1}
    BY DEF OneCommand, Effective
<1>5. args.cache_command =
         LET i == LastOf(at) IN IF i = 0 THEN "None" ELSE Command[typed[i]]
    BY <1>1, <1>2 DEF Says, LatestIn
<1>6. at = {1}
    <2> SUFFICES ASSUME at # {1} PROVE FALSE
        OBVIOUS
    <2>1. at = {}
        BY <1>4
    <2>2. LastOf(at) = 0
        BY <2>1 DEF LastOf
    <2> QED
        BY <1>3, <1>5, <2>2
<1>7. LastOf({1}) = 1
    <2>1. \A i \in {1} : (\A j \in {1} : j <= i) <=> i = 1
        OBVIOUS
    <2> QED
        BY <2>1 DEF LastOf
<1>8. LastOf(at) = 1
    BY <1>6, <1>7
<1>9. 1 \in Effective
    BY <1>6
<1>10. args.cache_command = Command[typed[1]]
    BY <1>5, <1>8
<1> QED
    BY <1>2, <1>9, <1>10

LEMMA NoneCut ==
    ASSUME Words, SameWords, NoBlanks, NEW n \in Nat, Len(argv) = n
    PROVE  \A k \in 1..n : argv[k] \notin DOMAIN Pieces
<1>1. DOMAIN argv = 1..n
    BY DEF Words
<1> QED
    BY <1>1 DEF SameWords, NoBlanks

\* Two of the commands take their words from argv[2] on, one those of argv[2] to argv[4]
\* and one argv[2] only.
LEMMA ArgumentsAreTyped ==
    ASSUME Words, SameWords, TakesIts, Unmoved \/ Pushed, Unmoved \/ NoBlanks,
           args.cache_command = Command[typed[1]], sent = Split(CommandWords),
           Daemon!Parse(Line) # Daemon!Throw
    PROVE  Daemon!Parse(Line) = Meaning(Split(typed))
<1> DEFINE n == Len(typed)
           w == typed[1]
           s == Split(typed)
<1>1. /\ typed \in Seq(STRING) /\ argv \in Seq(STRING) /\ Len(argv) = n
      /\ n \in Nat /\ n >= 2 /\ n >= 1
    <2>1. typed \in Seq(STRING) /\ argv \in Seq(STRING) /\ Len(argv) = Len(typed)
        BY DEF Words
    <2>2. Len(typed) \in Nat /\ Len(typed) >= 2
        BY <2>1, TakesItsIs
    <2> QED
        BY <2>1, <2>2
<1>2. w \in DOMAIN Command /\ TakesArgument(w)
    BY DEF TakesIts, OneCommand
<1>3. w \notin DOMAIN Pieces
    BY <1>2, NotCut
<1>4. w \in {"--put", "--put-negative", "--get", "--get-negative", "--set-positive",
             "--set-negative"}
    BY <1>2, FieldIs DEF TakesArgument
<1>5. argv[2] = typed[2]
    BY DEF Unmoved, Pushed
<1>6. s \in Seq(STRING) /\ Len(s) >= 1 /\ s[1] = w
    BY <1>1, <1>3, TypedFirst
<1>7. NoBlanks => \A k \in 1..n : argv[k] \notin DOMAIN Pieces
    BY <1>1, NoneCut
<1> HIDE DEF n, s
<1>8. ASSUME NEW verb \in Verbs, NEW c \in {5, 6}, CommandWords = <<verb>> \o Arguments(c),
             \/ verb = "PUT" /\ w = "--put"
             \/ verb = "PUT_NEGATIVE" /\ w = "--put-negative"
      PROVE  Daemon!Parse(Line) = Meaning(s)
    <2>1. CASE Unmoved
        <3>1. sent \in Seq(STRING) /\ Len(sent) >= 1 /\ sent[1] = verb /\ Alike(s)
            BY <1>1, <1>3, <1>8, <2>1, PutAlike DEF n, s
        <3> QED
            BY <1>6, <1>8, <3>1, PutIs
    <2>2. CASE ~Unmoved
        <3>1. sent \in Seq(STRING) /\ Len(sent) >= 1 /\ sent[1] = verb /\ Key = Garbage
            BY <1>1, <1>7, <1>8, <2>2, PushedPut
        <3>2. Word(1) = verb
            BY <3>1 DEF Word
        <3> QED
            BY <1>8, <3>1, <3>2, ParsedPut, ParsedPutNegative
    <2> QED
        BY <2>1, <2>2
<1>9. ASSUME NEW verb \in Verbs, CommandWords = Lookup(verb),
             \/ verb = "GET" /\ w = "--get"
             \/ verb = "GET_NEGATIVE" /\ w = "--get-negative"
      PROVE  Daemon!Parse(Line) = Meaning(s)
    <2>1. CASE Unmoved
        <3>1. sent \in Seq(STRING) /\ Len(sent) >= 1 /\ sent[1] = verb /\ Near(s)
            BY <1>1, <1>3, <1>9, <2>1, LookupNear DEF n, s
        <3> QED
            BY <1>6, <1>9, <3>1, GetIs
    <2>2. CASE ~Unmoved
        <3>1. sent \in Seq(STRING) /\ Len(sent) >= 1 /\ sent[1] = verb /\ Key = Garbage
            BY <1>1, <1>7, <1>9, <2>2, PushedLookup
        <3>2. Word(1) \in {"GET", "GET_NEGATIVE"}
            BY <1>9, <3>1 DEF Word
        <3> QED
            BY <3>1, <3>2, ParsedGet
    <2> QED
        BY <2>1, <2>2
<1>10. ASSUME NEW u \in Verbs, CommandWords = <<"SET", u, argv[2]>>,
              \/ u = "POSITIVE" /\ w = "--set-positive"
              \/ u = "NEGATIVE" /\ w = "--set-negative"
       PROVE  Daemon!Parse(Line) = Meaning(s)
    <2>1. /\ sent \in Seq(STRING) /\ Len(sent) >= 2 /\ sent[1] = "SET" /\ sent[2] = u
          /\ Len(sent) >= 3 => s[2] = sent[3]
        BY <1>1, <1>3, <1>5, <1>10, SetLine DEF n, s
    <2> QED
        BY <1>6, <1>10, <2>1, SetIs
<1>11. {"PUT", "PUT_NEGATIVE", "GET", "GET_NEGATIVE", "POSITIVE", "NEGATIVE"} \subseteq Verbs
    BY DEF Verbs
<1>12. CASE w = "--put"
    <2>1. CommandWords = <<"PUT">> \o Arguments(6)
        BY <1>12 DEF CommandWords, Command
    <2>2. "PUT" \in Verbs /\ 6 \in {5, 6}
        BY <1>11
    <2> HIDE DEF w
    <2>3. Daemon!Parse(Line) = Meaning(s)
        BY <1>8, <1>12, <2>1, <2>2
    <2> QED
        BY <2>3 DEF s
<1>13. CASE w = "--put-negative"
    <2>1. CommandWords = <<"PUT_NEGATIVE">> \o Arguments(5)
        BY <1>13 DEF CommandWords, Command
    <2> QED
        BY <1>8, <1>11, <1>13, <2>1 DEF s
<1>14. CASE w = "--get"
    <2>1. CommandWords = Lookup("GET")
        BY <1>14 DEF CommandWords, Command
    <2>2. "GET" \in Verbs
        BY <1>11
    <2> HIDE DEF w
    <2>3. Daemon!Parse(Line) = Meaning(s)
        BY <1>9, <1>14, <2>1, <2>2
    <2> QED
        BY <2>3 DEF s
<1>15. CASE w = "--get-negative"
    <2>1. CommandWords = Lookup("GET_NEGATIVE")
        BY <1>15 DEF CommandWords, Command
    <2> QED
        BY <1>9, <1>11, <1>15, <2>1 DEF s
<1>16. CASE w = "--set-positive"
    <2>1. CommandWords = <<"SET", "POSITIVE", argv[2]>>
        BY <1>16 DEF CommandWords, Command
    <2>2. "POSITIVE" \in Verbs
        BY <1>11
    <2> HIDE DEF w
    <2>3. Daemon!Parse(Line) = Meaning(s)
        BY <1>10, <1>16, <2>1, <2>2
    <2> QED
        BY <2>3 DEF s
<1>17. CASE w = "--set-negative"
    <2>1. CommandWords = <<"SET", "NEGATIVE", argv[2]>>
        BY <1>17 DEF CommandWords, Command
    <2> QED
        BY <1>10, <1>11, <1>17, <2>1 DEF s
<1> QED
    BY <1>4, <1>12, <1>13, <1>14, <1>15, <1>16, <1>17

LEMMA AcceptedIs == IInv /\ WordsStay /\ LineIsSent => AcceptedAsTyped
<1> SUFFICES ASSUME IInv, WordsStay, LineIsSent, sent # << >>, OneCommand,
                    Effective = {1} \/ NoBlanks, Daemon!Parse(Line) # Daemon!Throw
             PROVE  Daemon!Parse(Line) = Meaning(Split(typed))
    BY DEF AcceptedAsTyped
<1>1. /\ pc # "parse" /\ CommandSent /\ 1 \in Effective
      /\ args.cache_command = Command[typed[1]]
    BY SentIs
<1>2. sent = Split(CommandWords)
    BY <1>1 DEF CommandSent
<1>3. Words /\ SameWords
    BY DEF IInv, WordsStay
<1>4. CASE TakesArgument(typed[1])
    <2>1. TakesIts
        BY <1>1, <1>4 DEF TakesIts
    <2>2. (Unmoved \/ Pushed) /\ (Effective = {1} => Unmoved)
        BY <1>1, <2>1 DEF WordsStay
    <2> QED
        BY <1>1, <1>2, <1>3, <2>1, <2>2, ArgumentsAreTyped
<1>5. CASE ~TakesArgument(typed[1])
    <2>1. typed[1] \in Bare
        BY <1>5 DEF OneCommand, Bare, TakesArgument
    <2>2. typed[1] \in DOMAIN Command /\ typed \in Seq(STRING) /\ typed # << >>
        BY <1>3 DEF OneCommand, Words
    <2>3. Len(typed) \in Nat /\ Len(typed) >= 1
        BY <2>2
    <2>4. Split(typed)[1] = typed[1]
        BY <2>2, <2>3, NotCut, TypedFirst
    <2> QED
        BY <1>1, <1>2, <2>1, <2>4, BareIs
<1> QED
    BY <1>4, <1>5

(***************************************************************************)
(* The line behind a command: whatever words there are, whatever getopt    *)
(* has moved, the daemon is told nothing, takes nothing of it, or does     *)
(* what the words say in the order typed (cache_command_handler.cpp and    *)
(* cache_command_parser.cpp).                                              *)
(***************************************************************************)
THEOREM AcceptedAsTypedTheorem == Spec => []AcceptedAsTyped
BY AlwaysInv, AlwaysSent, AcceptedIs, PTL
-----------------------------------------------------------------------------
\* A key whose numbers are numbers is read; so is a line with such a key and numbers.
LEMMA KeyTaken ==
    ASSUME sent \in Seq(STRING), Len(sent) >= 4, NEW words \in Seq(STRING), Near(words),
           KeyOf(words)[2] # Garbage, KeyOf(words)[3] # Garbage
    PROVE  Key # Garbage
<1> DEFINE n == Len(words)
<1>1. n \in Nat /\ Len(sent) \in Nat
    OBVIOUS
<1>2. \A k \in 2..4 : IF k <= n THEN sent[k] = words[k] ELSE k > 2 /\ sent[k] = "1"
    BY DEF Near
<1>3. /\ KeyOf(words)[2] = IF n > 2 THEN UnsignedOf(words[3], 65536) ELSE 1
      /\ KeyOf(words)[3] = IF n > 3 THEN UnsignedOf(words[4], 65536) ELSE 1
    BY DEF KeyOf
<1> HIDE DEF n
<1>4. /\ IF 3 <= n THEN sent[3] = words[3] ELSE 3 > 2 /\ sent[3] = "1"
      /\ IF 4 <= n THEN sent[4] = words[4] ELSE 4 > 2 /\ sent[4] = "1"
    <2>1. 3 \in 2..4 /\ 4 \in 2..4
        OBVIOUS
    <2> QED
        BY <1>2, <2>1
<1>5. ASSUME NEW w, UnsignedOf(w, 65536) # Garbage
      PROVE  w \in DOMAIN Number /\ IsUint16(Number[w])
    <2>1. w \in DOMAIN Number /\ -65536 < Number[w] /\ Number[w] < 65536
        BY <1>5 DEF UnsignedOf
    <2>2. Number[w] # Garbage
        BY <2>1, LineAssumption
    <2> QED
        BY <2>1, <2>2 DEF IsUint16
<1>6. "1" \in DOMAIN Number /\ IsUint16(Number["1"])
    <2>1. "1" \in DOMAIN Number /\ Number["1"] = 1 /\ 1 # Garbage
        BY LineAssumption
    <2> QED
        BY <2>1 DEF IsUint16
<1>7. sent[3] \in DOMAIN Number /\ IsUint16(Number[sent[3]])
    <2>1. CASE n > 2
        <3>1. sent[3] = words[3]
            BY <1>1, <1>4, <2>1
        <3> QED
            BY <1>3, <1>5, <2>1, <3>1
    <2>2. CASE ~(n > 2)
        <3>1. sent[3] = "1"
            BY <1>1, <1>4, <2>2
        <3> QED
            BY <1>6, <3>1
    <2> QED
        BY <2>1, <2>2
<1>8. sent[4] \in DOMAIN Number /\ IsUint16(Number[sent[4]])
    <2>1. CASE n > 3
        <3>1. sent[4] = words[4]
            BY <1>1, <1>4, <2>1
        <3> QED
            BY <1>3, <1>5, <2>1, <3>1
    <2>2. CASE ~(n > 3)
        <3>1. sent[4] = "1"
            BY <1>1, <1>4, <2>2
        <3> QED
            BY <1>6, <3>1
    <2> QED
        BY <2>1, <2>2
<1>9. Word(2) = sent[2] /\ Word(3) = sent[3] /\ Word(4) = sent[4]
    <2>1. 2 <= Len(sent) /\ 3 <= Len(sent) /\ 4 <= Len(sent)
        BY <1>1
    <2> QED
        BY <2>1 DEF Word
<1>10. /\ Num(3) = Number[sent[3]] /\ Num(4) = Number[sent[4]]
       /\ IsUint16(Num(3)) /\ IsUint16(Num(4))
    BY <1>7, <1>8, <1>9 DEF Num
<1>11. Key = <<sent[2], Num(3) % 65536, Num(4) % 65536>>
    BY <1>9, <1>10 DEF Key
<1>12. Num(3) % 65536 \in Int /\ Num(4) % 65536 \in Int
    <2>1. Num(3) \in Int /\ Num(4) \in Int
        BY <1>7, <1>8, <1>10, LineAssumption
    <2> QED
        BY <2>1
<1>13. sent[2] \in STRING
    <2>1. 2 \in 1..Len(sent)
        BY <1>1
    <2> QED
        BY <2>1
<1> DEFINE x == sent[2]
           y == Num(3) % 65536
           z == Num(4) % 65536
<1> HIDE DEF x, y, z
<1>14. <<x, y, z>> \in STRING \X Int \X Int
    BY <1>12, <1>13 DEF x, y, z
<1> QED
    BY <1>11, <1>14, LineAssumption DEF x, y, z

LEMMA NumTaken ==
    ASSUME sent \in Seq(STRING), Len(sent) >= 6, IntOf(sent[6]) # Garbage
    PROVE  Num(6) # Garbage /\ Num(6) \in (-IntMax - 1)..IntMax
<1>1. sent[6] \in DOMAIN Number /\ Number[sent[6]] \in (-IntMax - 1)..IntMax
    BY DEF IntOf, IsInt
<1>2. Word(6) = sent[6]
    <2>1. Len(sent) \in Nat
        OBVIOUS
    <2>2. 6 <= Len(sent)
        BY <2>1
    <2> QED
        BY <2>2 DEF Word
<1>3. Num(6) = Number[sent[6]]
    BY <1>1, <1>2 DEF Num
<1> QED
    BY <1>1, <1>3, LineAssumption

LEMMA PutTaken ==
    ASSUME Key # Garbage, Num(6) # Garbage, Num(6) \in (-IntMax - 1)..IntMax,
           \/ Word(1) = "PUT" /\ Word(7) \in {"0", "1"}
           \/ Word(1) = "PUT_NEGATIVE"
    PROVE  Daemon!Parse(Line) # Daemon!Throw
<1>1. CASE Word(1) = "PUT" /\ Word(7) \in {"0", "1"}
    <2>1. Line = [verb |-> "PUT", key |-> Key, data |-> Word(5), ttl |-> Num(6)]
        BY <1>1 DEF Line
    <2>2. Line.verb = "PUT" /\ Line.key = Key /\ Line.ttl = Num(6)
        BY <2>1
    <2>3. Daemon!Stores(Line)
        BY <2>2 DEF Daemon!Stores, Daemon!IsInt
    <2>4. Daemon!Parse(Line) = Daemon!ParsePut(Line)
        BY <2>2 DEF Daemon!Parse
    <2>5. Daemon!Parse(Line) = [type |-> "PUT_POSITIVE", key |-> Line.key,
                                entry |-> Daemon!Lasting(Line.data, Line.ttl)]
        BY <2>3, <2>4 DEF Daemon!ParsePut
    <2>6. Daemon!Parse(Line).type = "PUT_POSITIVE"
        BY <2>5
    <2> QED
        BY <2>6 DEF Daemon!Throw
<1>2. CASE Word(1) = "PUT_NEGATIVE"
    <2>1. Line = [verb |-> "PUT_NEGATIVE", key |-> Key, data |-> Word(5), ttl |-> Num(6)]
        BY <1>2 DEF Line
    <2>2. Line.verb = "PUT_NEGATIVE" /\ Line.key = Key /\ Line.ttl = Num(6)
        BY <2>1
    <2>3. Daemon!Stores(Line)
        BY <2>2 DEF Daemon!Stores, Daemon!IsInt
    <2>4. Daemon!Parse(Line) = Daemon!ParsePutNegative(Line)
        BY <2>2 DEF Daemon!Parse
    <2>5. Daemon!Parse(Line).type = "PUT_NEGATIVE"
        BY <2>3, <2>4 DEF Daemon!ParsePutNegative
    <2> QED
        BY <2>5 DEF Daemon!Throw
<1> QED
    BY <1>1, <1>2

LEMMA GetTaken ==
    ASSUME Word(1) \in {"GET", "GET_NEGATIVE"}, Key # Garbage
    PROVE  Daemon!Parse(Line) # Daemon!Throw
<1> DEFINE t == IF Word(1) = "GET" THEN "GET_POSITIVE" ELSE "GET_NEGATIVE"
<1>1. Daemon!Parse(Line) = [type |-> t, key |-> Key]
    BY ParsedGet
<1>2. Daemon!Parse(Line).type = t
    BY <1>1
<1> QED
    BY <1>2 DEF Daemon!Throw

LEMMA SetTaken ==
    ASSUME sent \in Seq(STRING), Len(sent) >= 3, sent[1] = "SET",
           UnsignedOf(sent[3], SizeModulus) # Garbage
    PROVE  Daemon!Parse(Line) # Daemon!Throw
<1>1. Word(1) = "SET" /\ Word(3) = sent[3]
    <2>1. Len(sent) \in Nat
        OBVIOUS
    <2>2. 1 <= Len(sent) /\ 3 <= Len(sent)
        BY <2>1
    <2> QED
        BY <2>2 DEF Word
<1>2. sent[3] \in DOMAIN Number /\ -SizeModulus < Number[sent[3]] /\ Number[sent[3]] < SizeModulus
    BY DEF UnsignedOf
<1>3. Num(3) = Number[sent[3]] /\ Num(3) \in Int
    BY <1>1, <1>2, LineAssumption DEF Num
<1>4. Num(3) # Garbage /\ Num(3) \in (1 - SizeModulus)..(SizeModulus - 1)
    BY <1>2, <1>3, LineAssumption
<1> DEFINE p == Word(2) = "POSITIVE"
<1> HIDE DEF p
<1>5. Daemon!Parse(Line) =
          [type |-> "SET_MAX_SIZE", size |-> Num(3) % SizeModulus, is_positive |-> p]
    BY <1>1, <1>4, ParsedSet DEF p
<1>6. Daemon!Parse(Line).type = "SET_MAX_SIZE"
    BY <1>5
<1> QED
    BY <1>6 DEF Daemon!Throw
-----------------------------------------------------------------------------
\* A documented line is taken: word for word what was typed, with its numbers.
LEMMA PutDone ==
    ASSUME typed \in Seq(STRING), NEW n \in Nat, Len(typed) = n, argv = typed,
           \A k \in 1..n : argv[k] \notin DOMAIN Pieces,
           NEW verb \in Verbs, NEW c \in {5, 6}, n = c + 1,
           sent = Split(<<verb>> \o Arguments(c)),
           KeyOf(typed)[2] # Garbage, KeyOf(typed)[3] # Garbage,
           IntOf(typed[6]) # Garbage,
           \/ verb = "PUT" /\ c = 6 /\ typed[7] \in {"0", "1"}
           \/ verb = "PUT_NEGATIVE"
    PROVE  Daemon!Parse(Line) # Daemon!Throw
<1> DEFINE m == IF n <= c THEN n ELSE c + 1
<1>1. argv \in Seq(STRING) /\ Len(argv) = n /\ n >= 2
    OBVIOUS
<1>2. /\ sent \in Seq(STRING) /\ Len(sent) = m /\ sent[1] = verb
      /\ \A k \in 2..m : sent[k] = argv[k]
    BY <1>1, WholePut
<1>3. m = n /\ n >= 6
    OBVIOUS
<1> HIDE DEF m
<1>4. Len(sent) = n /\ Len(sent) \in Nat /\ \A k \in 2..n : sent[k] = typed[k]
    BY <1>2, <1>3
<1>5. Alike(typed)
    BY <1>4 DEF Alike
<1>6. Near(typed)
    BY <1>4, <1>5, AlikeNear
<1>7. Key # Garbage
    <2>1. Len(sent) >= 4
        BY <1>3, <1>4
    <2> QED
        BY <1>2, <1>6, <2>1, KeyTaken
<1>8. Num(6) # Garbage /\ Num(6) \in (-IntMax - 1)..IntMax
    <2>1. 6 \in 2..n /\ Len(sent) >= 6
        BY <1>3, <1>4
    <2>2. sent[6] = typed[6]
        BY <1>4, <2>1
    <2> QED
        BY <1>2, <2>1, <2>2, NumTaken
<1>9. Word(1) = verb
    <2>1. 1 <= Len(sent)
        BY <1>3, <1>4
    <2> QED
        BY <1>2, <2>1 DEF Word
<1>10. CASE verb = "PUT" /\ c = 6 /\ typed[7] \in {"0", "1"}
    <2>1. 7 \in 2..n /\ 7 <= Len(sent)
        BY <1>4, <1>10
    <2>2. Word(7) = typed[7]
        BY <1>4, <2>1 DEF Word
    <2>3. Word(1) = "PUT" /\ Word(7) \in {"0", "1"}
        BY <1>9, <1>10, <2>2
    <2> QED
        BY <1>7, <1>8, <2>3, PutTaken
<1>11. CASE verb = "PUT_NEGATIVE"
    <2>1. Word(1) = "PUT_NEGATIVE"
        BY <1>9, <1>11
    <2> QED
        BY <1>7, <1>8, <2>1, PutTaken
<1> QED
    BY <1>10, <1>11

LEMMA LookupDone ==
    ASSUME typed \in Seq(STRING), NEW n \in Nat, Len(typed) = n, n >= 2, argv = typed,
           \A k \in 1..n : argv[k] \notin DOMAIN Pieces,
           NEW verb \in {"GET", "GET_NEGATIVE"}, sent = Split(Lookup(verb)),
           KeyOf(typed)[2] # Garbage, KeyOf(typed)[3] # Garbage
    PROVE  Daemon!Parse(Line) # Daemon!Throw
<1>1. argv \in Seq(STRING) /\ Len(argv) = n /\ verb \in Verbs
    BY DEF Verbs
<1>2. sent \in Seq(STRING) /\ Len(sent) = 4 /\ sent[1] = verb
    BY <1>1, WholeLookup
<1>3. Split(typed) = typed
    <2>1. \A k \in 1..Len(typed) : typed[k] \notin DOMAIN Pieces
        OBVIOUS
    <2> QED
        BY <2>1, SplitWhole
<1>4. typed[1] \notin DOMAIN Pieces
    <2>1. 1 \in 1..n
        OBVIOUS
    <2> QED
        BY <2>1
<1>5. Near(typed)
    <2>1. Near(Split(typed))
        BY <1>1, <1>4, LookupNear DEF Unmoved
    <2> QED
        BY <1>3, <2>1
<1>6. Len(sent) \in Nat /\ Len(sent) >= 4 /\ 1 <= Len(sent)
    BY <1>2
<1>7. Key # Garbage
    BY <1>2, <1>5, <1>6, KeyTaken
<1>8. Word(1) = verb
    BY <1>2, <1>6 DEF Word
<1> QED
    BY <1>7, <1>8, GetTaken

LEMMA SetDone ==
    ASSUME NEW w \in STRING, w \notin DOMAIN Pieces, NEW u \in Verbs,
           sent = Split(<<"SET", u, w>>), UnsignedOf(w, SizeModulus) # Garbage
    PROVE  Daemon!Parse(Line) # Daemon!Throw
<1> DEFINE l == <<"SET", u, w>>
<1>1. u \in STRING /\ u \notin DOMAIN Pieces /\ "SET" \in STRING /\ "SET" \notin DOMAIN Pieces
    <2>1. "SET" \in Verbs
        BY DEF Verbs
    <2> QED
        BY <2>1, NotCut
<1>2. l \in Seq(STRING)
    BY <1>1, ThreeOf, Zenon
<1>3. Len(l) = 3 /\ l[1] = "SET" /\ l[2] = u /\ l[3] = w
    OBVIOUS
<1>4. sent = Split(l)
    OBVIOUS
<1> HIDE DEF l
<1>5. \A k \in 1..Len(l) : l[k] \notin DOMAIN Pieces
    <2>1. \A k \in 1..3 : k = 1 \/ k = 2 \/ k = 3
        OBVIOUS
    <2> QED
        BY <1>1, <1>3, <2>1
<1>6. sent = l
    BY <1>2, <1>4, <1>5, SplitWhole
<1>7. sent \in Seq(STRING) /\ Len(sent) >= 3 /\ sent[1] = "SET" /\ sent[3] = w
    BY <1>2, <1>3, <1>6
<1> QED
    BY <1>7, SetTaken

\* A documented line is read as its one command.
LEMMA UsageRead ==
    ASSUME IInv, pc # "parse", IsUsage
    PROVE  /\ Effective = {1} /\ args.cache_command = Command[typed[1]]
           /\ TakesArgument(typed[1]) => TakesIts
<1>1. /\ OneCommand /\ Options = {1} /\ typed[1] \in DOMAIN Command \ {"--activate"}
      /\ Len(typed) - 1 \in Arity(typed[1])
    BY DEF IsUsage, OneCommand
<1>2. Says(args, Effective) /\ Len(typed) \in Nat
    <2>1. typed \in Seq(STRING)
        BY DEF IInv, Words
    <2> QED
        BY <2>1 DEF IInv
<1>3. ~IsWrong(typed, 1)
    <2>1. typed[1] \notin Unknown
        BY <1>1, LineAssumption
    <2>2. typed[1] \notin DOMAIN Field
        BY <1>1, FieldIs
    <2>3. typed[1] \notin {"--fanout", "--workers", "--timeout"}
        BY <2>2, FieldIs
    <2>4. TakesArgument(typed[1]) => 1 # Len(typed)
        <3>1. SUFFICES ASSUME TakesArgument(typed[1]) PROVE 0 \notin Arity(typed[1])
            BY <1>1, <1>2
        <3>2. typed[1] \in {"--set-positive", "--set-negative", "--put", "--put-negative",
                            "--get", "--get-negative"}
            BY <2>2, <3>1 DEF TakesArgument
        <3> QED
            BY <3>2 DEF Arity
    <2> QED
        BY <2>1, <2>3, <2>4 DEF IsWrong
<1>4. Effective = {1}
    BY <1>1, <1>3 DEF Effective
<1>5. {i \in Effective : typed[i] \in DOMAIN Command} = {1}
    BY <1>1, <1>4
<1>6. LastOf({1}) = 1
    <2>1. \A i \in {1} : (\A j \in {1} : j <= i) <=> i = 1
        OBVIOUS
    <2> QED
        BY <2>1 DEF LastOf
<1>7. LatestIn(DOMAIN Command, Effective) = 1
    BY <1>5, <1>6 DEF LatestIn
<1>8. args.cache_command = Command[typed[1]]
    BY <1>2, <1>7 DEF Says
<1>9. TakesArgument(typed[1]) => TakesIts
    BY <1>1, <1>4 DEF TakesIts
<1> QED
    BY <1>4, <1>8, <1>9

\* It has the words execute asks for, so that its line is sent.
LEMMA UsageSent ==
    ASSUME IInv, LineIsSent, pc = "exit", IsUsage
    PROVE  sent = Split(CommandWords)
<1>1. pc # "parse"
    OBVIOUS
<1>2. args.cache_command = Command[typed[1]]
    BY <1>1, UsageRead
<1>3. /\ typed[1] \in DOMAIN Command \ {"--activate"} /\ Len(typed) - 1 \in Arity(typed[1])
      /\ Len(argv) = Len(typed) /\ Len(typed) \in Nat
    <2>1. typed \in Seq(STRING) /\ Len(argv) = Len(typed)
        BY DEF IInv, Words
    <2> QED
        BY <2>1 DEF IsUsage, OneCommand
<1>4. args.cache_command # "None"
    BY <1>2, <1>3 DEF Command
<1> DEFINE w == typed[1]
           n == Len(typed)
<1>5. \A least \in Nat : n >= least => ~(Len(argv) < least)
    BY <1>3
<1> HIDE DEF n
<1>6. CASE w = "--put"
    <2>1. args.cache_command = "Put"
        BY <1>2, <1>6 DEF Command
    <2>2. Least = 6
        BY <2>1 DEF Least
    <2>3. n >= 6
        BY <1>3, <1>6 DEF Arity, n
    <2>4. ~(Len(argv) < Least)
        BY <1>5, <2>2, <2>3
    <2> QED
        BY <1>4, <2>4 DEF LineIsSent, CommandSent
<1>7. CASE w = "--put-negative"
    <2>1. args.cache_command = "PutNegative"
        BY <1>2, <1>7 DEF Command
    <2>2. Least = 5
        BY <2>1 DEF Least
    <2>3. n >= 5
        BY <1>3, <1>7 DEF Arity, n
    <2>4. ~(Len(argv) < Least)
        BY <1>5, <2>2, <2>3
    <2> QED
        BY <1>4, <2>4 DEF LineIsSent, CommandSent
<1>8. CASE w \in {"--get", "--get-negative", "--set-positive", "--set-negative"}
    <2>1. args.cache_command \in {"Get", "GetNegative", "SetPositive", "SetNegative"}
        BY <1>2, <1>8 DEF Command
    <2>2. Least = 2
        BY <2>1 DEF Least
    <2>3. n >= 2
        BY <1>3, <1>8 DEF Arity, n
    <2>4. ~(Len(argv) < Least)
        BY <1>5, <2>2, <2>3
    <2> QED
        BY <1>4, <2>4 DEF LineIsSent, CommandSent
<1>9. CASE w \in Bare
    <2>1. args.cache_command \in {"Deactivate", "Status", "PurgePositive", "PurgeNegative",
                                  "PurgeAll", "ListPositive", "ListNegative", "ListAll"}
        <3>1. w \in {"--deactivate", "--status", "--purge-positive", "--purge-negative",
                     "--purge-all", "--list-positive", "--list-negative", "--list-all"}
            BY <1>9 DEF Bare, Command
        <3> QED
            BY <1>2, <3>1 DEF Command
    <2>2. Least = 0
        BY <2>1 DEF Least
    <2>3. ~(Len(argv) < Least)
        BY <1>3, <2>2
    <2> QED
        BY <1>4, <2>3 DEF LineIsSent, CommandSent
<1> QED
    BY <1>3, <1>6, <1>7, <1>8, <1>9 DEF Bare

\* Its words are words, and its numbers numbers.
LEMMA UsageTaken ==
    ASSUME typed \in Seq(STRING), argv = typed, IsUsage, TakesArgument(typed[1]),
           args.cache_command = Command[typed[1]], sent = Split(CommandWords)
    PROVE  Daemon!Parse(Line) # Daemon!Throw
<1> DEFINE w == typed[1]
           n == Len(typed)
<1>1. /\ w \in DOMAIN Command /\ n - 1 \in Arity(w) /\ n \in Nat
      /\ \A k \in 1..n : argv[k] \notin DOMAIN Pieces
      /\ "key" \in DOMAIN Meaning(typed) => Garbage \notin {KeyOf(typed)[2], KeyOf(typed)[3]}
      /\ "entry" \in DOMAIN Meaning(typed) => Meaning(typed).entry.expiration_time # Garbage
      /\ "size" \in DOMAIN Meaning(typed) => Meaning(typed).size # Garbage
      /\ w = "--put" => typed[7] \in {"0", "1"}
    BY DEF IsUsage, OneCommand, NoBlanks
<1>2. w \in {"--put", "--put-negative", "--get", "--get-negative", "--set-positive",
             "--set-negative"}
    BY <1>1, FieldIs DEF TakesArgument
<1>3. CASE w = "--put"
    <2>1. CommandWords = <<"PUT">> \o Arguments(6) /\ "PUT" \in Verbs /\ n - 1 = 6
        BY <1>1, <1>3 DEF CommandWords, Command, Verbs, Arity
    <2>2. Meaning(typed) =
             [type |-> "PUT_POSITIVE", key |-> KeyOf(typed),
              entry |-> [data |-> typed[5], expiration_time |-> IntOf(typed[6])]]
        BY <1>3, MeaningIs
    <2>3. "key" \in DOMAIN Meaning(typed) /\ "entry" \in DOMAIN Meaning(typed)
        BY <2>2
    <2>4. Meaning(typed).entry.expiration_time = IntOf(typed[6])
        BY <2>2
    <2>5. /\ KeyOf(typed)[2] # Garbage /\ KeyOf(typed)[3] # Garbage
          /\ IntOf(typed[6]) # Garbage
        BY <1>1, <2>3, <2>4
    <2>6. typed[7] \in {"0", "1"} /\ sent = Split(<<"PUT">> \o Arguments(6))
        BY <1>1, <1>3, <2>1
    <2>7. 6 \in {5, 6} /\ n = 6 + 1
        BY <1>1, <2>1
    <2> HIDE DEF n
    <2> QED
        BY <1>1, <2>1, <2>5, <2>6, <2>7, PutDone DEF n
<1>4. CASE w = "--put-negative"
    <2>1. CommandWords = <<"PUT_NEGATIVE">> \o Arguments(5) /\ "PUT_NEGATIVE" \in Verbs
          /\ n - 1 = 5
        BY <1>1, <1>4 DEF CommandWords, Command, Verbs, Arity
    <2>2. Meaning(typed) =
             [type |-> "PUT_NEGATIVE", key |-> KeyOf(typed),
              entry |-> [data |-> IF typed[5] = "NXDOMAIN" THEN "NXDOMAIN" ELSE "NODATA",
                         expiration_time |-> IntOf(typed[6])]]
        BY <1>4, MeaningIs
    <2>3. "key" \in DOMAIN Meaning(typed) /\ "entry" \in DOMAIN Meaning(typed)
        BY <2>2
    <2>4. Meaning(typed).entry.expiration_time = IntOf(typed[6])
        BY <2>2
    <2>5. /\ KeyOf(typed)[2] # Garbage /\ KeyOf(typed)[3] # Garbage
          /\ IntOf(typed[6]) # Garbage
        BY <1>1, <2>3, <2>4
    <2>6. sent = Split(<<"PUT_NEGATIVE">> \o Arguments(5))
        BY <2>1
    <2>7. 5 \in {5, 6} /\ n = 5 + 1
        BY <1>1, <2>1
    <2> HIDE DEF n
    <2> QED
        BY <1>1, <2>1, <2>5, <2>6, <2>7, PutDone DEF n
<1>5. ASSUME NEW verb \in {"GET", "GET_NEGATIVE"}, CommandWords = Lookup(verb),
             w \in {"--get", "--get-negative"}
      PROVE  Daemon!Parse(Line) # Daemon!Throw
    <2>1. n >= 2
        BY <1>1, <1>5 DEF Arity
    <2>2. "key" \in DOMAIN Meaning(typed)
        <3>1. \E t : Meaning(typed) = [type |-> t, key |-> KeyOf(typed)]
            BY <1>5, MeaningIs
        <3> QED
            BY <3>1
    <2>3. KeyOf(typed)[2] # Garbage /\ KeyOf(typed)[3] # Garbage
        BY <1>1, <2>2
    <2>4. sent = Split(Lookup(verb))
        BY <1>5
    <2> HIDE DEF n
    <2> QED
        BY <1>1, <2>1, <2>3, <2>4, LookupDone DEF n
<1>6. ASSUME NEW u \in Verbs, CommandWords = <<"SET", u, argv[2]>>,
             w \in {"--set-positive", "--set-negative"}
      PROVE  Daemon!Parse(Line) # Daemon!Throw
    <2>1. n = 2
        BY <1>1, <1>6 DEF Arity
    <2>2. typed[2] \in STRING /\ typed[2] \notin DOMAIN Pieces
        <3>1. 2 \in 1..n
            BY <2>1
        <3> QED
            BY <1>1, <3>1
    <2>3. Meaning(typed) = [type |-> "SET_MAX_SIZE", is_positive |-> w = "--set-positive",
                            size |-> UnsignedOf(typed[2], SizeModulus)]
        BY <1>6, MeaningIs
    <2>4. "size" \in DOMAIN Meaning(typed) /\ Meaning(typed).size = UnsignedOf(typed[2], SizeModulus)
        BY <2>3
    <2>5. UnsignedOf(typed[2], SizeModulus) # Garbage
        BY <1>1, <2>4
    <2>6. sent = Split(<<"SET", u, typed[2]>>)
        BY <1>6
    <2> QED
        BY <2>2, <2>5, <2>6, SetDone
<1>7. CASE w = "--get"
    <2>1. CommandWords = Lookup("GET")
        BY <1>7 DEF CommandWords, Command
    <2> QED
        BY <1>5, <1>7, <2>1
<1>8. CASE w = "--get-negative"
    <2>1. CommandWords = Lookup("GET_NEGATIVE")
        BY <1>8 DEF CommandWords, Command
    <2> QED
        BY <1>5, <1>8, <2>1
<1>9. CASE w = "--set-positive"
    <2>1. CommandWords = <<"SET", "POSITIVE", argv[2]>> /\ "POSITIVE" \in Verbs
        BY <1>9 DEF CommandWords, Command, Verbs
    <2> QED
        BY <1>6, <1>9, <2>1
<1>10. CASE w = "--set-negative"
    <2>1. CommandWords = <<"SET", "NEGATIVE", argv[2]>> /\ "NEGATIVE" \in Verbs
        BY <1>10 DEF CommandWords, Command, Verbs
    <2> QED
        BY <1>6, <1>10, <2>1
<1> QED
    BY <1>2, <1>3, <1>4, <1>7, <1>8, <1>9, <1>10

LEMMA UsageIs == IInv /\ WordsStay /\ LineIsSent => UsageIsDone
<1> SUFFICES ASSUME IInv, WordsStay, LineIsSent, pc = "exit", IsUsage
             PROVE  Daemon!Parse(Line) = Meaning(typed)
    BY DEF UsageIsDone
<1>1. pc # "parse"
    OBVIOUS
<1>2. /\ Effective = {1} /\ args.cache_command = Command[typed[1]]
      /\ TakesArgument(typed[1]) => TakesIts
    BY <1>1, UsageRead
<1>3. sent = Split(CommandWords)
    BY UsageSent
<1>4. Words /\ SameWords /\ typed \in Seq(STRING)
    BY DEF IInv, WordsStay, Words
<1>5. Split(typed) = typed
    <2>1. \A k \in 1..Len(typed) : typed[k] \notin DOMAIN Pieces
        BY <1>4 DEF IsUsage, NoBlanks
    <2> QED
        BY <1>4, <2>1, SplitWhole
<1>6. CASE TakesArgument(typed[1])
    <2>1. TakesIts
        BY <1>2, <1>6
    <2>2. Unmoved
        BY <1>2, <2>1 DEF WordsStay
    <2>3. argv = typed
        BY <2>2 DEF Unmoved
    <2>4. Daemon!Parse(Line) # Daemon!Throw
        BY <1>2, <1>3, <1>4, <1>6, <2>3, UsageTaken
    <2>5. Daemon!Parse(Line) = Meaning(Split(typed))
        BY <1>2, <1>3, <1>4, <2>1, <2>2, <2>4, ArgumentsAreTyped
    <2> QED
        BY <1>5, <2>5
<1>7. CASE ~TakesArgument(typed[1])
    <2>1. typed[1] \in Bare
        BY <1>7 DEF IsUsage, OneCommand, Bare, TakesArgument
    <2> QED
        BY <1>2, <1>3, <2>1, BareIs
<1> QED
    BY <1>6, <1>7

(***************************************************************************)
(* Every usage that the messages of execute document, with numbers where   *)
(* they belong, reaches the daemon as the command it documents             *)
(* (cache_command_handler.cpp, cache_command_parser.cpp).                  *)
(***************************************************************************)
THEOREM UsageIsDoneTheorem == Spec => []UsageIsDone
BY AlwaysInv, AlwaysSent, UsageIs, PTL
-----------------------------------------------------------------------------
(***************************************************************************)
(* The types.  What the members of Arguments are told says what they are.  *)
(***************************************************************************)
Modes == {"Recursive", "Forwarder", "Iterative", "Validating", "Insecure", "StrictDNSSEC",
          "Dot", "Unknown"}
Statuses == {"none", "success", "failure"}

LEMMA LastIs ==
    ASSUME NEW n \in Nat, NEW at \in SUBSET (1..n)
    PROVE  LastOf(at) = 0 \/ LastOf(at) \in at
<1> SUFFICES ASSUME at # {} PROVE \E i \in at : \A j \in at : j <= i
    BY DEF LastOf
<1> DEFINE T == {n - i : i \in at}
<1>1. T \in SUBSET Nat /\ T # {}
    <2>1. \A i \in at : i \in 1..n
        OBVIOUS
    <2>2. \A i \in 1..n : n - i \in Nat
        OBVIOUS
    <2> QED
        BY <2>1, <2>2
<1>2. PICK m \in T : \A k \in T : m <= k
    BY <1>1, LeastNat
<1>3. PICK i \in at : m = n - i
    BY <1>2
<1>4. ASSUME NEW j \in at PROVE j <= i
    <2>1. n - j \in T
        OBVIOUS
    <2>2. n - i <= n - j
        BY <1>2, <1>3, <2>1
    <2> QED
        BY <2>2
<1> QED
    BY <1>4

\* The argument of an option that is not wrong is a word, and a number for a number.
LEMMA MeansTyped ==
    ASSUME typed \in Seq(STRING), NEW S \in SUBSET Options,
           \A i \in S : ~IsWrong(typed, i), NEW w \in DOMAIN Field \ {"--trace"},
           LatestIn({w}, S) # 0
    PROVE  LET v == Means(w, LatestIn({w}, S))
           IN  /\ w = "--mode" => v \in Modes
               /\ w \in Numbers => v \in Int
               /\ w # "--mode" /\ w \notin Numbers => v \in STRING
<1> DEFINE i == LatestIn({w}, S)
           at == {j \in S : typed[j] \in {w}}
           value == typed[i + 1]
           n == Len(typed)
<1>1. n \in Nat /\ at \in SUBSET (1..n)
    BY OptionsDef
<1>2. i \in at
    BY <1>1, LastIs DEF LatestIn
<1>3. i \in S /\ i \in 1..n /\ typed[i] = w
    BY <1>1, <1>2
<1> HIDE DEF i, at
<1>4. TakesArgument(w)
    BY DEF TakesArgument
<1>5. i # n /\ (w \in Numbers => IsInt(value))
    BY <1>3, <1>4 DEF IsWrong, Numbers
<1>6. value \in STRING
    <2>1. i + 1 \in 1..n
        BY <1>1, <1>3, <1>5
    <2> QED
        BY <2>1
<1>7. w \in Numbers => Number[value] \in Int
    BY <1>5, LineAssumption DEF IsInt
<1> HIDE DEF value, n
<1>8. \A j : Means(w, j) = IF w = "--mode" THEN Mode(typed[j + 1])
                            ELSE IF w \in Numbers THEN Number[typed[j + 1]] ELSE typed[j + 1]
    BY DEF Means, Numbers
<1>9. ASSUME w = "--mode" PROVE Means(w, i) \in Modes
    <2>1. Mode(value) \in Modes
        BY DEF Mode, Modes
    <2> QED
        BY <1>8, <1>9, <2>1 DEF value
<1>10. ASSUME w \in Numbers PROVE Means(w, i) \in Int
    <2>1. w # "--mode"
        BY <1>10 DEF Numbers
    <2> QED
        BY <1>7, <1>8, <1>10, <2>1 DEF value
<1>11. ASSUME w # "--mode", w \notin Numbers PROVE Means(w, i) \in STRING
    BY <1>6, <1>8, <1>11 DEF value
<1> QED
    BY <1>9, <1>10, <1>11 DEF i

LEMMA DefaultsAre ==
    /\ Defaults.ns \in STRING /\ Defaults.name \in STRING /\ Defaults.qtype \in STRING
    /\ Defaults.sni \in STRING /\ Defaults.trust_anchor \in STRING
    /\ Defaults.fanout \in Int /\ Defaults.workers \in Int /\ Defaults.timeout \in Int
    /\ Defaults.mode \in Modes
<1> DEFINE W == STRING
<1>1. {"8.8.8.8", "example.com.", "A", ""} \subseteq W
    BY TextAssumption
<1> HIDE DEF W
<1>2. /\ Defaults.ns = "8.8.8.8" /\ Defaults.name = "example.com." /\ Defaults.qtype = "A"
      /\ Defaults.sni = "" /\ Defaults.trust_anchor = ""
    BY DEF Defaults
<1>3. /\ Defaults.ns \in W /\ Defaults.name \in W /\ Defaults.qtype \in W
      /\ Defaults.sni \in W /\ Defaults.trust_anchor \in W
    BY <1>1, <1>2
<1>4. /\ Defaults.fanout \in Int /\ Defaults.workers \in Int /\ Defaults.timeout \in Int
      /\ Defaults.mode \in Modes
    BY DEF Defaults, Modes
<1> QED
    BY <1>3, <1>4, Zenon DEF W

LEMMA SaysTyped ==
    ASSUME typed \in Seq(STRING), NEW S \in SUBSET Options,
           \A i \in S : ~IsWrong(typed, i), Says(args, S)
    PROVE  /\ \A w \in DOMAIN Field \ ({"--trace", "--mode"} \cup Numbers) :
                 args[Field[w]] \in STRING
           /\ \A w \in Numbers : args[Field[w]] \in Int
           /\ args.mode \in Modes
           /\ args.trace \in BOOLEAN /\ args.has_dns_args \in BOOLEAN
           /\ args.cache_command \in {"None"} \cup {Command[w] : w \in DOMAIN Command}
<1>1. \A w \in DOMAIN Field \ {"--trace"} :
         args[Field[w]] = IF LatestIn({w}, S) = 0 THEN Defaults[Field[w]]
                          ELSE Means(w, LatestIn({w}, S))
    BY DEF Says
<1>2. ASSUME NEW w \in DOMAIN Field \ ({"--trace", "--mode"} \cup Numbers)
      PROVE  args[Field[w]] \in STRING
    <2>1. Defaults[Field[w]] \in STRING
        <3>1. w \in {"--ns", "--name", "--qtype", "--sni", "--trust-anchor"}
            BY <1>2, FieldIs DEF Numbers
        <3>2. /\ w = "--ns" => Field[w] = "ns"
              /\ w = "--name" => Field[w] = "name"
              /\ w = "--qtype" => Field[w] = "qtype"
              /\ w = "--sni" => Field[w] = "sni"
              /\ w = "--trust-anchor" => Field[w] = "trust_anchor"
            BY DEF Field
        <3> QED
            BY <3>1, <3>2, DefaultsAre
    <2>2. LatestIn({w}, S) # 0 => Means(w, LatestIn({w}, S)) \in STRING
        BY <1>2, MeansTyped
    <2> QED
        BY <1>1, <1>2, <2>1, <2>2
<1>3. ASSUME NEW w \in Numbers PROVE args[Field[w]] \in Int
    <2>1. w \in DOMAIN Field \ {"--trace"} /\ w # "--mode"
        BY FieldIs DEF Numbers
    <2>2. Defaults[Field[w]] \in Int
        <3>1. /\ w = "--fanout" => Field[w] = "fanout"
              /\ w = "--workers" => Field[w] = "workers"
              /\ w = "--timeout" => Field[w] = "timeout"
            BY DEF Field
        <3> QED
            BY <3>1, DefaultsAre DEF Numbers
    <2>3. LatestIn({w}, S) # 0 => Means(w, LatestIn({w}, S)) \in Int
        BY <2>1, MeansTyped
    <2> QED
        BY <1>1, <2>1, <2>2, <2>3
<1>4. args.mode \in Modes
    <2>1. "--mode" \in DOMAIN Field \ {"--trace"} /\ Field["--mode"] = "mode"
        BY DEF Field
    <2> DEFINE w == "--mode"
    <2>2. w \in DOMAIN Field \ {"--trace"} /\ w = "--mode"
        BY <2>1
    <2> HIDE DEF w
    <2>3. LatestIn({w}, S) # 0 => Means(w, LatestIn({w}, S)) \in Modes
        BY <2>2, MeansTyped
    <2>4. Field[w] = "mode"
        BY <2>1 DEF w
    <2> QED
        BY <1>1, <2>2, <2>3, <2>4, DefaultsAre
<1>5. args.trace \in BOOLEAN /\ args.has_dns_args \in BOOLEAN
    BY DEF Says
<1>6. args.cache_command \in {"None"} \cup {Command[w] : w \in DOMAIN Command}
    <2> DEFINE i == LatestIn(DOMAIN Command, S)
               at == {j \in S : typed[j] \in DOMAIN Command}
    <2>1. args.cache_command = IF i = 0 THEN "None" ELSE Command[typed[i]]
        BY DEF Says
    <2>2. Len(typed) \in Nat /\ at \in SUBSET (1..Len(typed))
        BY OptionsDef
    <2>3. i = 0 \/ i \in at
        BY <2>2, LastIs DEF LatestIn
    <2>4. i # 0 => typed[i] \in DOMAIN Command
        BY <2>3
    <2> HIDE DEF i
    <2> QED
        BY <2>1, <2>4
<1> QED
    BY <1>2, <1>3, <1>4, <1>5, <1>6

ArgsTyped ==
    args \in [ns : STRING, name : STRING, qtype : STRING, sni : STRING, mode : Modes,
              trust_anchor : STRING, fanout : Int, workers : Int, timeout : Int,
              trace : BOOLEAN, has_dns_args : BOOLEAN,
              cache_command : {"None"} \cup {Command[w] : w \in DOMAIN Command}]

LEMMA ArgsAreTyped == IInv => ArgsTyped
<1> SUFFICES ASSUME IInv PROVE ArgsTyped
    OBVIOUS
<1>1. typed \in Seq(STRING) /\ HasMembers(args)
    BY DEF IInv, Words
<1> DEFINE S == IF pc = "parse" THEN SoFar ELSE Effective
<1>2. S \in SUBSET Options /\ \A i \in S : ~IsWrong(typed, i)
    <2>1. CASE pc = "parse"
        BY <2>1 DEF IInv, NoneWrong, SoFar
    <2>2. CASE pc # "parse"
        <3>1. \A i \in Options : i <= i
            BY <1>1 DEF Options
        <3> QED
            BY <2>2, <3>1 DEF Effective
    <2> QED
        BY <2>1, <2>2
<1>3. Says(args, S)
    BY DEF IInv
<1> HIDE DEF S
<1>4. /\ \A w \in DOMAIN Field \ ({"--trace", "--mode"} \cup Numbers) : args[Field[w]] \in STRING
      /\ \A w \in Numbers : args[Field[w]] \in Int
      /\ args.mode \in Modes
      /\ args.trace \in BOOLEAN /\ args.has_dns_args \in BOOLEAN
      /\ args.cache_command \in {"None"} \cup {Command[w] : w \in DOMAIN Command}
    BY <1>1, <1>2, <1>3, SaysTyped
<1>5. /\ args.ns \in STRING /\ args.name \in STRING /\ args.qtype \in STRING
      /\ args.sni \in STRING /\ args.trust_anchor \in STRING
    <2>1. \A w \in {"--ns", "--name", "--qtype", "--sni", "--trust-anchor"} :
              w \in DOMAIN Field \ ({"--trace", "--mode"} \cup Numbers)
        BY FieldIs DEF Numbers
    <2>2. /\ Field["--ns"] = "ns" /\ Field["--name"] = "name" /\ Field["--qtype"] = "qtype"
          /\ Field["--sni"] = "sni" /\ Field["--trust-anchor"] = "trust_anchor"
        BY DEF Field
    <2>3. \A w \in {"--ns", "--name", "--qtype", "--sni", "--trust-anchor"} :
              args[Field[w]] \in STRING
        BY <1>4, <2>1
    <2> QED
        BY <2>2, <2>3
<1>6. args.fanout \in Int /\ args.workers \in Int /\ args.timeout \in Int
    <2>1. /\ Field["--fanout"] = "fanout" /\ Field["--workers"] = "workers"
          /\ Field["--timeout"] = "timeout"
        BY DEF Field
    <2> QED
        BY <1>4, <2>1 DEF Numbers
<1>7. args = [f \in Members |-> args[f]]
    BY <1>1 DEF HasMembers
<1> QED
    BY <1>4, <1>5, <1>6, <1>7 DEF ArgsTyped, Members

\* The line is of words, each of argv or of the program's own.
LEMMA SentTyped ==
    ASSUME argv \in Seq(STRING), CommandSent,
           args.cache_command \in {Command[w] : w \in DOMAIN Command}
    PROVE  sent \in Seq(STRING)
<1> DEFINE n == Len(argv)
           c == args.cache_command
<1>1. n \in Nat /\ \A k \in 1..n : argv[k] \in STRING
    OBVIOUS
<1>2. sent = Split(CommandWords) /\ c # "Activate" /\ n >= Least
    BY DEF CommandSent
<1>3. \A v \in Verbs : v \in STRING
    BY NotCut
<1>4. "1" \in STRING
    BY LineAssumption
<1>5. CASE c \in {"SetPositive", "SetNegative", "Get", "GetNegative"}
    <2>1. Least = 2
        BY <1>5 DEF Least
    <2>2. argv[2] \in STRING
        <3>1. 2 \in 1..n
            BY <1>1, <1>2, <2>1
        <3> QED
            BY <1>1, <3>1
    <2>3. ASSUME NEW verb \in Verbs PROVE Lookup(verb) \in Seq(STRING)
        <3>1. Given(3, "1") \in STRING /\ Given(4, "1") \in STRING
            <4>1. (3 <= n => 3 \in 1..n) /\ (4 <= n => 4 \in 1..n)
                BY <1>1
            <4> QED
                BY <1>1, <1>4, <4>1 DEF Given
        <3>2. verb \in STRING
            BY <1>3
        <3> QED
            BY <2>2, <3>1, <3>2, FourWords, Zenon DEF Lookup
    <2>4. ASSUME NEW u \in Verbs PROVE <<"SET", u, argv[2]>> \in Seq(STRING)
        <3>1. "SET" \in STRING /\ u \in STRING
            BY <1>3 DEF Verbs
        <3> QED
            BY <2>2, <3>1, ThreeOf, Zenon
    <2>5. CommandWords \in Seq(STRING)
        <3>1. {"GET", "GET_NEGATIVE", "POSITIVE", "NEGATIVE"} \subseteq Verbs
            BY DEF Verbs
        <3>2. \/ CommandWords \in {Lookup("GET"), Lookup("GET_NEGATIVE")}
              \/ CommandWords \in {<<"SET", "POSITIVE", argv[2]>>,
                                   <<"SET", "NEGATIVE", argv[2]>>}
            BY <1>5 DEF CommandWords
        <3> QED
            BY <2>3, <2>4, <3>1, <3>2
    <2> QED
        BY <1>2, <2>5, SplitType
<1>6. CASE c \in {"Put", "PutNegative"}
    <2>1. Least \in {5, 6}
        BY <1>6 DEF Least
    <2>2. ASSUME NEW verb \in Verbs, NEW d \in {5, 6}
          PROVE  <<verb>> \o Arguments(d) \in Seq(STRING)
        <3> DEFINE m == IF n <= d THEN n ELSE d + 1
                   b == SubSeq(argv, 2, m)
        <3>1. m \in 2 - 1..Len(argv) /\ 2 \in 1..Len(argv) + 1
            BY <1>1, <1>2, <2>1
        <3> HIDE DEF m
        <3>2. b \in Seq(STRING)
            BY <3>1, SubSeqIs
        <3>3. Arguments(d) = b
            BY DEF Arguments, m
        <3>4. <<verb>> \in Seq(STRING)
            BY <1>3, OneWord
        <3> HIDE DEF b
        <3> QED
            BY <3>2, <3>3, <3>4, ConcatIs
    <2>3. CommandWords \in Seq(STRING)
        <3>1. "PUT" \in Verbs /\ "PUT_NEGATIVE" \in Verbs
            BY DEF Verbs
        <3>2. CommandWords \in {<<"PUT">> \o Arguments(6), <<"PUT_NEGATIVE">> \o Arguments(5)}
            BY <1>6 DEF CommandWords
        <3> QED
            BY <2>2, <3>1, <3>2
    <2> QED
        BY <1>2, <2>3, SplitType
<1>7. CASE c \notin {"SetPositive", "SetNegative", "Get", "GetNegative", "Put", "PutNegative"}
    <2>1. \/ CommandWords \in {<<v>> : v \in Verbs}
          \/ CommandWords \in {<<v, u>> : v \in Verbs, u \in Verbs}
        <3>1. \E w \in DOMAIN Command : c = Command[w]
            OBVIOUS
        <3>2. c \in {"Deactivate", "Status", "PurgePositive", "PurgeNegative", "PurgeAll",
                     "ListPositive", "ListNegative", "ListAll"}
            BY <1>2, <1>7, <3>1 DEF Command
        <3>3. {"SHUTDOWN", "STATUS", "PURGE", "LIST", "ALL", "POSITIVE", "NEGATIVE"}
                  \subseteq Verbs
            BY DEF Verbs
        <3>4. /\ c = "Deactivate" => CommandWords = <<"SHUTDOWN">>
              /\ c = "Status" => CommandWords = <<"STATUS">>
              /\ c = "PurgeAll" => CommandWords = <<"PURGE", "ALL">>
              /\ c = "PurgePositive" => CommandWords = <<"PURGE", "POSITIVE">>
              /\ c = "PurgeNegative" => CommandWords = <<"PURGE", "NEGATIVE">>
              /\ c = "ListAll" => CommandWords = <<"LIST", "ALL">>
              /\ c = "ListPositive" => CommandWords = <<"LIST", "POSITIVE">>
              /\ c = "ListNegative" => CommandWords = <<"LIST", "NEGATIVE">>
            BY DEF CommandWords
        <3> HIDE DEF c
        <3> QED
            BY <3>2, <3>3, <3>4
    <2>2. CommandWords \in Seq(STRING)
        <3>1. CASE CommandWords \in {<<v>> : v \in Verbs}
            BY <1>3, <3>1, OneWord
        <3>2. CASE CommandWords \in {<<v, u>> : v \in Verbs, u \in Verbs}
            <4>1. PICK v \in Verbs, u \in Verbs : CommandWords = <<v, u>>
                BY <3>2
            <4>2. <<v, u>> \in Seq(STRING)
                BY <1>3, TwoOf, Zenon
            <4> QED
                BY <4>1, <4>2
        <3> QED
            BY <2>1, <3>1, <3>2
    <2> QED
        BY <1>2, <2>2, SplitType
<1> QED
    BY <1>5, <1>6, <1>7

StatusTyped == status \in Statuses

LEMMA AlwaysStatus == Spec => []StatusTyped
<1>1. Init => StatusTyped
    BY DEF Init, StatusTyped, Statuses
<1>2. StatusTyped /\ [Next]_vars => StatusTyped'
    BY DEF StatusTyped, Statuses, Next, vars, ParseOption, ParseEnd, RunCommand, Answered,
           RunQuery, Exit
<1> QED
    BY <1>1, <1>2, PTL DEF Spec

LEMMA TypesAre == IInv /\ LineIsSent /\ StatusTyped => TypeOK
<1> SUFFICES ASSUME IInv, LineIsSent, StatusTyped PROVE TypeOK
    OBVIOUS
<1>1. ArgsTyped
    BY ArgsAreTyped
<1>2. /\ argv \in Seq(STRING) /\ Len(argv) = Len(typed)
      /\ 1 <= firstNonopt /\ firstNonopt <= lastNonopt /\ lastNonopt <= Len(argv) + 1
      /\ optind \in 1..Len(argv) + 1
    <2>1. /\ typed \in Seq(STRING) /\ argv \in Seq(STRING) /\ Len(argv) = Len(typed)
          /\ optind \in Nat /\ firstNonopt \in Nat /\ lastNonopt \in Nat
          /\ 1 <= firstNonopt /\ firstNonopt <= lastNonopt /\ lastNonopt <= optind
          /\ optind <= Len(argv) + 1
        BY DEF IInv, Words
    <2>2. Len(argv) \in Nat
        BY <2>1
    <2> QED
        BY <2>1, <2>2
<1>3. pc \in {"parse", "main", "send", "serve", "resolve", "exit"}
    BY DEF IInv
<1>4. sent \in Seq(STRING)
    <2>1. CASE sent = << >>
        BY <2>1, EmptyWords
    <2>2. CASE sent # << >>
        <3>1. CommandSent
            BY <1>3, <2>2 DEF LineIsSent
        <3>2. args.cache_command \in {Command[w] : w \in DOMAIN Command}
            BY <1>1, <3>1 DEF ArgsTyped, CommandSent
        <3> QED
            BY <1>2, <3>1, <3>2, SentTyped
    <2> QED
        BY <2>1, <2>2
<1>5. status \in {"none", "success", "failure"}
    BY DEF StatusTyped, Statuses
<1> QED
    BY <1>1, <1>2, <1>3, <1>4, <1>5 DEF TypeOK, ArgsTyped, Modes

(***************************************************************************)
(* Types: whatever words are typed, getopt's places stay in argv, the      *)
(* members of Arguments are of their types (arguments.hpp:58-90) and what  *)
(* is sent is a line of words.                                             *)
(***************************************************************************)
THEOREM TypeOKTheorem == Spec => []TypeOK
BY AlwaysInv, AlwaysSent, AlwaysStatus, TypesAre, PTL

=============================================================================
