----------------------------- MODULE Arguments ------------------------------
(***************************************************************************)
(* main.rs parse_args: the words of the command line are collected, then   *)
(* read one after the other, a --format or --baseline taking the word that *)
(* follows with it; what holds between flags is looked at when all have    *)
(* been read.  Any step may answer and leave the rest of the line unread.  *)
(***************************************************************************)
EXTENDS CommandLine

VARIABLES
    line,       \* the words after the program's name
    index,      \* the word about to be read
    opts,       \* what was read so far: the local variables of parse_args
    status      \* "collect", "read", "accepted", "help", "usage error", "panic"

parsing == <<line, index, opts, status>>

NoOptions == [switches |-> {}, format |-> "human", baseline |-> None, root |-> None]

ParseInit ==
    /\ line \in Lines
    /\ index = 1
    /\ opts = NoOptions
    /\ status = "collect"

Reading == status = "read" /\ index <= Len(line)
Word == line[index]
HasNext == index < Len(line)

\* Go on behind the n words just read, or leave.
Advance(n, newOpts) == index' = index + n /\ opts' = newOpts /\ UNCHANGED <<line, status>>
Leave(newStatus) == status' = newStatus /\ UNCHANGED <<line, index, opts>>

-----------------------------------------------------------------------------
\* env::args panics on a word that is not Unicode, wherever it stands.
Collect ==
    /\ status = "collect"
    /\ Leave(IF \A i \in DOMAIN line : line[i] \in Unicode THEN "read" ELSE "panic")

\* Seeded fault: the switch is read without going on to the next word.
ReadSwitchAgain ==
    /\ Reading /\ Word \in Switches
    /\ Advance(0, [opts EXCEPT !.switches = @ \cup {Word}])

ReadSwitch ==
    /\ Reading /\ Word \in Switches
    /\ Advance(1, [opts EXCEPT !.switches = @ \cup {Word}])

ReadJson ==
    /\ Reading /\ Word = "--json"
    /\ Advance(1, [opts EXCEPT !.format = "json"])

ReadFormat ==
    /\ Reading /\ Word = "--format"
    /\ HasNext /\ line[index + 1] \in Formats
    /\ Advance(2, [opts EXCEPT !.format = line[index + 1]])

FormatMistake ==
    /\ Reading /\ Word = "--format"
    /\ HasNext => line[index + 1] \notin Formats
    /\ Leave("usage error")

\* Seeded fault: a word that begins with a dash is never taken for a FILE.
ReadBaselineUnlessFlag ==
    /\ Reading /\ Word = "--baseline"
    /\ HasNext
    /\ IF line[index + 1] \in Dashed
         THEN Advance(1, opts)
         ELSE Advance(2, [opts EXCEPT !.baseline = line[index + 1]])

\* Seeded fault: a FILE is taken for granted.
ReadBaselineUnchecked ==
    /\ Reading /\ Word = "--baseline"
    /\ Advance(2, [opts EXCEPT !.baseline = IF HasNext THEN line[index + 1] ELSE None])

\* The next word is the FILE, whatever it is.
ReadBaseline ==
    /\ Reading /\ Word = "--baseline"
    /\ HasNext
    /\ Advance(2, [opts EXCEPT !.baseline = line[index + 1]])

BaselineMistake ==
    /\ Reading /\ Word = "--baseline"
    /\ ~HasNext
    /\ Leave("usage error")

ReadHelp == Reading /\ Word \in HelpWords /\ Leave("help")

UnknownFlag == Reading /\ Word \in Dashed \ Known /\ Leave("usage error")

ReadRoot ==
    /\ Reading /\ Word \notin Dashed
    /\ opts.root = None
    /\ Advance(1, [opts EXCEPT !.root = Word])

ExtraArgument ==
    /\ Reading /\ Word \notin Dashed
    /\ opts.root # None
    /\ Leave("usage error")

-----------------------------------------------------------------------------
Root == IF opts.root = None THEN "." ELSE opts.root

AllRead == status = "read" /\ index > Len(line)
UpdatesNothing == "--update-baseline" \in opts.switches /\ opts.baseline = None

Reject == AllRead /\ (UpdatesNothing \/ Root \notin Resolves) /\ Leave("usage error")
Accept == AllRead /\ ~UpdatesNothing /\ Root \in Resolves /\ Leave("accepted")

ParseNext ==
    \/ Collect
    \/ ReadSwitch \/ ReadJson \/ ReadFormat \/ ReadBaseline \/ ReadRoot
    \/ FormatMistake \/ BaselineMistake \/ UnknownFlag \/ ExtraArgument
    \/ ReadHelp
    \/ Reject \/ Accept

-----------------------------------------------------------------------------
(* Properties *)

\* The refinement mapping: a line is answered when it is read no further.
Args == [switches |-> opts.switches, json |-> opts.format = "json",
         baseline |-> opts.baseline, root |-> Root]
NoArgs == [switches |-> {}, json |-> FALSE, baseline |-> None, root |-> None]
Reply ==
    CASE status \in {"collect", "read"} -> [is |-> "waiting", args |-> NoArgs]
      [] status = "accepted" -> [is |-> status, args |-> Args]
      [] OTHER -> [is |-> status, args |-> NoArgs]

Contract == INSTANCE Usage WITH reply <- Reply

\* Reading word by word answers what the line means as a whole, whatever the
\* order of its words: which words are values, which occurrence of a flag
\* counts, and which of several mistakes or calls for help comes first
\* (main.rs parse_args, parse_format).
ImplementsUsage == Contract!UsageSpec

-----------------------------------------------------------------------------
(* The inductive invariant: the word about to be read is no value, nothing   *)
(* before it ends the reading, and opts is what the words before it say.     *)

Passed(S) == {i \in S : i < index}

AtAWord ==
    /\ \A i \in DOMAIN line : line[i] \in Unicode
    /\ index \in 1..(Len(line) + 1) /\ ~Contract!IsValue(index)
    /\ Passed(Contract!Ends) = {}

SwitchesRead == opts.switches = {w \in Switches : Passed(Contract!At(w)) # {}}

FormatRead ==
    LET said == Passed(Contract!At("--json") \cup Contract!At("--format"))
    IN /\ opts.format \in Formats
       /\ opts.format = "json" <=>
            \E i \in said : /\ \A j \in said : j <= i
                            /\ line[i] = "--json" \/ line[i + 1] = "json"

BaselineRead ==
    LET said == Passed(Contract!At("--baseline"))
    IN IF said = {} THEN opts.baseline = None
       ELSE \E i \in said : /\ \A j \in said : j <= i
                            /\ i + 1 \in DOMAIN line /\ opts.baseline = line[i + 1]

RootRead ==
    LET roots == Passed({i \in DOMAIN line : Contract!IsRoot(i)})
    IN IF roots = {} THEN opts.root = None
       ELSE \E i \in roots : roots = {i} /\ opts.root = line[i]

ReadInv ==
    /\ line \in Lines
    /\ status \in {"collect", "read", "accepted", "help", "usage error", "panic"}
    /\ index \in 1..(Len(line) + 1)
    /\ opts \in [switches : SUBSET Switches, format : Formats,
                 baseline : Unicode \cup {None}, root : Unicode \cup {None}]
    /\ status = "collect" => index = 1 /\ opts = NoOptions
    /\ status \in {"read", "accepted"} =>
         AtAWord /\ SwitchesRead /\ FormatRead /\ BaselineRead /\ RootRead
    /\ status = "accepted" => index = Len(line) + 1 /\ ~UpdatesNothing /\ Root \in Resolves

=============================================================================
