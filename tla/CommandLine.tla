---------------------------- MODULE CommandLine -----------------------------
(* The words of a command line and what the program asks of one. A word is *)
(* a string; what its characters decide is asked through sets.             *)
EXTENDS Integers, Sequences

CONSTANTS
    Lines,      \* the command lines: sequences of words
    Dashed,     \* the words that begin with a dash
    Unicode,    \* the words that are valid Unicode
    Resolves,   \* the words that canonicalize as a path from the working directory
    None        \* an Option that holds nothing

Switches == {"--advisory", "--strict", "--require-domain", "--require-kernel",
             "--skip-unparseable", "--update-baseline"}
Formats == {"human", "json"}
HelpWords == {"-h", "--help"}
Valued == {"--format", "--baseline"}
Known == Switches \cup Valued \cup HelpWords \cup {"--json"}

\* No flag is mistaken for a path, nor a path for a flag.
ASSUME WordsAssumption == Known \subseteq Dashed /\ None \notin Unicode
ASSUME LinesAssumption == \A l \in Lines : Len(l) \in Nat /\ DOMAIN l = 1..Len(l)

=============================================================================
