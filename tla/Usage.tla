------------------------------- MODULE Usage --------------------------------
(***************************************************************************)
(* What a command line of effect-audit means, as one step from the words   *)
(* of the line to an answer.  Nothing here reads the words in turn: a word *)
(* is looked at by its place, and the answer is that of the first word     *)
(* that settles the matter.  Arguments reads them in turn, and implements  *)
(* this.                                                                   *)
(***************************************************************************)
EXTENDS CommandLine

VARIABLES
    line,       \* the words after the program's name
    reply       \* [is, args]: "waiting", or what the line means

NoArgs == [switches |-> {}, json |-> FALSE, baseline |-> None, root |-> None]
Just(is) == [is |-> is, args |-> NoArgs]

-----------------------------------------------------------------------------
\* The words that are the value of the one before: of an unbroken row of
\* --format and --baseline, every other word is a value of the one before it.
IsValue(i) ==
    \E row \in {k \in 1..(i - 1) : (i - k) % 2 = 1} :
        /\ \A k \in row..(i - 1) : line[k] \in Valued
        /\ row = 1 \/ line[row - 1] \notin Valued

Spoken == {i \in DOMAIN line : ~IsValue(i)}
At(word) == {i \in Spoken : line[i] = word}
Says(word) == At(word) # {}
IsRoot(i) == i \in Spoken /\ line[i] \notin Dashed
Last(S) == CHOOSE i \in S : \A j \in S : j <= i

\* The words that end the reading of the line there and then.
IsMistake(i) ==
    \/ i \in Spoken /\ line[i] \in Dashed \ Known
    \/ IsRoot(i) /\ \E j \in DOMAIN line : j < i /\ IsRoot(j)
    \/ i \in Spoken /\ line[i] \in Valued /\ i = Len(line)
    \/ IsValue(i) /\ line[i - 1] = "--format" /\ line[i] \notin Formats
IsHelp(i) == i \in Spoken /\ line[i] \in HelpWords
Ends == {i \in DOMAIN line : IsMistake(i) \/ IsHelp(i)}
First == CHOOSE i \in Ends : \A j \in Ends : i <= j

Root == IF \E i \in DOMAIN line : IsRoot(i)
          THEN line[CHOOSE i \in DOMAIN line : IsRoot(i)] ELSE "."

\* The last of --json and --format decides, and the last --baseline.
Json ==
    LET said == At("--json") \cup At("--format")
    IN said # {} /\ \/ line[Last(said)] = "--json"
                    \/ line[Last(said) + 1] = "json"
File == IF Says("--baseline") THEN line[Last(At("--baseline")) + 1] ELSE None

Meaning ==
    IF \E i \in DOMAIN line : line[i] \notin Unicode THEN Just("panic")
    ELSE IF Ends # {} THEN IF IsHelp(First) THEN Just("help") ELSE Just("usage error")
    ELSE IF (Says("--update-baseline") /\ File = None) \/ Root \notin Resolves
      THEN Just("usage error")
    ELSE [is |-> "accepted",
          args |-> [switches |-> {w \in Switches : Says(w)}, json |-> Json,
                    baseline |-> File, root |-> Root]]

UsageInit == line \in Lines /\ reply = Just("waiting")
UsageNext == reply.is = "waiting" /\ reply' = Meaning /\ UNCHANGED line
UsageSpec == UsageInit /\ [][UsageNext]_<<line, reply>>

=============================================================================
