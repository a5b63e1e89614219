------------------------------ MODULE Suppress ------------------------------
(***************************************************************************)
(* suppress.rs: which lines carry an fc-allow directive, and which         *)
(* findings it silences.  A marker is one occurrence of the text           *)
(* `fc-allow`, [line, where, reason]: where is "comment" when no token     *)
(* covers its first byte and "token" when a string, a doc comment or an    *)
(* identifier does; reason is "noColon", "empty" or "given".  Byte offsets *)
(* and the table that turns them into lines are abstracted to line.        *)
(***************************************************************************)
EXTENDS Integers

\* Seeded fault: the text alone is enough, wherever it stands.
DirectiveAnywhere(m) == m.reason = "given"

Directive(m) == m.where = "comment" /\ m.reason = "given"

\* A source that does not lex suppresses nothing.
SuppressedLines(lexes, markers) ==
    IF lexes THEN {m.line : m \in {k \in markers : Directive(k)}} ELSE {}

\* The marker's own line and the one below; a manifest finding, on line 0, never.
IsSuppressed(suppressed, line) ==
    line # 0 /\ (line \in suppressed \/ line - 1 \in suppressed)

=============================================================================
