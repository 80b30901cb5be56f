--------------------------- MODULE MCConfirmInput ---------------------------
(* Enumerates every line of at most MaxLineLen characters as a state and   *)
(* compares the gate's decision with the reference reading.                *)
EXTENDS ConfirmInput, SequencesExt

MaxLineLen == 4

VARIABLE line

Init == line \in BoundedSeq(Alphabet, MaxLineLen)

\* Each state is one line typed at the prompt; nothing follows it.
Next == UNCHANGED line

Spec == Init /\ [][Next]_line

TypeOK == line \in BoundedSeq(Alphabet, MaxLineLen)

\* The delete prompt proceeds exactly on the answers the spec calls yes:
\* "y" or "Y" alone, whitespace and the trailing newline aside (main.rs
\* Commands::Delete, input.trim().eq_ignore_ascii_case("y")).
GateMatchesSpec == IsYes(line) <=> IsYesRef(line)
=============================================================================
