---------------------------- MODULE ConfirmInput ----------------------------
(***************************************************************************)
(* The confirmation gate of `todo delete` (src/tools/todo-cli/src/main.rs, *)
(* Commands::Delete): the line read from stdin is trimmed of surrounding   *)
(* whitespace and compared with "y" ignoring ASCII case.  A line is a      *)
(* sequence of characters over a small alphabet that contains whitespace,  *)
(* both cases of the expected letter and a letter that is not it.          *)
(***************************************************************************)
EXTENDS Sequences, FiniteSetsExt

\* The characters a line can hold; "\n" is the newline read_line keeps.
Alphabet == {" ", "\n", "y", "Y", "n"}

\* Whitespace in the sense of str::trim.
IsSpace(c) == c \in {" ", "\n"}

\* str::trim: drops leading and trailing whitespace.
Trim(s) ==
    LET keep == {i \in DOMAIN s : ~IsSpace(s[i])}
    IN  IF keep = {} THEN <<>> ELSE SubSeq(s, Min(keep), Max(keep))

\* ASCII lower-casing of one character (to_ascii_lowercase).
AsciiLower(c) == IF c = "Y" THEN "y" ELSE c

\* str::eq_ignore_ascii_case: same length, equal after lower-casing.
EqIgnoreAsciiCase(a, b) ==
    /\ Len(a) = Len(b)
    /\ \A i \in DOMAIN a : AsciiLower(a[i]) = AsciiLower(b[i])

\* Plausible bug: a case-sensitive comparison, input.trim() == "y".
IsYesCaseSensitive(s) == Trim(s) = <<"y">>

\* input.trim().eq_ignore_ascii_case("y")
IsYes(s) == EqIgnoreAsciiCase(Trim(s), <<"y">>)

\* Reference reading of the spec: the answer is exactly one y or Y,
\* with nothing but whitespace around it.
IsYesRef(s) ==
    \E i \in DOMAIN s :
        /\ s[i] \in {"y", "Y"}
        /\ \A j \in DOMAIN s \ {i} : IsSpace(s[j])
=============================================================================
