------------------------------ MODULE CleanKey ------------------------------
(***************************************************************************)
(* cleanKey of pkg/storage/storage.go: from the storage keys of certmagic  *)
(* to names of Kubernetes objects.  A text is a sequence of characters.    *)
(***************************************************************************)
EXTENDS Integers, FiniteSets, Sequences

\* A few characters of each class the regular expressions tell apart; every
\* other character is special.
Lowercase == {"a", "b"}
Uppercase == {"A", "B"}
Digits == {"1"}

\* strings.ToLower
Lower(c) == CASE c = "A" -> "a" [] c = "B" -> "b" [] OTHER -> c

EndsIn(s, chars) == s # <<>> /\ s[Len(s)] \in chars

\* strings.TrimRight(s, chars) and strings.TrimLeft(s, chars)
TrimRight(s, chars) ==
    SubSeq(s, 1, Cardinality({i \in DOMAIN s : \E j \in i .. Len(s) : s[j] \notin chars}))

TrimLeft(s, chars) ==
    SubSeq(s, 1 + Cardinality({i \in DOMAIN s : \A j \in 1 .. i : s[j] \in chars}), Len(s))

\* specialChars: a run of special characters becomes one dot; and ToLower.
ReplaceSpecial(key) ==
    LET upTo[i \in 0 .. Len(key)] ==
            IF i = 0 THEN <<>>
            ELSE LET s == upTo[i - 1]
                     c == key[i]
                 IN  IF c \in Lowercase \cup Uppercase \cup Digits \cup {"-"}
                     THEN Append(s, Lower(c))
                     ELSE IF EndsIn(s, {"."}) THEN s ELSE Append(s, ".")
    IN  upTo[Len(key)]

\* Faulty variant of ReplaceDotDashRuns: dashes before a dot stay.
ReplaceDotDashRuns_after_only(text) ==
    LET upTo[i \in 0 .. Len(text)] ==
            IF i = 0 THEN <<>>
            ELSE LET s == upTo[i - 1]
                 IN  IF text[i] \in {".", "-"} /\ EndsIn(s, {"."}) THEN s ELSE Append(s, text[i])
    IN  upTo[Len(text)]

\* dotDashRuns: a run of dots and dashes with a dot in it becomes one dot.
ReplaceDotDashRuns(text) ==
    LET upTo[i \in 0 .. Len(text)] ==
            IF i = 0 THEN <<>>
            ELSE LET s == upTo[i - 1]
                     c == text[i]
                 IN  CASE c = "." -> Append(TrimRight(s, {".", "-"}), ".")
                       [] c = "-" /\ EndsIn(s, {"."}) -> s
                       [] OTHER -> Append(s, c)
    IN  upTo[Len(text)]

\* Faulty variant of cleanKey: the dashes at the end stay.
cleanKey_keeps_dashes(key) ==
    LET text == ReplaceDotDashRuns(ReplaceSpecial(key))
    IN  TrimRight(TrimLeft(text, {"."}), {"."})

\* Faulty variant of cleanKey: one dash at the end is cut off, not all of them.
cleanKey_trims_one_dash(key) ==
    LET text == cleanKey_keeps_dashes(key)
    IN  IF EndsIn(text, {"-"}) THEN SubSeq(text, 1, Len(text) - 1) ELSE text

\* Without the prefix, which is the same for all keys.
cleanKey(key) ==
    LET text == ReplaceDotDashRuns(ReplaceSpecial(key))
    IN  TrimRight(TrimRight(TrimLeft(text, {"."}), {"."}), {"-"})
=============================================================================
