----------------------------- MODULE StarPatterns -----------------------------
(***************************************************************************)
(* Texts, and the patterns with stars that filter urls, types and titles.  *)
(* A pattern is turned into an SQL LIKE pattern where rows are read from   *)
(* the database, and into a regular expression where announcements are     *)
(* matched.  A text is a sequence of characters.  LIKE ignores the case of *)
(* letters, regular expressions and equality do not.                       *)
(***************************************************************************)
EXTENDS Integers, Sequences, SequencesExt

CONSTANTS Alphabet,    \* the characters, in the order of their codes
          Lowercase    \* the lower-case letter of each upper-case one

Star == "*"
Backslash == "\\"

ASSUME AlphabetAssumption ==
    /\ Alphabet \in Seq(STRING)
    /\ \A j, k \in DOMAIN Alphabet : Alphabet[j] = Alphabet[k] => j = k

Text == Seq({Alphabet[k] : k \in DOMAIN Alphabet})

Code(c) == CHOOSE k \in DOMAIN Alphabet : Alphabet[k] = c

\* The binary collation of texts.
TextBefore(s, t) ==
    \E k \in 1 .. Len(t) : /\ k <= Len(s) + 1
                           /\ SubSeq(s, 1, k - 1) = SubSeq(t, 1, k - 1)
                           /\ k = Len(s) + 1 \/ Code(s[k]) < Code(t[k])

-------------------------------------------------------------------------------
\* The stars of the pattern that no backslash escapes.
Stars(pattern) ==
    LET escaped[k \in 0 .. Len(pattern)] ==
            k > 0 /\ pattern[k] = Backslash /\ ~escaped[k - 1]
    IN {k \in DOMAIN pattern : pattern[k] = Star /\ ~escaped[k - 1]}

Escaped(c, special) == IF c \in special THEN <<Backslash, c>> ELSE <<c>>

\* parseStarPattern: the joker for each star, and what is between them escaped.
ParseStarPattern(pattern, joker, special) ==
    FlattenSeq([k \in DOMAIN pattern |->
                   IF k \in Stars(pattern) THEN joker ELSE Escaped(pattern[k], special)])

\* The characters that escapeSqliteLikePattern puts a backslash before.
SqliteLikeSpecial == {"%", "_"}

\* Mutant: the underscore is forgotten.
StarPatternToLikeUnescaped(pattern) == ParseStarPattern(pattern, <<"%">>, {"%"})

StarPatternToLike(pattern) == ParseStarPattern(pattern, <<"%">>, SqliteLikeSpecial)

\* Those that QRegularExpression::escape puts one before: all that is no part of a word.
RegexSpecial == {"%", "*", "/", ".", ":", "'", Backslash}

StarPatternToRegex(pattern) == ParseStarPattern(pattern, <<".", "*">>, RegexSpecial)

-------------------------------------------------------------------------------
Lower(c) == IF c \in DOMAIN Lowercase THEN Lowercase[c] ELSE c
LowerText(text) == [k \in DOMAIN text |-> Lower(text[k])]

\* SQLite's LIKE with ESCAPE '\': % is any text, _ any character, and a letter is itself
\* in either case.  The rest of the pattern from i on matches the rest of the text from
\* the places in rest[i] on.
Like(text, like) ==
    LET m == Len(like)
        n == Len(text)
        rest[i \in 1 .. m + 1] ==
            CASE i > m -> {n + 1}
              [] i <= m /\ like[i] = Backslash ->
                    {j \in 1 .. n : i < m /\ Lower(like[i + 1]) = Lower(text[j]) /\ j + 1 \in rest[i + 2]}
              [] i <= m /\ like[i] = "%" -> {j \in 1 .. n + 1 : \E k \in j .. n + 1 : k \in rest[i + 1]}
              [] OTHER -> {j \in 1 .. n : /\ like[i] = "_" \/ Lower(like[i]) = Lower(text[j])
                                        /\ j + 1 \in rest[i + 1]}
    IN 1 \in rest[1]

\* An anchored regular expression made of .* and of characters, escaped or not.
HasMatch(text, regex) ==
    LET m == Len(regex)
        n == Len(text)
        rest[i \in 1 .. m + 1] ==
            CASE i > m -> {n + 1}
              [] i <= m /\ regex[i] = Backslash ->
                    {j \in 1 .. n : i < m /\ regex[i + 1] = text[j] /\ j + 1 \in rest[i + 2]}
              [] i <= m /\ regex[i] = "." ->
                    {j \in 1 .. n + 1 : i < m /\ \E k \in j .. n + 1 : k \in rest[i + 2]}
              [] OTHER -> {j \in 1 .. n : regex[i] = text[j] /\ j + 1 \in rest[i + 1]}
    IN 1 \in rest[1]

===============================================================================
