------------------------------ MODULE ObserverTexts ------------------------------
(***************************************************************************)
(* What the observers read out of text: hexadecimal tokens, profanity and  *)
(* the commit's own hash in a message (observer/impls/hex_tokens.rs,       *)
(* profanity.rs, quine_prefix.rs), and whether two blobs differ only in    *)
(* whitespace (utils/utf8_whitespace.rs).                                  *)
(*                                                                         *)
(* The specification types a message, or a pair of blobs, one character or *)
(* byte at a time, so that TLC compares each scanner with a definition     *)
(* that does not scan, on every text up to a length.                       *)
(***************************************************************************)
EXTENDS Enumeration

CONSTANTS
  HexLetters, Digits, Letters, Punctuation,   \* the characters of messages
  Lower,            \* to_ascii_lowercase
  MinToken,         \* MIN_TOKEN_LEN
  MaxToken,         \* MAX_TOKEN_LEN: tokens are shorter
  Swearwords,       \* what rustrict censors, wherever it occurs
  Allowed,          \* ALLOWED_WORDS
  Hash,             \* the hash of the commit, in lower case
  MinPrefix,        \* MIN_OBSERVER_PREFIX
  Ascii,            \* ASCII bytes
  Blank,            \* those that are whitespace
  Width,            \* utf8_char_width of the other bytes
  Utf8, Utf8Blank,  \* the multi-byte characters, and the whitespace among them
  MaxText,          \* bound: characters in a message
  MaxBytes,         \* bound: bytes in the two blobs together
  NoChar            \* None: not the start of a character

ASSUME LengthAssumption ==
  /\ MinToken \in Nat \ {0} /\ MaxToken \in Nat
  /\ MinPrefix \in Nat \ {0}
ASSUME CharacterAssumption == (HexLetters \cup Letters) \cap Digits = {}
ASSUME HashAssumption == Hash \in Seq(HexLetters \cup Digits)
\* A character of several bytes is not mistaken for a byte, nor None for either.
ASSUME Utf8Assumption ==
  /\ Utf8Blank \subseteq Utf8 /\ Blank \subseteq Ascii
  /\ \A b \in DOMAIN Width : Width[b] \in Nat
  /\ \A c \in Utf8 : Len(c) > 1
  /\ NoChar \notin Utf8 \cup {<<b>> : b \in Ascii \cup DOMAIN Width}

Hex        == HexLetters \cup Digits
Alphabetic == HexLetters \cup Letters
Alnum      == Alphabetic \cup Digits
Characters == Alnum \cup Punctuation
Bytes      == Ascii \cup DOMAIN Width

LowerCase(s) == [i \in DOMAIN s |-> Lower[s[i]]]

VARIABLES text, left, right

textVars == <<text, left, right>>

-----------------------------------------------------------------------------
(***************************************************************************)
(* extract_hex_tokens                                                      *)
(***************************************************************************)

\* What a run of hexadecimal digits must be like, apart from its surroundings.
IsToken(run) ==
  /\ Len(run) >= MinToken
  /\ Len(run) < MaxToken
  /\ \E i \in DOMAIN run : run[i] \notin Digits

\* Mutant: what stands before a run is forgotten.
ScanHalf(s, ch) ==
  IF ch \in Hex
  THEN [s EXCEPT !.current = Append(@, Lower[ch])]
  ELSE [tokens  |-> IF IsToken(s.current) /\ ch \notin Alnum
                    THEN Append(s.tokens, s.current) ELSE s.tokens,
        current |-> <<>>,
        preceded |-> FALSE]

\* One turn of the loop over the characters.
Scan(s, ch) ==
  IF ch \in Hex
  THEN [s EXCEPT !.current = Append(@, Lower[ch])]
  ELSE [tokens  |-> IF IsToken(s.current) /\ ~s.preceded /\ ch \notin Alnum
                    THEN Append(s.tokens, s.current) ELSE s.tokens,
        current |-> <<>>,
        preceded |-> ch \in Alnum]

\* The scanner after each number of characters.
Scanned(t) ==
  LET upTo[n \in 0 .. Len(t)] ==
        IF n = 0 THEN [tokens |-> <<>>, current |-> <<>>, preceded |-> FALSE]
        ELSE Scan(upTo[n - 1], t[n])
  IN  upTo

ExtractHexTokens(t) ==
  LET end == Scanned(t)[Len(t)]
  IN  IF ~end.preceded /\ IsToken(end.current)
      THEN Append(end.tokens, end.current) ELSE end.tokens

(***************************************************************************)
(* find_profane_words                                                      *)
(***************************************************************************)
LooksLikeWord(word) ==
  Cardinality({i \in DOMAIN word : word[i] \in Alphabetic})
    > Cardinality({i \in DOMAIN word : word[i] \in Digits})

\* The positions that rustrict replaces by asterisks.
Censored(word) ==
  {k \in DOMAIN word : \E i, j \in DOMAIN word :
     i <= k /\ k <= j /\ LowerCase(SubSeq(word, i, j)) \in Swearwords}

\* Mutant: a match inside the word is enough.
IsProfaneInside(word) == Censored(word) # {} /\ LowerCase(word) \notin Allowed

IsProfane(word) ==
  /\ Censored(word) = DOMAIN word
  /\ LowerCase(word) \notin Allowed

\* str::split on what is not alphanumeric; empty pieces are filtered out later.
Split(t) ==
  LET upTo[n \in 0 .. Len(t)] ==
        IF n = 0 THEN [words |-> <<>>, last |-> <<>>]
        ELSE IF t[n] \in Alnum
        THEN [upTo[n - 1] EXCEPT !.last = Append(@, t[n])]
        ELSE [words |-> Append(upTo[n - 1].words, upTo[n - 1].last), last |-> <<>>]
  IN  upTo

Pieces(t) == LET end == Split(t)[Len(t)] IN Append(end.words, end.last)

FindProfaneWords(t) ==
  LET all    == Pieces(t)
      wanted == Part(all, {i \in DOMAIN all : /\ all[i] # <<>>
                                              /\ LooksLikeWord(all[i]) /\ IsProfane(all[i])})
  IN  [i \in DOMAIN wanted |-> LowerCase(wanted[i])]

(***************************************************************************)
(* QuinePrefixObserver::on_commit, its loop from the whole hash down.      *)
(***************************************************************************)
OccursIn(s, t) == \E i \in 0 .. Len(t) - Len(s) : SubSeq(t, i + 1, i + Len(s)) = s

\* Mutant: the loop runs from the shortest prefix up.
QuinePrefixShortest(t) ==
  IF OccursIn(SubSeq(Hash, 1, MinPrefix), t) THEN MinPrefix ELSE 0

\* The matched length, 0 when nothing is observed.
QuinePrefix(t) ==
  LET longest[n \in 0 .. Len(Hash)] ==
        IF n < MinPrefix THEN 0
        ELSE IF OccursIn(SubSeq(Hash, 1, n), t) THEN n ELSE longest[n - 1]
  IN  longest[Len(Hash)]

-----------------------------------------------------------------------------
(***************************************************************************)
(* is_equal_ignoring_whitespace                                            *)
(***************************************************************************)

\* decode_utf8_char at position i.
Decoded(s, i) ==
  LET len   == IF Width[s[i]] < Len(s) - i + 1 THEN Width[s[i]] ELSE Len(s) - i + 1
      bytes == SubSeq(s, i, i + len - 1)
  IN  IF Width[s[i]] # 0 /\ bytes \in Utf8
      THEN [char |-> bytes, len |-> len]
      ELSE [char |-> NoChar, len |-> 1]

\* Mutant: only ASCII whitespace is skipped.
SkipAscii(s, i) ==
  LET blank == {k \in i .. Len(s) + 1 : \A m \in i .. k - 1 : s[m] \in Blank}
  IN  CHOOSE k \in blank : \A m \in blank : m <= k

\* skip_whitespace: the first position from i on that is not whitespace.
Skip(s, i) ==
  LET from[k \in 1 .. Len(s) + 1] ==
        IF k > Len(s) THEN k
        ELSE IF s[k] \in Ascii THEN IF s[k] \in Blank THEN from[k + 1] ELSE k
        ELSE IF Decoded(s, k).char \in Utf8Blank THEN from[k + Decoded(s, k).len] ELSE k
  IN  from[i]

\* The two-finger comparison.
IsEqualIgnoringWhitespace(a, b) ==
  LET same[ij \in (1 .. Len(a) + 1) \X (1 .. Len(b) + 1)] ==
        LET ai == Skip(a, ij[1])
            bi == Skip(b, ij[2])
        IN  IF ai > Len(a) \/ bi > Len(b) THEN ai > Len(a) /\ bi > Len(b)
            ELSE IF a[ai] \in Ascii /\ b[bi] \in Ascii
                 THEN a[ai] = b[bi] /\ same[<<ai + 1, bi + 1>>]
            ELSE IF a[ai] \in Ascii \/ b[bi] \in Ascii THEN FALSE
            ELSE LET ac == Decoded(a, ai)
                     bc == Decoded(b, bi)
                 IN  /\ ac.char = bc.char
                     /\ ac.char = NoChar => a[ai] = b[bi]
                     /\ same[<<ai + ac.len, bi + bc.len>>]
  IN  same[<<1, 1>>]

-----------------------------------------------------------------------------
TextInit == text = <<>> /\ left = <<>> /\ right = <<>>

Type(ch) ==
  /\ left = <<>> /\ right = <<>>
  /\ Len(text) < MaxText
  /\ text' = Append(text, ch)
  /\ UNCHANGED <<left, right>>

Store(b) ==
  /\ text = <<>>
  /\ Len(left) + Len(right) < MaxBytes
  /\ \/ right = <<>> /\ left' = Append(left, b) /\ UNCHANGED right
     \/ right' = Append(right, b) /\ UNCHANGED left
  /\ UNCHANGED text

TextNext == (\E ch \in Characters : Type(ch)) \/ (\E b \in Bytes : Store(b))

TextSpec == TextInit /\ [][TextNext]_textVars

-----------------------------------------------------------------------------
\* The longest stretches i .. j of a text inside a set of characters.
Stretches(t, S) ==
  {ij \in (DOMAIN t) \X (DOMAIN t) :
     /\ ij[1] <= ij[2]
     /\ \A k \in ij[1] .. ij[2] : t[k] \in S
     /\ ij[1] > 1 => t[ij[1] - 1] \notin S
     /\ ij[2] < Len(t) => t[ij[2] + 1] \notin S}

Piece(t, ij) == LowerCase(SubSeq(t, ij[1], ij[2]))

\* Stretches in order; no two begin at the same character.
InOrder(t, S) ==
  LET starts == ListOf({ij[1] : ij \in S})
  IN  [k \in DOMAIN starts |-> Piece(t, CHOOSE ij \in S : ij[1] = starts[k])]

\* The tokens of a message are its words that are all hexadecimal, of a length
\* within the limits and not a plain number, each once and in order: the scanner
\* loses none at either end and takes none out of a longer word.
TokensStandAlone ==
  ExtractHexTokens(text) =
    InOrder(text, {ij \in Stretches(text, Alnum) \cap Stretches(text, Hex) :
                     IsToken(Piece(text, ij))})

\* Profanity is reported for whole words only, every occurrence in order: a
\* swearword inside a harmless word, or among digits, is not one.
ProfanityStandsAlone ==
  FindProfaneWords(text) =
    InOrder(text, {ij \in Stretches(text, Alnum) :
      /\ \A k \in ij[1] .. ij[2] : \E m \in ij[1] .. k, n \in k .. ij[2] :
           Piece(text, <<m, n>>) \in Swearwords
      /\ 2 * Cardinality({k \in ij[1] .. ij[2] : text[k] \in Digits}) < ij[2] - ij[1] + 1
      /\ Piece(text, ij) \notin Allowed})

\* The observed length is that of the longest prefix of the hash, not of the
\* first one that occurs, and nothing is observed below the minimum.
LongestPrefixFound ==
  LET n == QuinePrefix(text) IN
  /\ n # 0 => OccursIn(SubSeq(Hash, 1, n), text) /\ n >= MinPrefix
  /\ \A m \in MinPrefix .. Len(Hash) : m > n => ~OccursIn(SubSeq(Hash, 1, m), text)

\* The characters of a blob that are not whitespace; a byte that starts none
\* stands for itself.
EssenceFrom(s) ==
  LET from[i \in 1 .. Len(s) + 1] ==
        IF i > Len(s) THEN <<>>
        ELSE LET c == IF s[i] \in Ascii THEN [char |-> <<s[i]>>, len |-> 1] ELSE Decoded(s, i)
                 rest == from[i + c.len]
             IN  IF c.char \in Utf8Blank \cup {<<b>> : b \in Blank} THEN rest
                 ELSE <<IF c.char = NoChar THEN <<s[i]>> ELSE c.char>> \o rest
  IN  from

Essence(s) == EssenceFrom(s)[1]

\* Two blobs compare equal exactly when they are the same text with the ASCII
\* and Unicode whitespace taken out, also when a character is cut off.
BlobsCompareByCharacter ==
  IsEqualIgnoringWhitespace(left, right) <=> Essence(left) = Essence(right)
=============================================================================
