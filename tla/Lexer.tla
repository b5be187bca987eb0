------------------------------- MODULE Lexer --------------------------------
(***************************************************************************)
(* The lexer and the reading of literals: src/lexer/lexer.c and            *)
(* src/parser/literals.c, on the characters of one source.                 *)
(*                                                                         *)
(* A token keeps the characters it was read from instead of their decoded  *)
(* value.  The token array is at its limit with MaxCapacity tokens; any    *)
(* allocation of the loop may fail in an execution that memory_may_fail    *)
(* marks, the growth of the buffer of a long string excepted.              *)
(*                                                                         *)
(* Operators that precede a definition as a variant of it (AddUnreported,  *)
(* LongestOperatorFirst, MovedKeepingColumn) are mutants.                  *)
(***************************************************************************)
EXTENDS Integers, Sequences, SequencesExt, FiniteSetsExt

CONSTANTS
  Sources,          (* The texts considered: sequences of characters.      *)
  Letters,          (* Their letters,                                      *)
  Keywords,         (* and the keywords among the words made of them.      *)
  InitialCapacity,  (* INITIAL_TOKEN_CAPACITY                              *)
  MaxCapacity,      (* UINT16_MAX, the limit of token_capacity             *)
  LengthWidth,      (* 256: lookup_symbol takes the length as a uint8_t    *)
  PlaceWidth,       (* 65536: a line and a column are uint16_t             *)
  CharBuffer        (* The bytes of temp_buf in literal__parse_char.       *)

ASSUME CapacityAssumption ==
  InitialCapacity \in Nat \ {0} /\ MaxCapacity \in Nat \ 0 .. InitialCapacity - 1

ASSUME PlaceWidthAssumption == PlaceWidth \in Nat \ {0}

(* "end" is no character. *)
ASSUME SourcesAssumption ==
  \A text \in Sources : text \in Seq(ToSet(text)) /\ "end" \notin ToSet(text)

VARIABLES
  source,           (* The text; never changes.                            *)
  at,               (* position, line and column of the Lexer              *)
  tokens,
  capacity,         (* token_capacity                                      *)
  errors,           (* The kinds of error reported.                        *)
  done,             (* lexer__tokenize has returned.                       *)
  crashed,          (* The process has been aborted.                       *)
  memory_may_fail   (* Chosen once for an execution.                       *)

vars == <<source, at, tokens, capacity, errors, done, crashed, memory_may_fail>>

-----------------------------------------------------------------------------
(* Characters and symbols *)

Digits == {"0", "1", "2", "3", "4", "5", "6", "7", "8", "9"}
Blanks == {" ", "\t", "\n", "\r"}
Quotes == {"\"", "'"}
WordStart == Letters \union {"_"}
WordChars == WordStart \union Digits

(* No letter is a blank, nor the end. *)
ASSUME LettersAssumption == Letters \intersect (Blanks \union {"end"}) = {}

DigitsOf(base) ==
  CASE base = 2  -> {"0", "1"}
    [] base = 8  -> Digits \ {"8", "9"}
    [] base = 10 -> Digits
    [] base = 16 -> Digits \union {"a", "b", "c", "d", "e", "f", "A", "B", "C", "D", "E", "F"}

BaseOf(letter) ==
  CASE letter \in {"b", "B"} -> 2 [] letter \in {"o", "O"} -> 8 [] letter \in {"x", "X"} -> 16
    [] OTHER -> 10

Escapes == {"b", "f", "n", "r", "t", "0", "\"", "'", "\\", "a", "v", "e"}

Shifts == {[i \in 1 .. n |-> c] : n \in 2 .. 4, c \in {"<", ">"}}

(* The symbols of init_symbol_table that are no words. *)
Operators ==
  LET single   == {"%", ":", ".", ";", "=", ",", "+", "-", "*", "/", "?", "~", "|", "&", "!",
                   "^", "@", "$", ">", "<", "{", "}", "[", "]", "(", ")"}
      assigned == {"=", "!", "<", ">", "+", "-", "*", "/", "%", "|", "&", "^"}
  IN {<<c>> : c \in single} \union Shifts
       \union {Append(op, "=") : op \in Shifts \union {<<c>> : c \in assigned}}
       \union {<<"+", "+">>, <<"-", "-">>, <<"-", ">">>}

CharAt(i) == IF i <= Len(source) THEN source[i] ELSE "end"

Text(first, end) == SubSeq(source, first, end - 1)

(* The first position from i on with a character that is none of these. *)
EndOf(i, chars) ==
  Min({j \in i .. Len(source) + 1 : j > Len(source) \/ source[j] \notin chars})

MovedKeepingColumn(here, end, breaks) ==
  [position |-> end,
   line     |-> (here.line + Cardinality(breaks)) % PlaceWidth,
   column   |-> ((here.column + end) - here.position) % PlaceWidth]

(* The lexer's place after the characters up to end, with the line breaks  *)
(* it counts on the way.                                                   *)
Moved(here, end, breaks) ==
  [position |-> end,
   line     |-> (here.line + Cardinality(breaks)) % PlaceWidth,
   column   |-> (IF breaks = {} THEN (here.column + end) - here.position ELSE end - Max(breaks))
                  % PlaceWidth]

(* skip_whitespace *)
Here ==
  LET end == EndOf(at.position, Blanks)
  IN Moved(at, end, {i \in at.position .. end - 1 : source[i] = "\n"})

-----------------------------------------------------------------------------
(* Tokens *)

GrownCapacity == IF 2 * capacity < MaxCapacity THEN 2 * capacity ELSE MaxCapacity

(* A token starts as many columns before the lexer's as it is long. *)
ColumnOf(column, length) == IF column > length THEN column - length
                            ELSE IF length > 0 THEN 1 ELSE column

AddUnreported(token, valued, reports) ==
  LET full == Len(tokens) >= capacity
  IN /\ tokens' = IF full /\ GrownCapacity <= capacity THEN tokens ELSE Append(tokens, token)
     /\ capacity' = IF full THEN GrownCapacity ELSE capacity
     /\ errors' = errors \union reports

(* add_token_to_lexer, after what was reported before: the token is        *)
(* appended, to a larger array if this one is full, or it is lost and that *)
(* is reported.  A token with a value needs memory for its copy.           *)
Add(token, valued, reports) ==
  LET full == Len(tokens) >= capacity
      grows == full /\ GrownCapacity > capacity
  IN \/ /\ ~full \/ grows
        /\ tokens' = Append(tokens, token)
        /\ capacity' = IF grows THEN GrownCapacity ELSE capacity
        /\ errors' = errors \union reports
     \/ /\ full /\ ~grows
        /\ errors' = errors \union reports \union {"too many tokens"}
        /\ UNCHANGED <<tokens, capacity>>
     \/ /\ memory_may_fail
        /\ \/ grows /\ UNCHANGED capacity
           \/ valued /\ ~full /\ UNCHANGED capacity
           \/ valued /\ grows /\ capacity' = GrownCapacity
        /\ errors' = errors \union reports \union {"out of memory"}
        /\ UNCHANGED tokens

Token(type, text, place, length) ==
  [type |-> type, text |-> text, line |-> place.line, column |-> ColumnOf(place.column, length)]

Report(reports) == errors' = errors \union reports /\ UNCHANGED <<tokens, capacity>>

-----------------------------------------------------------------------------
(* Numbers *)

(* parse_integer_part: digits and underscores; e and E end it in every     *)
(* base.  It fails without a digit, after the underscores.                 *)
Part(i, base) ==
  LET digits == DigitsOf(base) \ {"e", "E"}
      end    == EndOf(i, digits \union {"_"})
  IN [end |-> end, ok |-> \E j \in i .. end - 1 : source[j] \in digits]

(* parse_period_part *)
Period(i) ==
  LET part == Part(i + 1, 10)
  IN [end |-> part.end + 1, ok |-> part.ok /\ CharAt(part.end) = ")"]

(* The loop over the periods of a fraction that starts before i. *)
Fraction(i) ==
  LET digits == Part(i, 10)
      more[j \in 1 .. Len(source) + 1] ==
        IF CharAt(j) # "(" THEN [end |-> j, ok |-> TRUE]
        ELSE IF ~Period(j).ok THEN [end |-> j, ok |-> FALSE]
        ELSE more[Part(Period(j).end, 10).end]
  IN [more[digits.end] EXCEPT !.ok = @ /\ (digits.ok \/ CharAt(digits.end) = "(")]

(* parse_exponent_part: [eE][+-]? digits, or nothing is read. *)
Exponent(i) ==
  LET part == Part(IF CharAt(i + 1) \in {"+", "-"} THEN i + 2 ELSE i + 1, 10)
  IN IF CharAt(i) \in {"e", "E"} /\ part.ok THEN part.end ELSE i

(* literal__parse_number: where the number ends, or that it is reported.   *)
Number(i) ==
  LET base     == IF CharAt(i) = "0" THEN BaseOf(CharAt(i + 1)) ELSE 10
      prefixed == base # 10
      start    == IF prefixed THEN i + 2 ELSE i
      whole    == Part(start, base)
      dotted   == CharAt(whole.end) = "."
      fraction == IF dotted /\ ~prefixed THEN Fraction(whole.end + 1) ELSE whole
      end      == Exponent(fraction.end)
  IN [end |-> end,
      ok  |-> /\ whole.ok /\ fraction.ok
              /\ prefixed => /\ CharAt(start) \in DigitsOf(base)
                             /\ ~dotted
                             /\ end = whole.end]

-----------------------------------------------------------------------------
(* String and character literals *)

(* parse_quoted_content for the literal that starts at i: where it ends,   *)
(* how many characters it stands for, and what is reported.  A line break  *)
(* after a backslash is not counted.                                       *)
Quoted(i) ==
  LET nothing == [end |-> Len(source) + 1, chars |-> 0, breaks |-> {}, reports |-> {}]
      from[j \in i + 1 .. Len(source) + 2] ==
        IF j > Len(source) THEN [nothing EXCEPT !.reports = {"unclosed literal"}]
        ELSE IF source[j] = source[i] THEN [nothing EXCEPT !.end = j + 1]
        ELSE IF source[j] = "\\"
        THEN [from[j + 2] EXCEPT
                !.chars = @ + 1,
                !.reports = @ \union IF CharAt(j + 1) \in Escapes THEN {} ELSE {"escape"}]
        ELSE [from[j + 1] EXCEPT
                !.chars = @ + 1,
                !.breaks = @ \union IF source[j] = "\n" THEN {j} ELSE {}]
  IN from[i + 1]

(* literal__parse_char and literal__parse_string: no token if the literal  *)
(* is not closed or a character literal is not one character.              *)
Literal(i) ==
  LET content == Quoted(i)
      char    == source[i] = "'"
  IN [first   |-> i,
      char    |-> char,
      end     |-> content.end,
      chars   |-> content.chars,
      breaks  |-> content.breaks,
      ok      |-> "unclosed literal" \notin content.reports /\ (char => content.chars = 1),
      reports |-> content.reports
                    \union IF char /\ content.chars # 1 /\ "unclosed literal" \notin content.reports
                           THEN {"character literal"} ELSE {}]

(* literal__parse_concatenated: the literals read for one token.  The next *)
(* one is looked for behind blanks, but the loop does not skip them: only  *)
(* literals without anything between them are read together.               *)
Literals(i) ==
  LET from[j \in 1 .. Len(source)] ==
        LET literal == Literal(j)
        IN <<literal>> \o IF literal.ok /\ CharAt(literal.end) \in Quotes
                          THEN from[literal.end] ELSE << >>
  IN from[i]

ReportsOf(literals) == UNION {literals[k].reports : k \in DOMAIN literals}

BreaksOf(literals) == UNION {literals[k].breaks : k \in DOMAIN literals}

(* A character literal is collected in a small array on the stack, which   *)
(* is handed to realloc when it is full.                                   *)
Overfull(literal) == literal.char /\ literal.chars >= CharBuffer

-----------------------------------------------------------------------------
(* Actions *)

Init ==
  /\ source \in Sources
  /\ at = [position |-> 1, line |-> 1, column |-> 1]
  /\ tokens = << >>
  /\ capacity = InitialCapacity
  /\ errors = {}
  /\ done = FALSE
  /\ crashed = FALSE
  /\ memory_may_fail \in BOOLEAN

Running == ~done /\ ~crashed

(* An iteration of the loop of lexer__tokenize at a character of the set. *)
Reading(chars) == Running /\ CharAt(Here.position) \in chars

ReadLiteral ==
  /\ Reading(Quotes)
  /\ LET literals == Literals(Here.position)
         end      == Last(literals).end
         after    == Moved(Here, end, BreaksOf(literals))
         length   == FoldSeq(LAMBDA literal, n : literal.chars + n, 0, literals)
     IN /\ \A k \in DOMAIN literals : ~Overfull(literals[k])
        /\ at' = after
        /\ IF Last(literals).ok
           THEN Add(Token("string", Text(Here.position, end), after, length),
                    length > 0, ReportsOf(literals))
           ELSE Report(ReportsOf(literals))
  /\ UNCHANGED <<source, done, crashed, memory_may_fail>>

(* Memory runs out for the buffer of all literals, for that of one string  *)
(* behind its opening quote, or, which is not reported, for a value.       *)
LoseLiteral ==
  /\ memory_may_fail
  /\ Reading(Quotes)
  /\ LET literals == Literals(Here.position)
         before(k) == SubSeq(literals, 1, k)
         moved(k, end) == Moved(Here, end, BreaksOf(before(k)))
     IN \/ at' = Here /\ Report({"out of memory"})
        \/ \E k \in DOMAIN literals :
             /\ ~literals[k].char
             /\ at' = moved(k - 1, literals[k].first + 1)
             /\ Report(ReportsOf(before(k - 1)) \union {"out of memory"})
        \/ \E k \in DOMAIN literals :
             /\ literals[k].ok
             /\ at' = moved(k, literals[k].end)
             /\ Report(ReportsOf(before(k)))
  /\ UNCHANGED <<source, done, crashed, memory_may_fail>>

Overflow ==
  /\ Reading(Quotes)
  /\ \E k \in DOMAIN Literals(Here.position) : Overfull(Literals(Here.position)[k])
  /\ crashed' = TRUE
  /\ UNCHANGED <<source, at, tokens, capacity, errors, done, memory_may_fail>>

Candidates(i) ==
  {n \in 1 .. 5 : i + n <= Len(source) + 1 /\ Text(i, i + n) \in Operators}

LongestOperatorFirst(i) == Min(Candidates(i) \union {6}) % 6

(* lookup_operator: the length of the longest operator, 0 if there is none *)
LongestOperator(i) == Max(Candidates(i) \union {0})

(* The column is computed as behind the operator, but the lexer is still   *)
(* before it.                                                              *)
ReadOperator ==
  /\ Running
  /\ CharAt(Here.position) \notin Quotes
  /\ LET n == LongestOperator(Here.position)
         end == Here.position + n
     IN /\ n > 0
        /\ Add(Token("operator", Text(Here.position, end), Here, n), TRUE, {})
        /\ at' = Moved(Here, end, {})
  /\ UNCHANGED <<source, done, crashed, memory_may_fail>>

(* lookup_symbol for a word: as many of its characters are compared as its *)
(* length says in eight bits.                                              *)
WordType(word) ==
  IF SubSeq(word, 1, Len(word) % LengthWidth) \in Keywords THEN "keyword" ELSE "identifier"

ReadWord ==
  /\ Reading(WordStart)
  /\ LET end   == EndOf(Here.position, WordChars)
         word  == Text(Here.position, end)
         after == Moved(Here, end, {})
     IN /\ Add(Token(WordType(word), word, after, Len(word)), TRUE, {})
        /\ at' = after
  /\ UNCHANGED <<source, done, crashed, memory_may_fail>>

(* An invalid number is reported and the lexer set back to its start, with *)
(* a token for it added.                                                   *)
ReadNumber ==
  /\ Reading(Digits)
  /\ LET number == Number(Here.position)
         after  == Moved(Here, number.end, {})
         length == number.end - Here.position
     IN \/ /\ number.ok
           /\ Add(Token("number", Text(Here.position, number.end), after, length), TRUE, {})
           /\ at' = after
        \/ /\ number.ok /\ memory_may_fail
           /\ Add(Token("error", << >>, after, length), FALSE, {})
           /\ at' = after
        \/ /\ ~number.ok
           /\ Add(Token("error", << >>, Here, length), FALSE, {"number"})
           /\ at' = Here
  /\ UNCHANGED <<source, done, crashed, memory_may_fail>>

SkipUnknown ==
  /\ Running
  /\ CharAt(Here.position) \notin WordChars \union Quotes \union {"end"}
  /\ LongestOperator(Here.position) = 0
  /\ at' = Moved(Here, Here.position + 1, {})
  /\ Report({"unknown character"})
  /\ UNCHANGED <<source, done, crashed, memory_may_fail>>

Finish ==
  /\ Reading({"end"})
  /\ at' = Here
  /\ Add(Token("EOF", << >>, Here, 0), FALSE, {})
  /\ done' = TRUE
  /\ UNCHANGED <<source, crashed, memory_may_fail>>

Ended == ~Running /\ UNCHANGED vars

Step ==
  \/ ReadLiteral
  \/ LoseLiteral
  \/ Overflow
  \/ ReadOperator
  \/ ReadWord
  \/ ReadNumber
  \/ SkipUnknown
  \/ Finish

Next == Step \/ Ended

Spec == Init /\ [][Next]_vars

(* lexer__tokenize is a loop of one process, which does not stop by itself. *)
FairSpec == Spec /\ WF_vars(Step)

-----------------------------------------------------------------------------
(* Properties *)

LexerTypeOK ==
  /\ capacity \in Nat
  /\ done \in BOOLEAN
  /\ Len(tokens) <= capacity /\ capacity <= MaxCapacity

(* The parser reads on until it meets the end token: unless an error has   *)
(* been reported, so that the tokens are not parsed, the end token is      *)
(* there, behind all others and once, however the tokens filled the array  *)
(* and whatever memory there was (lexer__tokenize, add_token_to_lexer).    *)
EOFOrError ==
  done /\ errors = {} =>
    \E n \in DOMAIN tokens :
      n = Len(tokens) /\ \A k \in DOMAIN tokens : tokens[k].type = "EOF" <=> k = n

(* The languages of the tokens, as lexer.h and literals.h describe them:   *)
(* which texts are words, numbers, runs of literals and operators.         *)
IsWord(t) == t[1] \in WordStart /\ ToSet(t) \subseteq WordChars

IsRun(t, digits) == t # << >> /\ ToSet(t) \subseteq digits

IsFraction(t) ==
  LET period(i, j) == i < j /\ t[i] = "(" /\ t[j] = ")" /\ IsRun(SubSeq(t, i + 1, j - 1), Digits)
  IN /\ t # << >>
     /\ \A i \in DOMAIN t :
          \/ t[i] \in Digits
          \/ \E j \in DOMAIN t : period(i, j) \/ period(j, i)

IsExponent(t) ==
  /\ Len(t) > 1
  /\ t[1] \in {"e", "E"}
  /\ IsRun(SubSeq(t, IF t[2] \in {"+", "-"} THEN 3 ELSE 2, Len(t)), Digits)

IsDecimal(t) ==
  \E whole \in 1 .. Len(t) : \E end \in whole .. Len(t) :
    /\ IsRun(SubSeq(t, 1, whole), Digits)
    /\ \/ end = whole
       \/ t[whole + 1] = "." /\ IsFraction(SubSeq(t, whole + 2, end))
    /\ \/ end = Len(t)
       \/ IsExponent(SubSeq(t, end + 1, Len(t)))

IsPrefixed(t) ==
  /\ Len(t) > 2
  /\ t[1] = "0"
  /\ BaseOf(t[2]) # 10
  /\ IsRun(SubSeq(t, 3, Len(t)), DigitsOf(BaseOf(t[2])))

(* Underscores separate digits; none begins a number, stands next to the   *)
(* letter of a base, or before the sign of an exponent.                    *)
IsNumber(t) ==
  LET plain == SelectSeq(t, LAMBDA c : c # "_")
  IN /\ t[1] # "_"
     /\ \/ IsDecimal(plain)
        \/ IsPrefixed(plain) /\ t[2] # "_" /\ t[3] # "_"
     /\ \A i \in 2 .. Len(t) : t[i] \in {"+", "-"} => t[i - 1] # "_"

(* A backslash takes the character behind it along. *)
IsQuoted(t) ==
  LET bound[i \in 1 .. Len(t)] == i > 1 /\ t[i - 1] = "\\" /\ ~bound[i - 1]
      content == {i \in 2 .. Len(t) - 1 : ~bound[i]}
  IN /\ Len(t) > 1
     /\ t[1] \in Quotes
     /\ t[Len(t)] = t[1] /\ ~bound[Len(t)]
     /\ \A i \in content : t[i] # t[1]
     /\ t[1] = "'" => Cardinality(content) = 1

(* Literals with nothing between them but these characters. *)
IsLiterals(t, between) ==
  LET from[i \in 1 .. Len(t) + 1] ==
        \E j \in i .. Len(t) :
          /\ IsQuoted(SubSeq(t, i, j))
          /\ \/ j = Len(t)
             \/ \E next \in j + 1 .. Len(t) :
                  ToSet(SubSeq(t, j + 1, next - 1)) \subseteq between /\ from[next]
  IN from[1]

TypeOf(t) ==
  CASE IsLiterals(t, Blanks) -> {"string"}
    [] IsWord(t)       -> IF t \in Keywords THEN {"keyword"} ELSE {"identifier"}
    [] IsNumber(t)     -> {"number"}
    [] t \in Operators -> {"operator"}
    [] OTHER           -> {}

(* The source cut into tokens: after blanks, always the longest that       *)
(* begins there.                                                           *)
Lexemes ==
  LET from[i \in 1 .. Len(source) + 1] ==
        LET ends == {end \in i + 1 .. Len(source) + 1 : TypeOf(Text(i, end)) # {}}
        IN IF i > Len(source) THEN << >>
           ELSE IF source[i] \in Blanks THEN from[i + 1]
           ELSE IF ends = {} THEN << << >> >>
           ELSE <<Text(i, Max(ends))>> \o from[Max(ends)]
  IN from[1]

(* What the code does not read as one token: literals with blanks between  *)
(* them, which literals.h concatenates and the code does not, and a        *)
(* hexadecimal number with an E, at which the code ends every number.      *)
Misread(t) ==
  \/ IsLiterals(t, Blanks) /\ ~IsLiterals(t, {})
  \/ IsNumber(t) /\ t[1] = "0" /\ Len(t) > 1 /\ BaseOf(t[2]) = 16 /\ ToSet(t) \cap {"e", "E"} # {}

(* A source that is read without an error is cut into the longest tokens   *)
(* there are, each of the kind its text has (lookup_operator, the loops of *)
(* lexer__tokenize and literals.c).  This is of the sources in which       *)
(* nothing is Misread; of words of LengthWidth characters and more the     *)
(* kind is excepted.                                                       *)
TokensAreLexemes ==
  done /\ errors = {} /\ ~memory_may_fail =>
    LET read  == Front(tokens)
        known == Lexemes
        short(word) == IsWord(word) => Len(word) < LengthWidth
    IN \/ \E k \in DOMAIN known : known[k] # << >> /\ Misread(known[k])
       \/ /\ [k \in DOMAIN read |-> read[k].text] = known
          /\ \A k \in DOMAIN read :
               short(read[k].text) => read[k].type \in TypeOf(read[k].text)

(* A source that is read without an error consists of the texts of its     *)
(* tokens, in their order, and of blanks between them: no character is     *)
(* dropped or read twice, whatever the literals and numbers are made of    *)
(* (the positions the loops of lexer__tokenize and literals.c go on from). *)
NothingSkipped ==
  done /\ errors = {} /\ ~memory_may_fail =>
    \E first \in [DOMAIN tokens -> 1 .. Len(source) + 1] :
      LET end(k) == first[k] + Len(tokens[k].text)
      IN /\ \A k \in DOMAIN tokens :
              end(k) <= Len(source) + 1 /\ tokens[k].text = Text(first[k], end(k))
         /\ \A k, l \in DOMAIN tokens : k < l => end(k) <= first[l]
         /\ \A i \in DOMAIN source :
              source[i] \in Blanks \/ \E k \in DOMAIN tokens : i \in first[k] .. end(k) - 1

BreakEscaped ==
  \E i \in 1 .. Len(source) - 1 : source[i] = "\\" /\ source[i + 1] = "\n"

BreaksBefore(i) == {j \in 1 .. i - 1 : source[j] = "\n"}

LineAt(i) == 1 + Cardinality(BreaksBefore(i))

ColumnAt(i) == i - Max(BreaksBefore(i) \union {0})

PlacesFit ==
  \A i \in 1 .. Len(source) + 1 : LineAt(i) < PlaceWidth /\ ColumnAt(i) < PlaceWidth

(* The line and column of a word or number are those of its text, and they *)
(* are in order: errors are reported at them.  Two kinds of source are     *)
(* excepted: those in which a literal may escape a line break, which is    *)
(* then not counted, and those with a line or column that does not fit in  *)
(* PlaceWidth, which is counted from 0 again (add_token_to_lexer,          *)
(* skip_whitespace, parse_quoted_content).                                 *)
WordsWhereTheyStand ==
  LET stands(token, i) ==
        /\ token.line = LineAt(i) /\ token.column = ColumnAt(i)
        /\ IsPrefix(token.text, Text(i, Len(source) + 1))
      behind(token, before) ==
        \/ token.line > before.line
        \/ token.line = before.line /\ token.column >= before.column + Len(before.text)
      words == {k \in DOMAIN tokens : tokens[k].type \in {"identifier", "keyword", "number"}}
  IN ~BreakEscaped /\ PlacesFit =>
       /\ \A k \in words : \E i \in DOMAIN source : stands(tokens[k], i)
       /\ \A k, l \in words : k < l => behind(tokens[l], tokens[k])

(* What lexer.h says of lexer__tokenize: an error is reported and scanning *)
(* continues; finally, the end token is added.                             *)
LexerEnds == <>(done \/ crashed)
=============================================================================
