----------------------------- MODULE Lexer_proof -----------------------------
(***************************************************************************)
(* What the parser relies on of the lexer's token array, and where the     *)
(* words in it stand, for every source and every limit of the array, and   *)
(* wherever memory runs out.                                               *)
(***************************************************************************)
EXTENDS Lexer, RecursiveFunctions, SequenceTheorems, FiniteSetTheorems, TLAPS

(* A sequence, whatever its elements are. *)
IsSequence(s) == s \in Seq({s[k] : k \in DOMAIN s})

LEMMA AnyAppend ==
  ASSUME NEW s, IsSequence(s), NEW e
  PROVE  /\ IsSequence(Append(s, e))
         /\ Len(Append(s, e)) = Len(s) + 1
         /\ Append(s, e)[Len(s) + 1] = e
         /\ \A k \in 1 .. Len(s) : Append(s, e)[k] = s[k]
<1> DEFINE S == {s[k] : k \in DOMAIN s} \union {e}
           t == Append(s, e)
<1>1. s \in Seq(S)
  BY SeqMonotonic DEF IsSequence
<1> HIDE DEF S
<1>2. e \in S
  BY DEF S
<1>3. /\ t \in Seq(S)
      /\ Len(t) = Len(s) + 1
      /\ t[Len(s) + 1] = e
      /\ \A k \in 1 .. Len(s) : t[k] = s[k]
  BY <1>1, <1>2, AppendProperties
<1> HIDE DEF t
<1>4. IsSequence(t)
  <2>1. PICK n \in Nat : t \in [1 .. n -> S]
    BY <1>3, SeqDef
  <2>2. t \in [1 .. n -> {t[k] : k \in DOMAIN t}]
    BY <2>1
  <2> QED BY <2>1, <2>2, SeqDef DEF IsSequence
<1> QED BY <1>3, <1>4 DEF t

-----------------------------------------------------------------------------

(* The array as the loop keeps it: every token has a slot, and no end      *)
(* token is in it before the loop is done.                                 *)
LexerInv ==
  /\ IsSequence(tokens)
  /\ capacity \in Nat \ {0}
  /\ Len(tokens) <= capacity /\ capacity <= MaxCapacity
  /\ done \in BOOLEAN
  /\ ~done => \A k \in DOMAIN tokens : tokens[k].type # "EOF"
  /\ EOFOrError

(* A token is added, or it is lost and that is reported. *)
Adds(token) ==
  /\ \/ tokens' = Append(tokens, token)
     \/ tokens' = tokens /\ errors' # {}
  /\ errors \subseteq errors'
  /\ capacity' \in Nat \ {0}
  /\ Len(tokens') <= capacity' /\ capacity' <= MaxCapacity

Spares == /\ UNCHANGED <<tokens, capacity>>
          /\ errors \subseteq errors'

LEMMA CapacityGrows ==
  ASSUME LexerInv
  PROVE  /\ GrownCapacity \in Nat \ {0}
         /\ GrownCapacity <= MaxCapacity
         /\ capacity <= GrownCapacity
         /\ MaxCapacity \in Nat
BY CapacityAssumption DEF LexerInv, GrownCapacity

LEMMA AddShape ==
  ASSUME LexerInv, NEW token, NEW valued, NEW reports, Add(token, valued, reports)
  PROVE  Adds(token)
<1> DEFINE full  == Len(tokens) >= capacity
           grows == full /\ GrownCapacity > capacity
<1>0. /\ Len(tokens) \in Nat /\ capacity \in Nat \ {0}
      /\ Len(tokens) <= capacity /\ capacity <= MaxCapacity
  BY DEF LexerInv, IsSequence
<1>1. CASE /\ ~full \/ grows
           /\ tokens' = Append(tokens, token)
           /\ capacity' = IF grows THEN GrownCapacity ELSE capacity
           /\ errors' = errors \union reports
  <2>1. Len(tokens') = Len(tokens) + 1
    BY <1>1, AnyAppend DEF LexerInv
  <2>2. /\ capacity' \in Nat \ {0}
        /\ Len(tokens) + 1 <= capacity' /\ capacity' <= MaxCapacity
    BY <1>0, <1>1, CapacityGrows
  <2> QED BY <1>1, <2>1, <2>2 DEF Adds
<1>2. CASE /\ UNCHANGED <<tokens, capacity>>
           /\ errors' = errors \union reports \union {"too many tokens"}
  BY <1>0, <1>2 DEF Adds
<1>3. CASE /\ capacity' \in {capacity, GrownCapacity}
           /\ errors' = errors \union reports \union {"out of memory"}
           /\ UNCHANGED tokens
  <2>1. /\ capacity' \in Nat \ {0}
        /\ Len(tokens) <= capacity' /\ capacity' <= MaxCapacity
    <3>1. capacity' = capacity \/ capacity' = GrownCapacity
      BY <1>3, Zenon
    <3>2. Len(tokens') = Len(tokens)
      BY <1>3
    <3> QED BY <1>0, <3>1, <3>2, CapacityGrows
  <2> QED BY <1>3, <2>1 DEF Adds
<1> QED BY <1>1, <1>2, <1>3 DEF Add

(* What every step does to the array. *)
LEMMA LexerMoves ==
  ASSUME LexerInv, [Next]_vars
  PROVE  \/ /\ \E token : token.type = "EOF" /\ Adds(token)
            /\ ~done /\ done'
         \/ /\ \E token : token.type # "EOF" /\ Adds(token)
            /\ ~done /\ done' = done
         \/ Spares /\ ~done /\ done' = done
         \/ UNCHANGED <<tokens, capacity, errors, done>>
<1>1. ASSUME NEW type, NEW text, NEW place, NEW length, NEW valued, NEW reports,
             Add(Token(type, text, place, length), valued, reports)
      PROVE  \E token : token.type = type /\ Adds(token)
  <2>1. Token(type, text, place, length).type = type
    BY DEF Token
  <2> QED BY <1>1, <2>1, AddShape
<1>2. ASSUME NEW reports, Report(reports)
      PROVE  Spares
  BY <1>2 DEF Report, Spares
<1>3. "string" # "EOF" /\ "operator" # "EOF" /\ "number" # "EOF" /\ "error" # "EOF"
  OBVIOUS
<1>4. CASE ReadLiteral
  BY <1>1, <1>2, <1>3, <1>4, Zenon DEF ReadLiteral, Reading, Running
<1>5. CASE LoseLiteral
  BY <1>2, <1>5, Zenon DEF LoseLiteral, Reading, Running
<1>6. CASE ReadOperator
  BY <1>1, <1>3, <1>6, Zenon DEF ReadOperator, Running
<1>7. CASE ReadWord
  <2>1. \A word : WordType(word) # "EOF"
    BY DEF WordType
  <2>2. PICK word, after :
          Add(Token(WordType(word), word, after, Len(word)), TRUE, {})
    BY <1>7, Zenon DEF ReadWord
  <2>3. \E token : token.type = WordType(word) /\ Adds(token)
    BY <1>1, <2>2, Zenon
  <2> QED BY <1>7, <2>1, <2>3, Zenon DEF ReadWord, Reading, Running
<1>8. CASE ReadNumber
  BY <1>1, <1>3, <1>8, Zenon DEF ReadNumber, Reading, Running
<1>9. CASE SkipUnknown
  BY <1>2, <1>9, Zenon DEF SkipUnknown, Running
<1>10. CASE Finish
  BY <1>1, <1>10, Zenon DEF Finish, Reading, Running
<1>11. CASE Overflow \/ Ended \/ UNCHANGED vars
  BY <1>11, Zenon DEF Overflow, Ended, vars
<1> QED BY <1>4, <1>5, <1>6, <1>7, <1>8, <1>9, <1>10, <1>11, Zenon DEF Next, Step

LEMMA LexerPreserved ==
  ASSUME LexerInv, [Next]_vars
  PROVE  LexerInv'
<1> DEFINE n == Len(tokens)
<1>0. n \in Nat /\ IsSequence(tokens) /\ DOMAIN tokens = 1 .. n
  BY DEF LexerInv, IsSequence
<1>1. ASSUME NEW token, Adds(token), ~done
      PROVE  /\ IsSequence(tokens')
             /\ capacity' \in Nat \ {0}
             /\ Len(tokens') <= capacity' /\ capacity' <= MaxCapacity
  BY <1>0, <1>1, AnyAppend DEF Adds
<1>2. ASSUME NEW token, Adds(token), ~done, tokens' # tokens
      PROVE  /\ DOMAIN tokens' = 1 .. n + 1
             /\ Len(tokens') = n + 1
             /\ tokens'[n + 1] = token
             /\ \A k \in 1 .. n : tokens'[k].type # "EOF"
  <2>1. tokens' = Append(tokens, token)
    BY <1>2 DEF Adds
  <2>2. /\ Len(tokens') = n + 1
        /\ tokens'[n + 1] = token
        /\ \A k \in 1 .. n : tokens'[k] = tokens[k]
        /\ IsSequence(tokens')
    BY <1>0, <2>1, AnyAppend
  <2>3. DOMAIN tokens' = 1 .. n + 1
    BY <2>2 DEF IsSequence
  <2> QED BY <1>0, <1>2, <2>2, <2>3 DEF LexerInv
<1>3. ASSUME NEW token, token.type = "EOF", Adds(token), ~done, done'
      PROVE  LexerInv'
  <2>1. CASE tokens' = tokens
    <3>1. errors' # {}
      <4>1. tokens' # Append(tokens, token)
        <5>1. Len(Append(tokens, token)) = n + 1
          BY <1>0, AnyAppend
        <5>2. Len(tokens') = n
          BY <2>1
        <5> QED BY <1>0, <5>1, <5>2
      <4> QED BY <1>3, <4>1 DEF Adds
    <3> QED BY <1>1, <1>3, <3>1 DEF LexerInv, EOFOrError
  <2>2. CASE tokens' # tokens
    <3>1. /\ DOMAIN tokens' = 1 .. n + 1
          /\ Len(tokens') = n + 1
          /\ tokens'[n + 1].type = "EOF"
          /\ \A k \in 1 .. n : tokens'[k].type # "EOF"
      BY <1>2, <1>3, <2>2
    <3>2. n + 1 \in 1 .. n + 1 /\ \A k \in 1 .. n + 1 : k \in 1 .. n \/ k = n + 1
      BY <1>0
    <3>3. \A k \in DOMAIN tokens' : tokens'[k].type = "EOF" <=> k = n + 1
      <4>1. n + 1 \notin 1 .. n
        BY <1>0
      <4> QED BY <3>1, <3>2, <4>1, Zenon
    <3>4. EOFOrError'
      BY <3>1, <3>2, <3>3, Zenon DEF EOFOrError
    <3> QED BY <1>1, <1>3, <3>4 DEF LexerInv
  <2> QED BY <2>1, <2>2
<1>4. ASSUME NEW token, token.type # "EOF", Adds(token), ~done, done' = done
      PROVE  LexerInv'
  <2>1. \A k \in DOMAIN tokens' : tokens'[k].type # "EOF"
    <3>1. CASE tokens' = tokens
      BY <1>4, <3>1 DEF LexerInv
    <3>2. CASE tokens' # tokens
      <4>1. \A k \in 1 .. n + 1 : k \in 1 .. n \/ k = n + 1
        BY <1>0
      <4> QED BY <1>2, <1>4, <3>2, <4>1
    <3> QED BY <3>1, <3>2
  <2> QED BY <1>1, <1>4, <2>1 DEF LexerInv, EOFOrError
<1>5. ASSUME Spares, ~done, done' = done
      PROVE  LexerInv'
  BY <1>5 DEF Spares, LexerInv, EOFOrError
<1>6. ASSUME UNCHANGED <<tokens, capacity, errors, done>>
      PROVE  LexerInv'
  BY <1>6 DEF LexerInv, EOFOrError
<1> QED BY <1>3, <1>4, <1>5, <1>6, LexerMoves, Zenon

LEMMA LexerInit ==
  ASSUME Init
  PROVE  LexerInv
<1>1. tokens = << >> /\ capacity = InitialCapacity /\ done = FALSE
  BY DEF Init
<1>2. InitialCapacity \in Nat \ {0} /\ InitialCapacity <= MaxCapacity
  BY CapacityAssumption
<1>3. IsSequence(<< >>) /\ Len(<< >>) = 0 /\ DOMAIN << >> = {}
  BY DEF IsSequence
<1>4. EOFOrError
  BY <1>1, Zenon DEF EOFOrError
<1>5. \A k \in DOMAIN tokens : tokens[k].type # "EOF"
  BY <1>1, <1>3, Zenon
<1>6. /\ capacity \in Nat \ {0}
      /\ Len(tokens) <= capacity /\ capacity <= MaxCapacity
  <2>1. Len(tokens) = 0 /\ capacity = InitialCapacity
    BY <1>1, <1>3, Zenon
  <2> QED BY <1>2, <2>1
<1>7. IsSequence(tokens) /\ done \in BOOLEAN
  BY <1>1, <1>3, Zenon
<1> QED BY <1>4, <1>5, <1>6, <1>7, Zenon DEF LexerInv

(* Every token has a slot in the array, which never exceeds its limit, and *)
(* when the lexer returns without an error the last token, and no other,   *)
(* is the end token: the parser, which does not look at the number of      *)
(* tokens, stops there.                                                    *)
THEOREM EndOfTokens == Spec => [](LexerTypeOK /\ EOFOrError)
<1>1. Init => LexerInv
  BY LexerInit
<1>2. LexerInv /\ [Next]_vars => LexerInv'
  BY LexerPreserved
<1>3. LexerInv => LexerTypeOK /\ EOFOrError
  BY DEF LexerInv, LexerTypeOK
<1> QED BY <1>1, <1>2, <1>3, PTL DEF Spec

-----------------------------------------------------------------------------
(* Where words stand *)

Positions == 1 .. Len(source) + 1

(* The line breaks from a to before e, *)
Breaks(a, e) == {j \in a .. e - 1 : source[j] = "\n"}

LastBreak(i) == Max(Breaks(1, i) \union {0})

(* and the place of the character at i. *)
Place(i) == [position |-> i, line |-> 1 + Cardinality(Breaks(1, i)), column |-> i - LastBreak(i)]

LEMMA GreatestOf ==
  ASSUME NEW n \in Nat, NEW set, set \subseteq 0 .. n, set # {}
  PROVE  Max(set) \in set /\ \A k \in set : k <= Max(set)
<1> DEFINE below == {n - k : k \in set}
<1>1. below \subseteq Nat /\ below # {}
  OBVIOUS
<1>2. PICK m \in below : \A k \in below : m <= k
  <2> HIDE DEF below
  <2> QED BY <1>1, LeastNumber
<1>3. PICK greatest \in set : m = n - greatest
  BY <1>2
<1>4. \A k \in set : n - k \in below /\ k \in 0 .. n
  OBVIOUS
<1>5. \A k \in set : greatest >= k
  <2> TAKE k \in set
  <2>1. n - greatest <= n - k
    BY <1>2, <1>3, <1>4
  <2> QED BY <1>4, <2>1
<1>6. Max(set) \in set /\ \A k \in set : Max(set) >= k
  BY <1>5, Zenon DEF Max
<1> QED BY <1>4, <1>6

LEMMA LeastOf ==
  ASSUME NEW set, set \subseteq Nat, set # {}
  PROVE  Min(set) \in set /\ \A k \in set : Min(set) <= k
<1>1. \E m \in set : \A k \in set : m <= k
  BY LeastNumber
<1> QED BY <1>1, Zenon DEF Min

LEMMA EndOfShape ==
  ASSUME Len(source) \in Nat, NEW i \in Positions, NEW chars
  PROVE  /\ EndOf(i, chars) \in i .. Len(source) + 1
         /\ EndOf(i, chars) \in Positions
         /\ \A j \in i .. EndOf(i, chars) - 1 : source[j] \in chars
         /\ EndOf(i, chars) <= Len(source) => source[EndOf(i, chars)] \notin chars
<1> DEFINE n == Len(source)
           set == {j \in i .. n + 1 : j > n \/ source[j] \notin chars}
           e == Min(set)
<1>1. EndOf(i, chars) = e
  BY Zenon DEF EndOf
<1>2. set \subseteq Nat /\ n + 1 \in set
  BY DEF Positions
<1>3. e \in set /\ \A k \in set : e <= k
  <2> HIDE DEF set
  <2> QED BY <1>2, LeastOf
<1>4. e \in i .. n + 1 /\ (e > n \/ source[e] \notin chars)
  <2> HIDE DEF e
  <2> QED BY <1>3
<1>5. ASSUME NEW j \in i .. e - 1
      PROVE  source[j] \in chars
  <2>1. j \in i .. n + 1 /\ ~(e <= j) /\ ~(j > n)
    <3> HIDE DEF e
    <3> QED BY <1>4 DEF Positions
  <2>2. j \notin set
    BY <1>3, <2>1
  <2> QED BY <2>1, <2>2
<1> HIDE DEF e
<1> QED BY <1>1, <1>4, <1>5 DEF Positions

LEMMA BreaksFinite ==
  ASSUME NEW a \in Nat \ {0}, NEW e \in Nat
  PROVE  /\ IsFiniteSet(Breaks(a, e)) /\ Cardinality(Breaks(a, e)) \in Nat
         /\ Breaks(a, e) \subseteq 1 .. e - 1
<1>1. IsFiniteSet(a .. e - 1)
  BY FS_Interval
<1>2. Breaks(a, e) \subseteq a .. e - 1
  BY DEF Breaks
<1> QED BY <1>1, <1>2, FS_Subset, FS_CardinalityType

LEMMA LastBreakShape ==
  ASSUME NEW i \in Nat \ {0}
  PROVE  /\ LastBreak(i) \in 0 .. i - 1 /\ LastBreak(i) \in Breaks(1, i) \union {0}
         /\ \A j \in Breaks(1, i) : j <= LastBreak(i)
<1> DEFINE set == Breaks(1, i) \union {0}
<1>1. set \subseteq 0 .. i - 1 /\ set # {} /\ i - 1 \in Nat
  BY DEF Breaks
<1>2. LastBreak(i) = Max(set)
  BY DEF LastBreak
<1>3. \A j \in Breaks(1, i) : j \in set
  OBVIOUS
<1> HIDE DEF set
<1>4. Max(set) \in set /\ \A j \in set : j <= Max(set)
  BY <1>1, GreatestOf
<1>5. LastBreak(i) \in 0 .. i - 1 /\ LastBreak(i) \in set /\ \A j \in set : j <= LastBreak(i)
  BY <1>1, <1>2, <1>4
<1> QED BY <1>3, <1>5 DEF set

(* The place after characters with these breaks, in unbounded numbers.     *)
MovedFar(here, end, breaks) ==
  [position |-> end,
   line     |-> here.line + Cardinality(breaks),
   column   |-> IF breaks = {} THEN (here.column + end) - here.position ELSE end - Max(breaks)]

LEMMA MovedFarRight ==
  ASSUME NEW i \in Nat \ {0}, NEW e \in Nat, i <= e
  PROVE  MovedFar(Place(i), e, Breaks(i, e)) = Place(e)
<1> DEFINE early == Breaks(1, i)
           late == Breaks(i, e)
<1>1. Breaks(1, e) = early \union late /\ early \intersect late = {}
  BY DEF Breaks
<1>2. /\ IsFiniteSet(early) /\ Cardinality(early) \in Nat
      /\ IsFiniteSet(late) /\ Cardinality(late) \in Nat
      /\ early \subseteq 1 .. i - 1 /\ late \subseteq i .. e - 1
  <2>1. IsFiniteSet(early) /\ Cardinality(early) \in Nat /\ early \subseteq 1 .. i - 1
    BY BreaksFinite
  <2>2. IsFiniteSet(late) /\ Cardinality(late) \in Nat
    BY BreaksFinite
  <2> QED BY <2>1, <2>2 DEF Breaks
<1>3. Cardinality(Breaks(1, e)) = Cardinality(early) + Cardinality(late)
  <2>1. Cardinality(early \union late)
          = Cardinality(early) + Cardinality(late) - Cardinality(early \intersect late)
    BY <1>2, FS_Union
  <2>2. Cardinality(early \intersect late) = 0
    BY <1>1, FS_EmptySet
  <2> HIDE DEF early, late
  <2> QED BY <1>1, <1>2, <2>1, <2>2
<1>4. CASE late = {}
  <2>1. Cardinality(late) = 0
    BY <1>4, FS_EmptySet
  <2>2. Breaks(1, e) = early
    BY <1>1, <1>4
  <2>3. LastBreak(e) = LastBreak(i)
    BY <2>2 DEF LastBreak
  <2>4. LastBreak(i) \in Nat
    BY LastBreakShape
  <2>5. ((i - LastBreak(i)) + e) - i = e - LastBreak(e)
    BY <2>3, <2>4
  <2> HIDE DEF early, late
  <2> QED BY <1>2, <1>3, <1>4, <2>1, <2>2, <2>5 DEF MovedFar, Place, early, late
<1>5. CASE late # {}
  <2>1. late \subseteq 0 .. e - 1 /\ e - 1 \in Nat
    BY <1>2
  <2>2. Max(late) \in late /\ \A j \in late : j <= Max(late)
    <3> HIDE DEF late
    <3> QED BY <1>5, <2>1, GreatestOf
  <2>3. /\ LastBreak(e) \in 0 .. e - 1 /\ LastBreak(e) \in Breaks(1, e) \union {0}
        /\ \A j \in Breaks(1, e) : j <= LastBreak(e)
    BY LastBreakShape
  <2>4. LastBreak(e) = Max(late)
    <3> DEFINE max == Max(late)
    <3>1. max \in i .. e - 1 /\ max <= LastBreak(e)
      BY <1>1, <1>2, <2>2, <2>3
    <3>2. LastBreak(e) \in late
      <4>1. LastBreak(e) \notin early
        <5> HIDE DEF max, early
        <5> QED BY <1>2, <2>3, <3>1
      <4> QED BY <1>1, <2>3, <3>1, <4>1
    <3>3. LastBreak(e) <= max
      BY <2>2, <3>2
    <3> HIDE DEF max
    <3>4. LastBreak(e) = max
      BY <2>3, <3>1, <3>3
    <3> QED BY <3>4 DEF max
  <2> HIDE DEF late
  <2>5. MovedFar(Place(i), e, late) = [position |-> e, line |-> Place(i).line + Cardinality(late),
                                       column |-> e - Max(late)]
    BY <1>5, Zenon DEF MovedFar
  <2>6. Place(i).line = 1 + Cardinality(early)
    BY DEF Place
  <2>7. Place(i).line + Cardinality(late) = 1 + Cardinality(Breaks(1, e))
    <3> HIDE DEF early
    <3> QED BY <1>2, <1>3, <2>6
  <2> QED BY <2>4, <2>5, <2>7, Zenon DEF Place, late
<1> QED BY <1>4, <1>5

LEMMA Unwrapped ==
  ASSUME NEW n \in Nat, n < PlaceWidth
  PROVE  n % PlaceWidth = n
BY PlaceWidthAssumption

(* The lexer's place after characters whose breaks it counts is right.     *)
LEMMA MovedRight ==
  ASSUME PlacesFit, NEW i \in Nat \ {0}, NEW e \in Positions, i <= e
  PROVE  Moved(Place(i), e, Breaks(i, e)) = Place(e)
<1> DEFINE breaks == Breaks(i, e)
           far == MovedFar(Place(i), e, breaks)
<1>1. far = Place(e)
  BY MovedFarRight DEF Positions
<1>2. Moved(Place(i), e, breaks)
        = [position |-> far.position, line |-> far.line % PlaceWidth,
           column |-> far.column % PlaceWidth]
  BY DEF Moved, MovedFar
<1>3. Place(e).line = LineAt(e) /\ Place(e).column = ColumnAt(e) /\ Place(e).position = e
  BY DEF Place, LineAt, ColumnAt, LastBreak, Breaks, BreaksBefore
<1>4. Place(e).line \in Nat /\ Place(e).column \in Nat
  <2>1. e \in Nat \ {0}
    BY DEF Positions
  <2>2. LastBreak(e) \in 0 .. e - 1 /\ Cardinality(Breaks(1, e)) \in Nat
    BY <2>1, LastBreakShape, BreaksFinite
  <2> QED BY <2>1, <2>2 DEF Place
<1>5. Place(e).line < PlaceWidth /\ Place(e).column < PlaceWidth
  BY <1>3 DEF PlacesFit, Positions
<1> HIDE DEF far
<1>6. far.line % PlaceWidth = Place(e).line /\ far.column % PlaceWidth = Place(e).column
  BY <1>1, <1>4, <1>5, Unwrapped
<1>7. Place(e) = [position |-> e, line |-> Place(e).line, column |-> Place(e).column]
  BY DEF Place
<1> QED BY <1>1, <1>2, <1>3, <1>6, <1>7

(* Where a token starts, by the place behind it.                           *)
LEMMA BackInLine ==
  ASSUME NEW i \in Nat \ {0}, NEW e \in Nat, i <= e, Breaks(i, e) = {}
  PROVE  /\ Place(e).line = Place(i).line
         /\ ColumnOf(Place(e).column, e - i) = Place(i).column
<1>1. MovedFar(Place(i), e, {}) = Place(e)
  BY MovedFarRight
<1>2. /\ Place(e).line = Place(i).line + Cardinality({})
      /\ Place(e).column = (Place(i).column + e) - i
  BY <1>1 DEF MovedFar, Place
<1>3. Place(i).column = i - LastBreak(i) /\ LastBreak(i) \in 0 .. i - 1
  BY LastBreakShape DEF Place
<1>4. Place(i).line \in Nat /\ Cardinality({}) = 0
  BY BreaksFinite, FS_EmptySet DEF Place
<1>5. Place(i).column \in Nat \ {0}
  BY <1>3
<1> QED BY <1>2, <1>4, <1>5 DEF ColumnOf

(* Places are in order.                                                    *)
LEMMA PlacesInOrder ==
  ASSUME NEW i \in Nat \ {0}, NEW e \in Nat, i <= e
  PROVE  \/ Place(e).line > Place(i).line
         \/ Place(e).line = Place(i).line /\ Place(e).column = (Place(i).column + e) - i
<1> DEFINE late == Breaks(i, e)
<1>1. Place(e) = MovedFar(Place(i), e, late)
  BY MovedFarRight
<1>2. IsFiniteSet(late) /\ Cardinality(late) \in Nat /\ (Cardinality(late) = 0 <=> late = {})
  BY BreaksFinite, FS_EmptySet
<1>3. Place(i).line \in Nat
  BY BreaksFinite DEF Place
<1> HIDE DEF late
<1>4. Place(e).line = Place(i).line + Cardinality(late)
  BY <1>1 DEF MovedFar
<1>5. late = {} => Place(e).column = (Place(i).column + e) - i
  BY <1>1 DEF MovedFar, Place
<1> QED BY <1>2, <1>3, <1>4, <1>5

-----------------------------------------------------------------------------
(* What is read on one line *)

OnLine(a, e) ==
  /\ e \in Positions /\ a <= e
  /\ Breaks(a, e) = {}

LEMMA OnLineEmpty ==
  ASSUME NEW a \in Positions
  PROVE  OnLine(a, a)
BY DEF OnLine, Breaks, Positions

LEMMA OnLineFurther ==
  ASSUME NEW a \in Positions, NEW b, NEW e, OnLine(a, b), OnLine(b, e)
  PROVE  OnLine(a, e)
BY DEF OnLine, Breaks, Positions

(* A character that is no break.                                           *)
LEMMA OnLineCharacter ==
  ASSUME Len(source) \in Nat, NEW a \in Positions, CharAt(a) # "end", CharAt(a) # "\n"
  PROVE  OnLine(a, a + 1)
BY DEF OnLine, Breaks, Positions, CharAt

LEMMA OnLineEndOf ==
  ASSUME Len(source) \in Nat, NEW a \in Positions, NEW chars, "\n" \notin chars
  PROVE  OnLine(a, EndOf(a, chars))
<1> DEFINE e == EndOf(a, chars)
<1>1. e \in a .. Len(source) + 1 /\ e \in Positions /\ \A j \in a .. e - 1 : source[j] \in chars
  BY EndOfShape
<1> HIDE DEF e
<1>2. OnLine(a, e)
  BY <1>1 DEF OnLine, Breaks, Positions
<1> QED BY <1>2 DEF e

LEMMA PartOnLine ==
  ASSUME Len(source) \in Nat, NEW i \in Positions, NEW base \in {2, 8, 10, 16}
  PROVE  /\ OnLine(i, Part(i, base).end)
         /\ Part(i, base).ok \in BOOLEAN
         /\ Part(i, base).ok => i < Part(i, base).end
<1> DEFINE chars == (DigitsOf(base) \ {"e", "E"}) \union {"_"}
           e == EndOf(i, chars)
<1>1. "\n" \notin chars
  BY DEF DigitsOf, Digits
<1>2. Part(i, base).end = e
  BY DEF Part
<1>3. Part(i, base).ok = \E j \in i .. e - 1 : source[j] \in DigitsOf(base) \ {"e", "E"}
  BY DEF Part
<1> HIDE DEF chars
<1>4. OnLine(i, e)
  BY <1>1, OnLineEndOf
<1> HIDE DEF e
<1>5. e \in Nat
  BY <1>4 DEF OnLine, Positions
<1> QED BY <1>2, <1>3, <1>4, <1>5 DEF Positions

LEMMA PeriodOnLine ==
  ASSUME Len(source) \in Nat, NEW i \in Positions, CharAt(i) = "("
  PROVE  Period(i).ok \in BOOLEAN /\ (Period(i).ok => OnLine(i, Period(i).end) /\ i < Period(i).end)
<1> DEFINE part == Part(i + 1, 10)
<1>1. OnLine(i, i + 1)
  BY OnLineCharacter
<1>2. i + 1 \in Positions
  BY <1>1 DEF OnLine
<1>3. OnLine(i + 1, part.end) /\ part.ok \in BOOLEAN
  BY <1>2, PartOnLine
<1>4. Period(i).end = part.end + 1 /\ Period(i).ok = (part.ok /\ CharAt(part.end) = ")")
  BY DEF Period
<1> HIDE DEF part
<1>5. part.end \in Positions /\ i < part.end
  BY <1>2, <1>3 DEF OnLine, Positions
<1>6. ASSUME Period(i).ok
      PROVE  OnLine(i, part.end + 1)
  <2>1. CharAt(part.end) = ")"
    BY <1>4, <1>6
  <2>2. OnLine(part.end, part.end + 1)
    BY <1>5, <2>1, OnLineCharacter
  <2>3. OnLine(i, part.end)
    BY <1>1, <1>3, OnLineFurther
  <2> QED BY <2>2, <2>3, OnLineFurther
<1>7. i < part.end + 1
  BY <1>5 DEF Positions
<1> QED BY <1>4, <1>6, <1>7

(* The periods of a fraction.                                              *)
LEMMA FractionOnLine ==
  ASSUME Len(source) \in Nat, NEW i \in Positions
  PROVE  OnLine(i, Fraction(i).end)
<1> DEFINE D == Positions
           V == [end : Positions, ok : BOOLEAN]
           next(j) == Part(Period(j).end, 10).end
           Value(j, f) == IF CharAt(j) # "(" THEN [end |-> j, ok |-> TRUE]
                          ELSE IF ~Period(j).ok THEN [end |-> j, ok |-> FALSE]
                          ELSE f[next(j)]
           More(f) == [j \in 1 .. Len(source) + 1 |->
                         IF CharAt(j) # "(" THEN [end |-> j, ok |-> TRUE]
                         ELSE IF ~Period(j).ok THEN [end |-> j, ok |-> FALSE]
                         ELSE f[Part(Period(j).end, 10).end]]
           chosen == CHOOSE f : f = More(f)
           H == [j \in D |-> [f \in [D -> V] |-> Value(j, f)]]
           rank == [j \in D |-> Len(source) + 1 - j]
           digits == Part(i, 10)
<1>1. Fraction(i).end = [chosen[digits.end] EXCEPT
                           !.ok = @ /\ (digits.ok \/ CharAt(digits.end) = "(")].end
  BY Zenon DEF Fraction
<1>2. ASSUME NEW j \in D, CharAt(j) = "(", Period(j).ok
      PROVE  OnLine(j, next(j)) /\ next(j) \in D /\ j < next(j)
  <2>1. OnLine(j, Period(j).end) /\ j < Period(j).end
    BY <1>2, PeriodOnLine
  <2>2. Period(j).end \in Positions
    BY <2>1 DEF OnLine
  <2>3. OnLine(Period(j).end, next(j))
    BY <2>2, PartOnLine
  <2>4. OnLine(j, next(j))
    BY <2>1, <2>2, <2>3, OnLineFurther
  <2> HIDE DEF next
  <2> QED BY <2>1, <2>2, <2>3, <2>4 DEF OnLine, Positions
<1> HIDE DEF next
<1>3. ASSUME NEW j \in D, NEW f \in [D -> V]
      PROVE  Value(j, f) \in V
  <2>1. CASE CharAt(j) = "(" /\ Period(j).ok
    <3>1. f[next(j)] \in V
      BY <1>2, <2>1
    <3> QED BY <2>1, <3>1, Zenon
  <2>2. CASE CharAt(j) = "(" /\ ~Period(j).ok
    BY <2>2
  <2>3. CASE CharAt(j) # "("
    BY <2>3
  <2> QED BY <2>1, <2>2, <2>3
<1>4. ASSUME NEW j \in D, NEW f \in [D -> V], NEW g \in [D -> V],
             \A k \in D : rank[k] < rank[j] => f[k] = g[k]
      PROVE  Value(j, f) = Value(j, g)
  <2>1. CASE CharAt(j) = "(" /\ Period(j).ok
    <3>1. next(j) \in D /\ rank[next(j)] < rank[j]
      <4>1. next(j) \in D /\ j < next(j)
        BY <1>2, <2>1
      <4> QED BY <4>1 DEF Positions
    <3>2. f[next(j)] = g[next(j)]
      BY <1>4, <3>1
    <3> QED BY <2>1, <3>2, Zenon
  <2>2. CASE ~(CharAt(j) = "(" /\ Period(j).ok)
    BY <2>2, Zenon
  <2> QED BY <2>1, <2>2
<1>5. rank \in [D -> Nat]
  BY DEF Positions
<1> HIDE DEF V
<1>6. \A j \in D : \A f \in [D -> V] : H[j][f] = Value(j, f)
  BY Zenon
<1>7. H \in [D -> [[D -> V] -> V]]
  BY <1>3, Zenon
<1> HIDE DEF H, Value, rank, D
<1>8. DependsBelow(D, V, rank, H)
  <2>1. ASSUME NEW j \in D, NEW f \in [D -> V], NEW g \in [D -> V],
               \A k \in D : rank[k] < rank[j] => f[k] = g[k]
        PROVE  H[j][f] = H[j][g]
    <3>1. Value(j, f) = Value(j, g)
      BY <1>4, <2>1, Zenon
    <3> QED BY <1>6, <3>1, Zenon
  <2> QED BY <1>5, <1>7, <2>1, Zenon DEF DependsBelow
<1>9. V # {}
  <2>1. [end |-> i, ok |-> TRUE] \in V
    BY DEF V
  <2> QED BY <2>1
<1>10. PICK f \in [D -> V] : f = [j \in D |-> H[j][f]]
  BY <1>8, <1>9, SolutionExists
<1>11. \A j \in D : f[j] = Value(j, f)
  BY <1>6, <1>10, Zenon
<1>12. f = More(f)
  <2>1. f = [j \in D |-> f[j]]
    BY <1>10
  <2>2. \A j \in D : f[j] = IF CharAt(j) # "(" THEN [end |-> j, ok |-> TRUE]
                            ELSE IF ~Period(j).ok THEN [end |-> j, ok |-> FALSE]
                            ELSE f[Part(Period(j).end, 10).end]
    BY <1>11, Zenon DEF Value, next
  <2> QED BY <2>1, <2>2, Zenon DEF D, Positions
<1> HIDE DEF More
<1>13. chosen = More(chosen)
  BY <1>12, Zenon
<1> HIDE DEF chosen
<1>14. \A j \in Positions : chosen[j] = Value(j, chosen)
  BY <1>13, Zenon DEF More, Value, next, Positions
<1> DEFINE Good(j) == chosen[j] \in V /\ OnLine(j, chosen[j].end)
           bad == {j \in Positions : ~Good(j)}
           ranks == {Len(source) + 1 - j : j \in bad}
<1>15. bad = {}
  <2> SUFFICES ASSUME bad # {} PROVE FALSE
    OBVIOUS
  <2>1. ranks \subseteq Nat /\ ranks # {}
    <3>1. \A j \in bad : Len(source) + 1 - j \in Nat
      BY DEF Positions
    <3> HIDE DEF bad
    <3> QED BY <3>1, Zenon
  <2>2. PICK least \in ranks : \A k \in ranks : least <= k
    <3> HIDE DEF ranks
    <3> QED BY <2>1, LeastNumber
  <2>3. PICK j \in bad : \A k \in bad : Len(source) + 1 - j <= Len(source) + 1 - k
    BY <2>2
  <2>4. j \in Positions /\ ~Good(j) /\ chosen[j] = Value(j, chosen)
    BY <1>14, <2>3
  <2>5. CASE CharAt(j) = "(" /\ Period(j).ok
    <3>1. OnLine(j, next(j)) /\ next(j) \in Positions /\ j < next(j)
      BY <1>2, <2>4, <2>5 DEF D
    <3>2. ~(Len(source) + 1 - j <= Len(source) + 1 - next(j))
      BY <2>4, <3>1 DEF Positions
    <3>3. Good(next(j))
      BY <2>3, <3>1, <3>2
    <3>4. chosen[j] = chosen[next(j)]
      BY <2>4, <2>5, Zenon DEF Value
    <3>5. OnLine(j, chosen[j].end)
      BY <2>4, <3>1, <3>3, <3>4, OnLineFurther
    <3> QED BY <2>4, <3>3, <3>4, <3>5
  <2>6. CASE ~(CharAt(j) = "(" /\ Period(j).ok)
    <3>1. chosen[j] = [end |-> j, ok |-> TRUE] \/ chosen[j] = [end |-> j, ok |-> FALSE]
      BY <2>4, <2>6, Zenon DEF Value
    <3>2. chosen[j].end = j /\ chosen[j] \in V
      <4>1. \A b \in BOOLEAN : [end |-> j, ok |-> b].end = j /\ [end |-> j, ok |-> b] \in V
        BY <2>4 DEF V
      <4> QED BY <3>1, <4>1, Zenon
    <3>3. OnLine(j, j)
      BY <2>4, OnLineEmpty
    <3> QED BY <2>4, <3>2, <3>3
  <2> QED BY <2>5, <2>6
<1>16. OnLine(i, digits.end)
  BY PartOnLine
<1> HIDE DEF digits
<1>17. digits.end \in Positions
  BY <1>16 DEF OnLine
<1>18. chosen[digits.end] \in V /\ OnLine(digits.end, chosen[digits.end].end)
  BY <1>15, <1>17
<1>19. Fraction(i).end = chosen[digits.end].end
  BY <1>1, <1>18 DEF V
<1> QED BY <1>16, <1>17, <1>18, <1>19, OnLineFurther

LEMMA ExponentOnLine ==
  ASSUME Len(source) \in Nat, NEW i \in Positions
  PROVE  OnLine(i, Exponent(i))
<1> DEFINE start == IF CharAt(i + 1) \in {"+", "-"} THEN i + 2 ELSE i + 1
           part == Part(start, 10)
<1>1. Exponent(i) = IF CharAt(i) \in {"e", "E"} /\ part.ok THEN part.end ELSE i
  BY DEF Exponent
<1>2. CASE CharAt(i) \in {"e", "E"}
  <2>1. OnLine(i, i + 1)
    BY <1>2, OnLineCharacter
  <2>2. i + 1 \in Positions
    BY <2>1 DEF OnLine
  <2>3. OnLine(i, start) /\ start \in Positions
    <3>1. CASE CharAt(i + 1) \in {"+", "-"}
      <4>1. OnLine(i + 1, (i + 1) + 1)
        BY <2>2, <3>1, OnLineCharacter
      <4>2. (i + 1) + 1 = start
        BY <3>1 DEF Positions
      <4> QED BY <2>1, <2>2, <4>1, <4>2, OnLineFurther DEF OnLine
    <3>2. CASE CharAt(i + 1) \notin {"+", "-"}
      BY <2>1, <2>2, <3>2
    <3> QED BY <3>1, <3>2
  <2> HIDE DEF start
  <2>4. OnLine(start, part.end)
    BY <2>3, PartOnLine
  <2>5. OnLine(i, part.end)
    BY <2>3, <2>4, OnLineFurther
  <2> QED BY <1>1, <2>5, OnLineEmpty
<1>3. CASE CharAt(i) \notin {"e", "E"}
  BY <1>1, <1>3, OnLineEmpty
<1> QED BY <1>2, <1>3

LEMMA NumberOnLine ==
  ASSUME Len(source) \in Nat, NEW i \in Positions, CharAt(i) \in Digits, Number(i).ok
  PROVE  OnLine(i, Number(i).end) /\ i < Number(i).end
<1> DEFINE base     == IF CharAt(i) = "0" THEN BaseOf(CharAt(i + 1)) ELSE 10
           prefixed == base # 10
           start    == IF prefixed THEN i + 2 ELSE i
           whole    == Part(start, base)
           dotted   == CharAt(whole.end) = "."
           fraction == IF dotted /\ ~prefixed THEN Fraction(whole.end + 1) ELSE whole
           end      == Exponent(fraction.end)
<1>1. Number(i).end = end /\ (Number(i).ok => whole.ok)
  BY DEF Number
<1>2. base \in {2, 8, 10, 16}
  BY DEF BaseOf
<1>3. OnLine(i, start) /\ start \in Positions
  <2>1. CASE prefixed
    <3>1. CharAt(i) = "0" /\ CharAt(i + 1) \in {"b", "B", "o", "O", "x", "X"}
      BY <2>1 DEF BaseOf
    <3>2. OnLine(i, i + 1)
      BY <3>1, OnLineCharacter
    <3>3. i + 1 \in Positions
      BY <3>2 DEF OnLine
    <3>4. OnLine(i + 1, (i + 1) + 1)
      BY <3>1, <3>3, OnLineCharacter
    <3>5. (i + 1) + 1 = start
      BY <2>1 DEF Positions
    <3> QED BY <3>2, <3>3, <3>4, <3>5, OnLineFurther DEF OnLine
  <2>2. CASE ~prefixed
    BY <2>2, OnLineEmpty
  <2> QED BY <2>1, <2>2
<1> HIDE DEF base, start
<1>4. OnLine(start, whole.end) /\ (whole.ok => start < whole.end)
  BY <1>2, <1>3, PartOnLine
<1> HIDE DEF whole
<1>5. whole.end \in Positions
  BY <1>4 DEF OnLine
<1>6. OnLine(whole.end, fraction.end)
  <2>1. CASE dotted /\ ~prefixed
    <3>1. OnLine(whole.end, whole.end + 1)
      BY <1>5, <2>1, OnLineCharacter
    <3>2. whole.end + 1 \in Positions
      BY <3>1 DEF OnLine
    <3>3. OnLine(whole.end + 1, Fraction(whole.end + 1).end)
      BY <3>2, FractionOnLine
    <3> QED BY <1>5, <2>1, <3>1, <3>2, <3>3, OnLineFurther
  <2>2. CASE ~(dotted /\ ~prefixed)
    BY <1>5, <2>2, OnLineEmpty
  <2> QED BY <2>1, <2>2
<1> HIDE DEF fraction
<1>7. fraction.end \in Positions
  BY <1>6 DEF OnLine
<1>8. OnLine(fraction.end, end)
  BY <1>7, ExponentOnLine
<1> HIDE DEF end
<1>9. OnLine(start, fraction.end)
  BY <1>3, <1>4, <1>5, <1>6, OnLineFurther
<1>10. OnLine(i, fraction.end)
  BY <1>3, <1>9, OnLineFurther
<1>11. OnLine(i, end)
  BY <1>7, <1>8, <1>10, OnLineFurther
<1>12. i < end
  BY <1>1, <1>3, <1>4, <1>6, <1>8, <1>5, <1>7 DEF OnLine, Positions
<1> QED BY <1>1, <1>11, <1>12

(* No operator has a line break in it.                                     *)
OperatorCharacters == {"%", ":", ".", ";", "=", ",", "+", "-", "*", "/", "?", "~", "|", "&", "!",
                       "^", "@", "$", ">", "<", "{", "}", "[", "]", "(", ")"}

LEMMA OperatorMade ==
  ASSUME NEW op \in Operators
  PROVE  op \in Seq(OperatorCharacters)
<1> DEFINE single   == {"%", ":", ".", ";", "=", ",", "+", "-", "*", "/", "?", "~", "|", "&", "!",
                        "^", "@", "$", ">", "<", "{", "}", "[", "]", "(", ")"}
           assigned == {"=", "!", "<", ">", "+", "-", "*", "/", "%", "|", "&", "^"}
           S == OperatorCharacters
<1>1. single \subseteq S /\ assigned \subseteq S
  BY DEF OperatorCharacters
<1>2. "=" \in S /\ "+" \in S /\ "-" \in S /\ ">" \in S /\ "<" \in S
  BY DEF OperatorCharacters
<1> SUFFICES op \in Seq(S)
  OBVIOUS
<1> HIDE DEF single, assigned, S
<1>3. \A c \in S : <<c>> \in Seq(S)
  OBVIOUS
<1>4. \A t \in Shifts : t \in Seq(S)
  <2> TAKE t \in Shifts
  <2>1. \E n \in 2 .. 4 : \E c \in {"<", ">"} : t = [i \in 1 .. n |-> c]
    BY SMT DEF Shifts
  <2>2. PICK n \in 2 .. 4, c \in {"<", ">"} : t = [i \in 1 .. n |-> c]
    BY <2>1
  <2>3. n \in Nat /\ t \in [1 .. n -> S]
    BY <1>2, <2>2
  <2> QED BY <2>3, SeqDef
<1>5. \A t \in Seq(S) : Append(t, "=") \in Seq(S)
  BY <1>2, AppendProperties
<1>6. <<"+", "+">> \in Seq(S) /\ <<"-", "-">> \in Seq(S) /\ <<"-", ">">> \in Seq(S)
  BY <1>2
<1>7. \/ op \in {<<c>> : c \in single}
      \/ op \in Shifts
      \/ op \in {Append(t, "=") : t \in Shifts \union {<<c>> : c \in assigned}}
      \/ op \in {<<"+", "+">>, <<"-", "-">>, <<"-", ">">>}
  BY Zenon DEF Operators, single, assigned
<1>8. CASE op \in {<<c>> : c \in single}
  <2>1. PICK c \in single : op = <<c>>
    BY <1>8, Zenon
  <2> QED BY <1>1, <1>3, <2>1, Zenon
<1>9. CASE op \in {Append(t, "=") : t \in Shifts \union {<<c>> : c \in assigned}}
  <2>1. PICK t \in Shifts \union {<<c>> : c \in assigned} : op = Append(t, "=")
    BY <1>9, Zenon
  <2>2. t \in Seq(S)
    <3>1. t \in Shifts \/ \E c \in assigned : t = <<c>>
      BY Zenon
    <3> QED BY <1>1, <1>3, <1>4, <3>1, Zenon
  <2> QED BY <1>5, <2>1, <2>2, Zenon
<1>10. CASE op \in {<<"+", "+">>, <<"-", "-">>, <<"-", ">">>}
  BY <1>6, <1>10, Zenon
<1> QED BY <1>4, <1>7, <1>8, <1>9, <1>10, Zenon

LEMMA TextShape ==
  ASSUME source \in Seq(ToSet(source)), NEW i \in Positions, NEW e \in Positions, i <= e
  PROVE  /\ Text(i, e) \in Seq(ToSet(source))
         /\ Len(Text(i, e)) = e - i
         /\ \A k \in 1 .. e - i : Text(i, e)[k] = source[i + k - 1]
<1>1. Len(source) \in Nat /\ DOMAIN source = 1 .. Len(source)
  OBVIOUS
<1>2. \A k \in i .. e - 1 : source[k] \in ToSet(source)
  BY <1>1 DEF ToSet, Positions
<1>3. i \in Int /\ e - 1 \in Int
  BY DEF Positions
<1> DEFINE S == ToSet(source)
           t == SubSeq(source, i, e - 1)
<1> HIDE DEF S
<1>4. /\ t \in Seq(S)
      /\ Len(t) = IF i <= e - 1 THEN (e - 1) - i + 1 ELSE 0
      /\ \A k \in 1 .. (e - 1) - i + 1 : t[k] = source[i + k - 1]
  BY <1>2, <1>3, SubSeqProperties DEF S
<1> HIDE DEF t
<1>5. Len(t) = e - i /\ \A k \in 1 .. e - i : t[k] = source[i + k - 1]
  BY <1>4 DEF Positions
<1> QED BY <1>4, <1>5 DEF Text, S, t

LEMMA OperatorOnLine ==
  ASSUME source \in Seq(ToSet(source)), NEW i \in Positions
  PROVE  /\ LongestOperator(i) \in 0 .. 5
         /\ LongestOperator(i) > 0 => OnLine(i, i + LongestOperator(i))
<1> DEFINE set == Candidates(i) \union {0}
           n == Max(set)
<1>1. LongestOperator(i) = n
  BY DEF LongestOperator
<1>2. set \subseteq 0 .. 5 /\ set # {}
  BY DEF Candidates
<1>3. n \in set
  <2> HIDE DEF set
  <2> QED BY <1>2, GreatestOf
<1> HIDE DEF n
<1>4. ASSUME n > 0
      PROVE  OnLine(i, i + n)
  <2>1. n \in 1 .. 5 /\ i + n <= Len(source) + 1 /\ Text(i, i + n) \in Operators
    BY <1>3, <1>4 DEF Candidates
  <2>2. i + n \in Positions /\ i <= i + n
    BY <2>1 DEF Positions
  <2>3. Len(Text(i, i + n)) = n /\ \A k \in 1 .. n : Text(i, i + n)[k] = source[i + k - 1]
    <3>1. (i + n) - i = n
      BY <2>1 DEF Positions
    <3> QED BY <2>2, <3>1, TextShape
  <2>4. \A k \in 1 .. n : source[i + k - 1] # "\n"
    <3> DEFINE text == Text(i, i + n)
    <3>1. text \in Seq(OperatorCharacters)
      BY <2>1, OperatorMade
    <3> HIDE DEF text
    <3>2. \A k \in 1 .. Len(text) : text[k] \in OperatorCharacters
      BY <3>1
    <3>3. "\n" \notin OperatorCharacters
      BY DEF OperatorCharacters
    <3> QED BY <2>3, <3>2, <3>3, Zenon DEF text
  <2>5. \A j \in i .. (i + n) - 1 : (j - i) + 1 \in 1 .. n /\ i + ((j - i) + 1) - 1 = j
    BY <2>1 DEF Positions
  <2>6. \A j \in i .. (i + n) - 1 : source[j] # "\n"
    BY <2>4, <2>5
  <2>7. Breaks(i, i + n) = {}
    BY <2>6, Zenon DEF Breaks
  <2> QED BY <2>2, <2>7 DEF OnLine
<1> QED BY <1>1, <1>2, <1>3, <1>4

-----------------------------------------------------------------------------
(* What literals read *)

(* Characters whose breaks are these, which may be several lines.          *)
Over(a, e, breaks) ==
  /\ e \in Positions /\ a <= e
  /\ breaks = Breaks(a, e)

LEMMA OverFurther ==
  ASSUME NEW a \in Positions, NEW b, NEW e, NEW early, NEW late,
         Over(a, b, early), Over(b, e, late)
  PROVE  Over(a, e, early \union late)
BY DEF Over, Breaks, Positions

(* The part of a literal behind its character at i.                        *)
LEMMA QuotedOver ==
  ASSUME Len(source) \in Nat, NEW i \in 1 .. Len(source)
  PROVE  /\ Quoted(i).end \in Positions /\ i + 1 <= Quoted(i).end
         /\ ~BreakEscaped /\ source[i] \in Quotes => Over(i, Quoted(i).end, Quoted(i).breaks)
<1> DEFINE n == Len(source)
           D == i + 1 .. n + 2
           B == SUBSET (1 .. n)
           R == SUBSET {"unclosed literal", "escape"}
           V == [end : Positions, chars : Nat, breaks : B, reports : R]
           nothing == [end |-> n + 1, chars |-> 0, breaks |-> {}, reports |-> {}]
           Escaped(j, v) ==
             [v EXCEPT !.chars = @ + 1,
                       !.reports = @ \union IF CharAt(j + 1) \in Escapes THEN {} ELSE {"escape"}]
           Plain(j, v) ==
             [v EXCEPT !.chars = @ + 1,
                       !.breaks = @ \union IF source[j] = "\n" THEN {j} ELSE {}]
           Value(j, f) == IF j > n THEN [nothing EXCEPT !.reports = {"unclosed literal"}]
                          ELSE IF source[j] = source[i] THEN [nothing EXCEPT !.end = j + 1]
                          ELSE IF source[j] = "\\" THEN Escaped(j, f[j + 2])
                          ELSE Plain(j, f[j + 1])
           From(f) == [j \in D |-> Value(j, f)]
           chosen == CHOOSE f : f = From(f)
           H == [j \in D |-> [f \in [D -> V] |-> Value(j, f)]]
           rank == [j \in D |-> n + 2 - j]
<1> DEFINE Counts == ~BreakEscaped /\ source[i] \in Quotes
<1>0. Counts => source[i] # "\n"
  BY Zenon DEF Quotes
<1>1. Quoted(i) = chosen[i + 1]
  BY Zenon DEF Quoted
<1>2. \A j \in D : /\ j \in Nat /\ j > i /\ n + 2 - j \in Nat
                   /\ ~(j > n) => j \in 1 .. n /\ j + 1 \in D /\ j + 2 \in D
  OBVIOUS
<1> DEFINE more(j) == IF CharAt(j + 1) \in Escapes THEN {} ELSE {"escape"}
           break(j) == IF source[j] = "\n" THEN {j} ELSE {}
<1>a. /\ {} \in B /\ {} \in R /\ {"unclosed literal"} \in R
      /\ \A j, r : r \in R => r \union more(j) \in R
  BY Zenon
<1>b. \A b \in B : \A j \in 1 .. n : b \union break(j) \in B
  BY Zenon
<1>c. n + 1 \in Positions /\ \A j \in 1 .. n : j + 1 \in Positions
  BY DEF Positions
<1> HIDE DEF B, R, more, break
<1>3. ASSUME NEW j, NEW v \in V
      PROVE  /\ Escaped(j, v) \in V /\ Escaped(j, v).end = v.end /\ Escaped(j, v).breaks = v.breaks
             /\ j \in 1 .. n => Plain(j, v) \in V
             /\ Plain(j, v).end = v.end
             /\ Plain(j, v).breaks = v.breaks \union break(j)
  <2>1. Escaped(j, v) = [v EXCEPT !.chars = @ + 1, !.reports = @ \union more(j)]
    BY Zenon DEF more
  <2>2. Plain(j, v) = [v EXCEPT !.chars = @ + 1, !.breaks = @ \union break(j)]
    BY Zenon DEF break
  <2> HIDE DEF Escaped, Plain
  <2>3. v.end \in Positions /\ v.chars \in Nat /\ v.breaks \in B /\ v.reports \in R
    OBVIOUS
  <2>4. v.chars + 1 \in Nat /\ v.reports \union more(j) \in R
    <3>1. v.chars + 1 \in Nat
      BY <2>3
    <3>2. v.reports \union more(j) \in R
      BY <1>a, <2>3, Zenon
    <3> QED BY <3>1, <3>2
  <2>5. Escaped(j, v) \in V
    BY <2>1, <2>3, <2>4
  <2>6. Escaped(j, v).end = v.end /\ Escaped(j, v).breaks = v.breaks
    BY <2>1
  <2>7. Plain(j, v).end = v.end /\ Plain(j, v).breaks = v.breaks \union break(j)
    BY <2>2
  <2>8. ASSUME j \in 1 .. n PROVE Plain(j, v) \in V
    <3>1. v.breaks \union break(j) \in B
      BY <1>b, <2>3, <2>8
    <3> QED BY <2>2, <2>3, <2>4, <3>1
  <2> QED BY <2>5, <2>6, <2>7, <2>8
<1> HIDE DEF Escaped, Plain
<1>4. ASSUME NEW j \in D, j > n
      PROVE  \A f : Value(j, f) = [end |-> n + 1, chars |-> 0, breaks |-> {},
                                   reports |-> {"unclosed literal"}]
  BY <1>4
<1>5. ASSUME NEW j \in D, ~(j > n), source[j] = source[i]
      PROVE  \A f : Value(j, f) = [end |-> j + 1, chars |-> 0, breaks |-> {}, reports |-> {}]
  BY <1>5
<1>6. ASSUME NEW j \in D, ~(j > n), source[j] # source[i]
      PROVE  \A f : Value(j, f) = IF source[j] = "\\" THEN Escaped(j, f[j + 2])
                                  ELSE Plain(j, f[j + 1])
  BY <1>6, Zenon
<1>7. ASSUME NEW j \in D, NEW f \in [D -> V]
      PROVE  Value(j, f) \in V
  <2>1. CASE j > n
    <3>2. [end |-> n + 1, chars |-> 0, breaks |-> {}, reports |-> {"unclosed literal"}] \in V
      BY <1>a, <1>c
    <3> QED BY <1>4, <2>1, <3>2, Zenon
  <2>2. CASE ~(j > n) /\ source[j] = source[i]
    <3>1. j + 1 \in Positions
      BY <1>2, <1>c, <2>2
    <3>2. [end |-> j + 1, chars |-> 0, breaks |-> {}, reports |-> {}] \in V
      BY <1>a, <3>1
    <3> QED BY <1>5, <2>2, <3>2, Zenon
  <2>3. CASE ~(j > n) /\ source[j] # source[i]
    <3>1. j + 1 \in D /\ j + 2 \in D /\ j \in 1 .. n
      BY <1>2, <2>3
    <3>2. f[j + 1] \in V /\ f[j + 2] \in V
      BY <3>1, Zenon
    <3> HIDE DEF V
    <3> QED BY <1>3, <1>6, <2>3, <3>1, <3>2, Zenon
  <2> QED BY <2>1, <2>2, <2>3, Zenon
<1>8. ASSUME NEW j \in D, NEW f \in [D -> V], NEW g \in [D -> V],
             \A k \in D : rank[k] < rank[j] => f[k] = g[k]
      PROVE  Value(j, f) = Value(j, g)
  <2>1. CASE j > n
    BY <1>4, <2>1, Zenon
  <2>2. CASE ~(j > n) /\ source[j] = source[i]
    BY <1>5, <2>2, Zenon
  <2>3. CASE ~(j > n) /\ source[j] # source[i]
    <3>1. j + 1 \in D /\ j + 2 \in D
      BY <1>2, <2>3
    <3>2. rank[j + 1] < rank[j] /\ rank[j + 2] < rank[j]
      BY <3>1
    <3>3. f[j + 1] = g[j + 1] /\ f[j + 2] = g[j + 2]
      BY <1>8, <3>1, <3>2
    <3> QED BY <1>6, <2>3, <3>3, Zenon
  <2> QED BY <2>1, <2>2, <2>3, Zenon
<1>9. rank \in [D -> Nat]
  BY <1>2
<1>10. V # {}
  <2>1. nothing \in V
    BY <1>a, <1>c
  <2> QED BY <2>1
<1> HIDE DEF V
<1>11. \A j \in D : \A f \in [D -> V] : H[j][f] = Value(j, f)
  BY Zenon
<1>12. H \in [D -> [[D -> V] -> V]]
  BY <1>7, Zenon
<1> HIDE DEF H, Value, rank, D
<1>13. DependsBelow(D, V, rank, H)
  <2>1. ASSUME NEW j \in D, NEW f \in [D -> V], NEW g \in [D -> V],
               \A k \in D : rank[k] < rank[j] => f[k] = g[k]
        PROVE  H[j][f] = H[j][g]
    <3>1. Value(j, f) = Value(j, g)
      BY <1>8, <2>1, Zenon
    <3> QED BY <1>11, <3>1, Zenon
  <2> QED BY <1>9, <1>12, <2>1, Zenon DEF DependsBelow
<1>14. PICK f \in [D -> V] : f = [j \in D |-> H[j][f]]
  BY <1>10, <1>13, SolutionExists
<1>15. f = From(f)
  <2>1. f = [j \in D |-> f[j]]
    BY <1>14
  <2>2. \A j \in D : f[j] = Value(j, f)
    BY <1>11, <1>14, Zenon
  <2> QED BY <2>1, <2>2, Zenon
<1> HIDE DEF From
<1>16. chosen = From(chosen)
  BY <1>15, Zenon
<1> HIDE DEF chosen
<1>17. \A j \in D : chosen[j] = Value(j, chosen)
  BY <1>16, Zenon DEF From
<1> DEFINE Good(j) == /\ chosen[j] \in V
                      /\ Counts => chosen[j].breaks = Breaks(j, chosen[j].end)
                      /\ (IF j <= n THEN j ELSE n + 1) <= chosen[j].end
           bad == {j \in D : ~Good(j)}
<1>18. ASSUME NEW j \in D, \A k \in D : k > j => Good(k)
       PROVE  Good(j)
  <2> DEFINE r == chosen[j]
  <2> SUFFICES /\ r \in V
               /\ Counts => r.breaks = Breaks(j, r.end)
               /\ (IF j <= n THEN j ELSE n + 1) <= r.end
    OBVIOUS
  <2>1. j \in Nat \ {0} /\ j \in i + 1 .. n + 2 /\ r = Value(j, chosen)
    BY <1>2, <1>17 DEF D
  <2> HIDE DEF r
  <2>2. CASE j > n
    <3>1. r = [end |-> n + 1, chars |-> 0, breaks |-> {}, reports |-> {"unclosed literal"}]
      BY <1>4, <2>1, <2>2, Zenon
    <3>2. r.end = n + 1 /\ r.breaks = {}
      BY <3>1
    <3>3. Breaks(j, n + 1) = {}
      BY <2>1, <2>2 DEF Breaks
    <3>4. (IF j <= n THEN j ELSE n + 1) <= n + 1
      BY <2>1, <2>2
    <3>5. r \in V
      BY <1>a, <1>c, <3>1 DEF V
    <3> QED BY <3>2, <3>3, <3>4, <3>5, Zenon
  <2>3. CASE ~(j > n) /\ source[j] = source[i]
    <3>1. r = [end |-> j + 1, chars |-> 0, breaks |-> {}, reports |-> {}]
      BY <1>5, <2>1, <2>3, Zenon
    <3>2. r.end = j + 1 /\ r.breaks = {}
      BY <3>1
    <3>3. ASSUME Counts PROVE Breaks(j, j + 1) = {}
      <4>1. source[j] # "\n"
        BY <1>0, <2>3, <3>3, Zenon
      <4>2. \A k \in j .. (j + 1) - 1 : k = j
        BY <2>1
      <4> QED BY <4>1, <4>2, Zenon DEF Breaks
    <3>4. (IF j <= n THEN j ELSE n + 1) <= j + 1
      BY <2>1
    <3>5. r \in V
      <4>1. j + 1 \in Positions
        BY <1>2, <1>c, <2>3
      <4> QED BY <1>a, <3>1, <4>1 DEF V
    <3> QED BY <3>2, <3>3, <3>4, <3>5, Zenon
  <2>4. CASE ~(j > n) /\ source[j] # source[i] /\ source[j] = "\\"
    <3> DEFINE s == chosen[j + 2]
    <3>1. j + 2 \in D /\ j \in 1 .. n
      BY <1>2, <2>4
    <3>2. Good(j + 2)
      BY <1>18, <2>1, <3>1
    <3>3. /\ s \in V /\ (Counts => s.breaks = Breaks(j + 2, s.end))
          /\ (IF j + 2 <= n THEN j + 2 ELSE n + 1) <= s.end
      BY <3>2, Zenon
    <3> HIDE DEF s
    <3>4. r = Escaped(j, s)
      BY <1>6, <2>1, <2>4, Zenon DEF s
    <3>5. r \in V /\ r.end = s.end /\ r.breaks = s.breaks
      BY <1>3, <3>3, <3>4
    <3>6. s.end \in Positions
      BY <3>3 DEF V
    <3> DEFINE e == s.end
    <3>7. (IF j + 2 <= n THEN j + 2 ELSE n + 1) <= e
      BY <3>3
    <3> HIDE DEF e
    <3>8. ASSUME Counts PROVE j + 1 <= n => source[j + 1] # "\n"
      BY <2>4, <3>1, <3>8 DEF BreakEscaped
    <3>9. ASSUME Counts PROVE Breaks(j, e) = Breaks(j + 2, e)
      <4>1. j + 1 <= n => source[j + 1] # "\n"
        BY <3>8, <3>9, Zenon
      <4> QED BY <2>4, <3>1, <3>6, <4>1 DEF Breaks, Positions, e
    <3>10. j <= e
      BY <3>1, <3>6, <3>7 DEF Positions, e
    <3>11. (IF j <= n THEN j ELSE n + 1) <= e
      BY <2>4, <3>10
    <3> QED BY <3>3, <3>5, <3>9, <3>11, Zenon DEF e
  <2>5. CASE ~(j > n) /\ source[j] # source[i] /\ source[j] # "\\"
    <3> DEFINE s == chosen[j + 1]
    <3>1. j + 1 \in D /\ j \in 1 .. n
      BY <1>2, <2>5
    <3>2. Good(j + 1)
      BY <1>18, <2>1, <3>1
    <3>3. /\ s \in V /\ (Counts => s.breaks = Breaks(j + 1, s.end))
          /\ (IF j + 1 <= n THEN j + 1 ELSE n + 1) <= s.end
      BY <3>2, Zenon
    <3> HIDE DEF s
    <3>4. r = Plain(j, s)
      BY <1>6, <2>1, <2>5, Zenon DEF s
    <3>5. r \in V /\ r.end = s.end /\ r.breaks = s.breaks \union break(j)
      BY <1>3, <3>1, <3>3, <3>4
    <3>6. s.end \in Positions
      BY <3>3 DEF V
    <3> DEFINE e == s.end
    <3>7. (IF j + 1 <= n THEN j + 1 ELSE n + 1) <= e
      BY <3>3
    <3> HIDE DEF e
    <3>8. j + 1 <= e
      BY <3>1, <3>6, <3>7 DEF Positions, e
    <3>9. Breaks(j, e) = Breaks(j + 1, e) \union break(j)
      BY <3>1, <3>6, <3>8 DEF Breaks, Positions, e, break
    <3>10. (IF j <= n THEN j ELSE n + 1) <= e
      BY <3>1, <3>6, <3>8 DEF Positions, e
    <3> QED BY <3>3, <3>5, <3>9, <3>10, Zenon DEF e
  <2> QED BY <2>2, <2>3, <2>4, <2>5
<1> HIDE DEF Good
<1>19. bad = {}
  <2> SUFFICES ASSUME bad # {} PROVE FALSE
    OBVIOUS
  <2>1. bad \subseteq 0 .. n + 2 /\ n + 2 \in Nat
    BY <1>2 DEF D
  <2>2. PICK j \in bad : \A k \in bad : k <= j
    <3> HIDE DEF bad
    <3>1. Max(bad) \in bad /\ \A k \in bad : k <= Max(bad)
      BY <2>1, GreatestOf
    <3> QED BY <3>1
  <2>3. \A k \in D : k > j => Good(k)
    <3> TAKE k \in D
    <3>1. j \in D /\ (k > j => ~(k <= j))
      BY <1>2, <2>2
    <3> QED BY <2>2, <3>1, Zenon
  <2> QED BY <1>18, <2>2, <2>3
<1>20. i + 1 \in D
  BY DEF D
<1>21. Good(i + 1)
  BY <1>19, <1>20
<1> DEFINE q == Quoted(i)
           e == q.end
<1>22. /\ q \in V /\ (IF i + 1 <= n THEN i + 1 ELSE n + 1) <= e
       /\ Counts => q.breaks = Breaks(i + 1, e)
  BY <1>1, <1>21, Zenon DEF Good
<1>23. e \in Positions
  BY <1>22 DEF V
<1> HIDE DEF e, q
<1>24. i + 1 <= e
  BY <1>22, <1>23 DEF Positions
<1>25. ASSUME Counts PROVE Breaks(i + 1, e) = Breaks(i, e)
  <2>1. \A k \in i .. e - 1 : k = i \/ k \in i + 1 .. e - 1
    BY <1>23 DEF Positions
  <2>2. \A k \in i + 1 .. e - 1 : k \in i .. e - 1
    BY <1>23 DEF Positions
  <2>3. ASSUME NEW k PROVE k \in Breaks(i + 1, e) <=> k \in Breaks(i, e)
    <3>1. k \in Breaks(i + 1, e) <=> k \in i + 1 .. e - 1 /\ source[k] = "\n"
      BY Zenon DEF Breaks
    <3>2. k \in Breaks(i, e) <=> k \in i .. e - 1 /\ source[k] = "\n"
      BY Zenon DEF Breaks
    <3>3. k \in i .. e - 1 /\ source[k] = "\n" => k \in i + 1 .. e - 1
      <4>1. k \in i .. e - 1 => k = i \/ k \in i + 1 .. e - 1
        BY <2>1
      <4>2. k = i => source[k] # "\n"
        BY <1>0, <1>25, Zenon
      <4> QED BY <4>1, <4>2, Zenon
    <3>4. k \in i + 1 .. e - 1 => k \in i .. e - 1
      BY <2>2
    <3> QED BY <3>1, <3>2, <3>3, <3>4, Zenon
  <2> QED BY <2>3, Zenon
<1>26. i <= e
  BY <1>23, <1>24 DEF Positions
<1> QED BY <1>22, <1>23, <1>24, <1>25, <1>26, Zenon DEF Over, q, e

(* A run of literals: each is read where the one before it ends.           *)
Run(i, literals) ==
  /\ literals \in Seq({Literal(j) : j \in 1 .. Len(source)}) /\ Len(literals) > 0
  /\ literals[1] = Literal(i)
  /\ \A k \in 1 .. Len(literals) - 1 :
       /\ literals[k].ok
       /\ CharAt(literals[k].end) \in Quotes
       /\ literals[k + 1] = Literal(literals[k].end)

LEMMA BothJoined ==
  ASSUME NEW S, NEW p \in Seq(S), NEW q \in Seq(S)
  PROVE  /\ p \o q \in Seq(S) /\ Len(p \o q) = Len(p) + Len(q)
         /\ \A k \in 1 .. Len(p) : (p \o q)[k] = p[k]
         /\ \A k \in 1 .. Len(q) : (p \o q)[Len(p) + k] = q[k]
OBVIOUS

LEMMA RunFurther ==
  ASSUME NEW i \in 1 .. Len(source), Literal(i).ok, CharAt(Literal(i).end) \in Quotes,
         NEW rest, Run(Literal(i).end, rest)
  PROVE  Run(i, <<Literal(i)>> \o rest)
<1> DEFINE S == {Literal(j) : j \in 1 .. Len(source)}
           first == <<Literal(i)>>
           all == first \o rest
<1>1. Literal(i) \in S
  OBVIOUS
<1>2. rest \in Seq(S) /\ Len(rest) > 0 /\ rest[1] = Literal(Literal(i).end)
      /\ \A k \in 1 .. Len(rest) - 1 :
           /\ rest[k].ok
           /\ CharAt(rest[k].end) \in Quotes
           /\ rest[k + 1] = Literal(rest[k].end)
  BY DEF Run
<1> HIDE DEF S
<1>3. first \in Seq(S) /\ Len(first) = 1 /\ first[1] = Literal(i)
  BY <1>1
<1> HIDE DEF first
<1>4. /\ all \in Seq(S) /\ Len(all) = 1 + Len(rest) /\ Len(rest) \in Nat
      /\ \A k \in 1 .. 1 : all[k] = first[k]
      /\ \A k \in 1 .. Len(rest) : all[1 + k] = rest[k]
  <2>1. rest \in Seq(S) /\ Len(rest) \in Nat
    BY <1>2
  <2>2. first \in Seq(S)
    BY <1>3
  <2>3. /\ all \in Seq(S) /\ Len(all) = Len(first) + Len(rest)
        /\ \A k \in 1 .. Len(first) : all[k] = first[k]
        /\ \A k \in 1 .. Len(rest) : all[Len(first) + k] = rest[k]
    BY <2>1, <2>2, BothJoined
  <2> HIDE DEF all
  <2> QED BY <1>3, <2>1, <2>3
<1> HIDE DEF all
<1>5. all[1] = Literal(i) /\ \A k \in 1 .. Len(rest) : all[k + 1] = rest[k]
  BY <1>3, <1>4
<1>6. ASSUME NEW k \in 1 .. Len(all) - 1
      PROVE  /\ all[k].ok
             /\ CharAt(all[k].end) \in Quotes
             /\ all[k + 1] = Literal(all[k].end)
  <2>1. CASE k = 1
    <3>1. all[2] = rest[1]
      <4>1. 1 \in 1 .. Len(rest) /\ 1 + 1 = 2
        BY <1>2, <1>4
      <4> QED BY <1>5, <4>1
    <3> QED BY <1>2, <1>5, <2>1, <3>1
  <2>2. CASE k # 1
    <3>1. /\ k - 1 \in 1 .. Len(rest) - 1 /\ k - 1 \in 1 .. Len(rest)
          /\ k \in 1 .. Len(rest) /\ (k - 1) + 1 = k
      BY <1>4, <2>2
    <3>2. all[k] = rest[k - 1] /\ all[k + 1] = rest[k]
      BY <1>5, <3>1
    <3> QED BY <1>2, <3>1, <3>2
  <2> QED BY <2>1, <2>2
<1>7. Len(all) > 0
  BY <1>4
<1>8. all \in Seq({Literal(j) : j \in 1 .. Len(source)})
  BY <1>4 DEF S
<1> HIDE DEF S
<1>9. Run(i, all)
  BY <1>5, <1>6, <1>7, <1>8, Zenon DEF Run
<1> QED BY <1>9 DEF all, first

LEMMA RunEnds ==
  ASSUME NEW i \in 1 .. Len(source)
  PROVE  Run(i, <<Literal(i)>>)
<1> DEFINE S == {Literal(j) : j \in 1 .. Len(source)}
           all == <<Literal(i)>>
<1>1. Literal(i) \in S
  OBVIOUS
<1> HIDE DEF S
<1>2. all \in Seq(S) /\ Len(all) = 1 /\ all[1] = Literal(i)
  BY <1>1
<1> HIDE DEF all
<1>3. Len(all) > 0 /\ \A k \in 1 .. Len(all) - 1 : FALSE
  BY <1>2
<1>4. Run(i, all)
  BY <1>2, <1>3, Zenon DEF Run, S
<1> QED BY <1>4 DEF all

(* The literals of one token are a run.                                    *)
LEMMA LiteralsRun ==
  ASSUME Len(source) \in Nat, NEW i \in 1 .. Len(source)
  PROVE  Run(i, Literals(i))
<1> DEFINE n == Len(source)
           D == 1 .. n
           V == Seq({Literal(j) : j \in 1 .. n})
           goes(j) == Literal(j).ok /\ CharAt(Literal(j).end) \in Quotes
           rest(j, f) == IF Literal(j).ok /\ CharAt(Literal(j).end) \in Quotes
                         THEN f[Literal(j).end] ELSE << >>
           Value(j, f) == <<Literal(j)>> \o rest(j, f)
           From(f) == [j \in 1 .. n |-> Value(j, f)]
           chosen == CHOOSE f : f = From(f)
           H == [j \in D |-> [f \in [D -> V] |-> Value(j, f)]]
           rank == [j \in D |-> n - j]
<1>1. Literals(i) = chosen[i]
  BY Zenon DEF Literals
<1>2. ASSUME NEW j \in D, goes(j)
      PROVE  Literal(j).end \in D /\ j < Literal(j).end
  <2>1. Literal(j).end = Quoted(j).end
    BY DEF Literal
  <2>2. Literal(j).end \in Positions /\ j + 1 <= Literal(j).end
    BY <2>1, QuotedOver
  <2>3. Literal(j).end <= n
    BY <1>2 DEF CharAt, Quotes
  <2> DEFINE e == Literal(j).end
  <2> HIDE DEF e
  <2>4. e \in D /\ j < e
    BY <2>2, <2>3 DEF Positions, e
  <2> QED BY <2>4 DEF e
<1>3. << >> \in V /\ \A j \in D : <<Literal(j)>> \in V
  <2> DEFINE S == {Literal(j) : j \in 1 .. n}
  <2>1. \A j \in D : Literal(j) \in S
    OBVIOUS
  <2> HIDE DEF S
  <2>2. << >> \in Seq(S) /\ \A x \in S : <<x>> \in Seq(S)
    OBVIOUS
  <2>3. V = Seq(S)
    BY DEF S
  <2> QED BY <2>1, <2>2, <2>3, Zenon
<1>4. \A v, w \in V : v \o w \in V
  <2> DEFINE S == {Literal(j) : j \in 1 .. n}
  <2> HIDE DEF S
  <2>1. \A v, w \in Seq(S) : v \o w \in Seq(S)
    OBVIOUS
  <2> QED BY <2>1, Zenon DEF S
<1> HIDE DEF V
<1>5. \A j, f : Value(j, f) = <<Literal(j)>> \o IF goes(j) THEN f[Literal(j).end] ELSE << >>
  OBVIOUS
<1> HIDE DEF goes, Value, rest
<1>6. ASSUME NEW j \in D, NEW f \in [D -> V]
      PROVE  Value(j, f) \in V
  <2>1. CASE goes(j)
    <3>1. f[Literal(j).end] \in V
      BY <1>2, <2>1, Zenon
    <3> QED BY <1>3, <1>4, <1>5, <2>1, <3>1, Zenon
  <2>2. CASE ~goes(j)
    BY <1>3, <1>4, <1>5, <2>2, Zenon
  <2> QED BY <2>1, <2>2
<1>7. ASSUME NEW j \in D, NEW f \in [D -> V], NEW g \in [D -> V],
             \A k \in D : rank[k] < rank[j] => f[k] = g[k]
      PROVE  Value(j, f) = Value(j, g)
  <2>1. CASE goes(j)
    <3>1. Literal(j).end \in D /\ j < Literal(j).end
      BY <1>2, <2>1, Zenon
    <3>2. rank[Literal(j).end] < rank[j]
      <4> DEFINE e == Literal(j).end
      <4> HIDE DEF e
      <4>1. e \in D /\ j < e
        BY <3>1 DEF e
      <4>2. rank[e] < rank[j]
        BY <4>1
      <4> QED BY <4>2 DEF e
    <3>3. f[Literal(j).end] = g[Literal(j).end]
      BY <1>7, <3>1, <3>2, Zenon
    <3> QED BY <1>5, <2>1, <3>3, Zenon
  <2>2. CASE ~goes(j)
    BY <1>5, <2>2, Zenon
  <2> QED BY <2>1, <2>2
<1>8. rank \in [D -> Nat]
  OBVIOUS
<1>9. V # {}
  BY <1>3
<1>10. \A j \in D : \A f \in [D -> V] : H[j][f] = Value(j, f)
  BY Zenon
<1>11. H \in [D -> [[D -> V] -> V]]
  BY <1>6, Zenon
<1> HIDE DEF H, rank, D
<1>12. DependsBelow(D, V, rank, H)
  <2>1. ASSUME NEW j \in D, NEW f \in [D -> V], NEW g \in [D -> V],
               \A k \in D : rank[k] < rank[j] => f[k] = g[k]
        PROVE  H[j][f] = H[j][g]
    <3>1. Value(j, f) = Value(j, g)
      BY <1>7, <2>1, Zenon
    <3> QED BY <1>10, <3>1, Zenon
  <2> QED BY <1>8, <1>11, <2>1, Zenon DEF DependsBelow
<1>13. PICK f \in [D -> V] : f = [j \in D |-> H[j][f]]
  BY <1>9, <1>12, SolutionExists
<1>14. f = From(f)
  <2>1. f = [j \in D |-> f[j]]
    BY <1>13
  <2>2. \A j \in D : f[j] = Value(j, f)
    BY <1>10, <1>13, Zenon
  <2> QED BY <2>1, <2>2, Zenon DEF D
<1> HIDE DEF From
<1>15. chosen = From(chosen)
  BY <1>14, Zenon
<1> HIDE DEF chosen
<1>16. \A j \in D : chosen[j] = Value(j, chosen)
  BY <1>15, Zenon DEF From, D
<1> DEFINE Good(j) == Run(j, chosen[j])
           bad == {j \in D : ~Good(j)}
<1>17. ASSUME NEW j \in D, \A k \in D : k > j => Good(k)
       PROVE  Good(j)
  <2>1. CASE goes(j)
    <3>1. Literal(j).end \in D /\ Literal(j).end > j
      <4>1. Literal(j).end \in D /\ j < Literal(j).end
        BY <1>2, <2>1, Zenon
      <4> DEFINE e == Literal(j).end
      <4> HIDE DEF e
      <4>2. e > j
        BY <4>1 DEF D, e
      <4> QED BY <4>1, <4>2 DEF e
    <3>2. Run(Literal(j).end, chosen[Literal(j).end])
      BY <1>17, <3>1, Zenon
    <3>3. chosen[j] = <<Literal(j)>> \o chosen[Literal(j).end]
      BY <1>5, <1>16, <2>1, Zenon
    <3>4. Literal(j).ok /\ CharAt(Literal(j).end) \in Quotes
      BY <2>1 DEF goes
    <3>5. j \in 1 .. Len(source)
      BY Zenon DEF D
    <3> QED BY <3>2, <3>3, <3>4, <3>5, RunFurther
  <2>2. CASE ~goes(j)
    <3>1. chosen[j] = <<Literal(j)>> \o << >>
      BY <1>5, <1>16, <2>2, Zenon
    <3>2. chosen[j] = <<Literal(j)>>
      BY <3>1
    <3>3. j \in 1 .. Len(source)
      BY Zenon DEF D
    <3> QED BY <3>2, <3>3, RunEnds
  <2> QED BY <2>1, <2>2
<1> HIDE DEF Good
<1>18. bad = {}
  <2> SUFFICES ASSUME bad # {} PROVE FALSE
    OBVIOUS
  <2>1. bad \subseteq 0 .. n
    BY DEF D
  <2>2. PICK j \in bad : \A k \in bad : k <= j
    <3> HIDE DEF bad
    <3>1. Max(bad) \in bad /\ \A k \in bad : k <= Max(bad)
      BY <2>1, GreatestOf
    <3> QED BY <3>1
  <2>3. \A k \in D : k > j => Good(k)
    <3> TAKE k \in D
    <3>1. j \in D /\ (k > j => ~(k <= j))
      BY <2>2 DEF D
    <3> QED BY <2>2, <3>1, Zenon
  <2> QED BY <1>17, <2>2, <2>3
<1>19. i \in D
  BY Zenon DEF D
<1> QED BY <1>1, <1>18, <1>19, Zenon DEF Good

BreaksTo(literals, k) == UNION {literals[m].breaks : m \in 1 .. k}

LEMMA BreaksOfPart ==
  ASSUME NEW S, NEW literals \in Seq(S), NEW k \in 0 .. Len(literals)
  PROVE  /\ BreaksOf(SubSeq(literals, 1, k)) = BreaksTo(literals, k)
         /\ BreaksOf(literals) = BreaksTo(literals, Len(literals))
<1>1. /\ Len(SubSeq(literals, 1, k)) = k /\ SubSeq(literals, 1, k) \in Seq(S)
      /\ \A m \in 1 .. k : SubSeq(literals, 1, k)[m] = literals[m]
  OBVIOUS
<1> DEFINE part == SubSeq(literals, 1, k)
<1> HIDE DEF part
<1>2. DOMAIN part = 1 .. k
  BY <1>1 DEF part
<1>3. BreaksOf(part) = BreaksTo(literals, k)
  <2>1. {part[m].breaks : m \in 1 .. k} = {literals[m].breaks : m \in 1 .. k}
    BY <1>1 DEF part
  <2> QED BY <1>2, <2>1, Zenon DEF BreaksOf, BreaksTo
<1>4. DOMAIN literals = 1 .. Len(literals)
  OBVIOUS
<1> QED BY <1>3, <1>4, Zenon DEF BreaksOf, BreaksTo, part

LEMMA LiteralOver ==
  ASSUME Len(source) \in Nat, ~BreakEscaped, NEW i \in Positions,
         NEW j \in 1 .. Len(source), source[j] \in Quotes, NEW early, Over(i, j, early)
  PROVE  Over(i, Literal(j).end, early \union Literal(j).breaks)
<1>1. Literal(j).end = Quoted(j).end /\ Literal(j).breaks = Quoted(j).breaks
  BY DEF Literal
<1>2. Over(j, Literal(j).end, Literal(j).breaks)
  BY <1>1, QuotedOver, Zenon
<1> QED BY <1>2, OverFurther

LEMMA RunOver ==
  ASSUME Len(source) \in Nat, ~BreakEscaped, NEW i \in 1 .. Len(source), source[i] \in Quotes,
         NEW literals, Run(i, literals), NEW k \in 1 .. Len(literals)
  PROVE  /\ literals[k].first \in 1 .. Len(source) /\ source[literals[k].first] \in Quotes
         /\ literals[k] = Literal(literals[k].first)
         /\ Over(i, literals[k].first, BreaksTo(literals, k - 1))
         /\ Over(i, literals[k].end, BreaksTo(literals, k))
<1> DEFINE n == Len(source)
           count == Len(literals)
           Good(m) == /\ literals[m].first \in 1 .. n /\ source[literals[m].first] \in Quotes
                      /\ literals[m] = Literal(literals[m].first)
                      /\ Over(i, literals[m].first, BreaksTo(literals, m - 1))
                      /\ Over(i, literals[m].end, BreaksTo(literals, m))
           bad == {m \in 1 .. count : ~Good(m)}
<1> HIDE DEF Good
<1>1. /\ literals[1] = Literal(i) /\ count \in Nat
      /\ \A m \in 1 .. count - 1 : /\ CharAt(literals[m].end) \in Quotes
                                  /\ literals[m + 1] = Literal(literals[m].end)
  <2> DEFINE S == {Literal(j) : j \in 1 .. Len(source)}
  <2>1. literals \in Seq(S)
    BY Zenon DEF Run
  <2> HIDE DEF S
  <2>2. count \in Nat
    BY <2>1
  <2> HIDE DEF count
  <2> QED BY <2>2, Zenon DEF Run, count
<1> USE DEF Good
<1>2. \A j : Literal(j).first = j
  BY DEF Literal
<1>3. ASSUME NEW m \in 1 .. count, NEW j \in 1 .. n, source[j] \in Quotes, literals[m] = Literal(j),
             Over(i, j, BreaksTo(literals, m - 1))
      PROVE  Good(m)
  <2>1. literals[m].first = j
    BY <1>2, <1>3
  <2>2. BreaksTo(literals, m) = BreaksTo(literals, m - 1) \union literals[m].breaks
    <3>1. 1 .. m = (1 .. m - 1) \union {m}
      OBVIOUS
    <3> QED BY <3>1, Zenon DEF BreaksTo
  <2>3. i \in Positions
    BY DEF Positions
  <2>4. Over(i, Literal(j).end, BreaksTo(literals, m - 1) \union Literal(j).breaks)
    BY <1>3, <2>3, LiteralOver
  <2> QED BY <1>3, <2>1, <2>2, <2>4, Zenon
<1>4. ASSUME 1 \in 1 .. count PROVE Good(1)
  <2>1. BreaksTo(literals, 1 - 1) = {}
    BY DEF BreaksTo
  <2>2. Over(i, i, {})
    BY DEF Over, Positions, Breaks
  <2> QED BY <1>1, <1>3, <1>4, <2>1, <2>2
<1>5. ASSUME NEW m \in 1 .. count - 1, Good(m) PROVE Good(m + 1)
  <2> DEFINE e == literals[m].end
  <2>1. CharAt(e) \in Quotes /\ literals[m + 1] = Literal(e) /\ Over(i, e, BreaksTo(literals, m))
    BY <1>1, <1>5
  <2> HIDE DEF e
  <2>2. e \in Positions
    BY <2>1 DEF Over
  <2>3. e \in 1 .. n /\ source[e] \in Quotes
    <3>1. CharAt(e) # "end"
      BY <2>1, Zenon DEF Quotes
    <3>2. e <= n
      BY <3>1, Zenon DEF CharAt
    <3>3. e \in 1 .. n
      BY <2>2, <3>2 DEF Positions
    <3>4. source[e] = CharAt(e)
      BY <3>2, Zenon DEF CharAt
    <3> QED BY <2>1, <3>3, <3>4, Zenon
  <2>4. (m + 1) - 1 = m /\ m + 1 \in 1 .. count
    BY <1>1
  <2> QED BY <1>3, <2>1, <2>3, <2>4
<1> HIDE DEF Good
<1>6. bad = {}
  <2> SUFFICES ASSUME bad # {} PROVE FALSE
    OBVIOUS
  <2>1. bad \subseteq Nat
    OBVIOUS
  <2>2. PICK m \in bad : \A j \in bad : m <= j
    <3> HIDE DEF bad
    <3> QED BY <2>1, LeastNumber
  <2>3. m \in 1 .. count /\ ~Good(m)
    BY <2>2
  <2>4. m # 1
    BY <1>4, <2>3
  <2>5. m - 1 \in 1 .. count - 1 /\ m - 1 \in 1 .. count /\ ~(m <= m - 1) /\ (m - 1) + 1 = m
    BY <1>1, <2>3, <2>4
  <2>6. Good(m - 1)
    BY <2>2, <2>5
  <2> QED BY <1>5, <2>3, <2>5, <2>6
<1> QED BY <1>6, Zenon DEF Good

-----------------------------------------------------------------------------
(* What a step adds *)

WordTypes == {"identifier", "keyword", "number"}

StandsAt(token, i) ==
  /\ i \in 1 .. Len(source)
  /\ i + Len(token.text) \in Positions /\ Len(token.text) \in Nat
  /\ token.line = Place(i).line /\ token.column = Place(i).column
  /\ token.text = Text(i, i + Len(token.text))

Behind(token, before) ==
  \/ token.line > before.line
  \/ token.line = before.line /\ token.column >= before.column + Len(before.text)

(* The words among these tokens stand before here, in order.               *)
WordsUpTo(read, here) ==
  /\ \A k \in DOMAIN read : read[k].type \in WordTypes =>
       \E i : StandsAt(read[k], i) /\ i + Len(read[k].text) <= here
  /\ \A k, l \in DOMAIN read :
       k < l /\ read[k].type \in WordTypes /\ read[l].type \in WordTypes =>
         Behind(read[l], read[k])

WordsInv ==
  /\ source \in Seq(ToSet(source))
  /\ ~BreakEscaped /\ PlacesFit =>
       \E here \in Positions : at = Place(here) /\ WordsUpTo(tokens, here)

(* The lexer goes on from here to a place further on, and adds a word that *)
(* stands between, or a token that is no word, or none.                    *)
Further(here) ==
  \E e \in Positions :
    /\ here <= e /\ at' = Place(e)
    /\ \/ tokens' = tokens
       \/ \E token :
            /\ tokens' = Append(tokens, token)
            /\ \/ token.type \notin WordTypes
               \/ \E i : StandsAt(token, i) /\ here <= i /\ i + Len(token.text) <= e

LEMMA HereIsPlace ==
  ASSUME PlacesFit, Len(source) \in Nat, NEW here \in Positions, at = Place(here)
  PROVE  \E i \in Positions :
           /\ Here = Place(i) /\ Here.position = i /\ here <= i
           /\ i <= Len(source) => source[i] \notin Blanks
<1> DEFINE i == EndOf(here, Blanks)
           breaks == {j \in at.position .. i - 1 : source[j] = "\n"}
<1>1. at.position = here
  BY DEF Place
<1>2. /\ i \in here .. Len(source) + 1 /\ i \in Positions
      /\ i <= Len(source) => source[i] \notin Blanks
  BY EndOfShape
<1>3. breaks = Breaks(here, i)
  BY <1>1 DEF Breaks
<1>4. Here = Moved(at, i, breaks)
  BY <1>1, Zenon DEF Here
<1> HIDE DEF i, breaks
<1>5. here \in Nat \ {0} /\ i \in Nat /\ here <= i
  BY <1>2 DEF Positions
<1>6. Here = Place(i)
  BY <1>2, <1>3, <1>4, <1>5, MovedRight
<1>7. Place(i).position = i
  BY DEF Place
<1> QED BY <1>2, <1>5, <1>6, <1>7

LEMMA OnLineMoved ==
  ASSUME PlacesFit, Len(source) \in Nat, NEW i \in Positions, NEW e, OnLine(i, e)
  PROVE  Moved(Place(i), e, {}) = Place(e)
<1>1. Breaks(i, e) = {} /\ i \in Nat \ {0} /\ e \in Positions /\ i <= e
  BY DEF OnLine, Positions
<1> QED BY <1>1, MovedRight

LEMMA WordStands ==
  ASSUME source \in Seq(ToSet(source)), NEW i \in Positions, NEW e, OnLine(i, e), i < e, NEW type
  PROVE  LET token == Token(type, Text(i, e), Place(e), e - i)
         IN /\ StandsAt(token, i) /\ i + Len(token.text) = e
            /\ token.type = type /\ Len(Text(i, e)) = e - i
<1> DEFINE token == Token(type, Text(i, e), Place(e), e - i)
<1>1. /\ token.text = Text(i, e) /\ token.type = type
      /\ token.line = Place(e).line /\ token.column = ColumnOf(Place(e).column, e - i)
  BY DEF Token
<1>2. e \in Positions /\ Breaks(i, e) = {} /\ i \in Nat \ {0} /\ e \in Nat /\ i <= e
  BY DEF OnLine, Positions
<1>3. Len(Text(i, e)) = e - i
  BY <1>2, TextShape
<1>4. token.line = Place(i).line /\ token.column = Place(i).column
  BY <1>1, <1>2, BackInLine
<1> HIDE DEF token
<1>5. i + Len(token.text) = e /\ Len(token.text) \in Nat /\ i \in 1 .. Len(source)
  BY <1>1, <1>2, <1>3 DEF Positions
<1>6. StandsAt(token, i)
  BY <1>1, <1>2, <1>4, <1>5, Zenon DEF StandsAt
<1> QED BY <1>1, <1>3, <1>5, <1>6 DEF token

LEMMA OverMoved ==
  ASSUME PlacesFit, NEW i \in Positions, NEW e, NEW breaks, Over(i, e, breaks)
  PROVE  Moved(Place(i), e, breaks) = Place(e) /\ e \in Positions /\ i <= e
<1>1. breaks = Breaks(i, e) /\ e \in Positions /\ i <= e
  BY DEF Over
<1>2. i \in Nat \ {0} /\ e \in Nat
  BY <1>1 DEF Positions
<1> QED BY <1>1, <1>2, MovedRight

LEMMA BehindBefore ==
  ASSUME NEW token, NEW i, StandsAt(token, i), NEW before, NEW j, StandsAt(before, j),
         j + Len(before.text) <= i
  PROVE  Behind(token, before)
<1> DEFINE length == Len(before.text)
<1>1. /\ i \in Nat \ {0} /\ token.line = Place(i).line /\ token.column = Place(i).column
      /\ j \in Nat \ {0} /\ before.line = Place(j).line /\ before.column = Place(j).column
      /\ length \in Nat /\ j + length <= i
  BY DEF StandsAt
<1> HIDE DEF length
<1>2. j <= i
  BY <1>1
<1>3. \/ Place(i).line > Place(j).line
      \/ Place(i).line = Place(j).line /\ Place(i).column = (Place(j).column + i) - j
  BY <1>1, <1>2, PlacesInOrder
<1>4. Place(j).column \in Nat
  <2>1. Place(j).column = j - LastBreak(j)
    BY DEF Place
  <2>2. LastBreak(j) \in 0 .. j - 1
    BY <1>1, LastBreakShape
  <2> QED BY <1>1, <2>1, <2>2
<1>5. (Place(j).column + i) - j >= Place(j).column + length
  BY <1>1, <1>4
<1> QED BY <1>1, <1>3, <1>5 DEF Behind, length

LEMMA WordsFurther ==
  ASSUME NEW read, NEW here \in Positions, WordsUpTo(read, here), NEW e \in Positions, here <= e
  PROVE  WordsUpTo(read, e)
<1>1. ASSUME NEW token, NEW i, StandsAt(token, i), i + Len(token.text) <= here
      PROVE  i + Len(token.text) <= e
  BY <1>1 DEF StandsAt, Positions
<1> QED BY <1>1, Zenon DEF WordsUpTo

LEMMA WordsAppended ==
  ASSUME NEW read, IsSequence(read), NEW here \in Positions, WordsUpTo(read, here),
         NEW e \in Positions, here <= e, NEW token,
         token.type \in WordTypes =>
           \E i : StandsAt(token, i) /\ here <= i /\ i + Len(token.text) <= e
  PROVE  WordsUpTo(Append(read, token), e)
<1> DEFINE more == Append(read, token)
           n == Len(read)
<1>1. /\ n \in Nat /\ DOMAIN read = 1 .. n
      /\ DOMAIN more = 1 .. n + 1
      /\ more[n + 1] = token
      /\ \A k \in 1 .. n : more[k] = read[k]
  <2>1. n \in Nat /\ DOMAIN read = 1 .. n
    BY DEF IsSequence
  <2>2. /\ IsSequence(more) /\ Len(more) = n + 1 /\ more[n + 1] = token
        /\ \A k \in 1 .. n : more[k] = read[k]
    BY AnyAppend
  <2> HIDE DEF more
  <2>3. DOMAIN more = 1 .. n + 1
    BY <2>2 DEF IsSequence
  <2> QED BY <2>1, <2>2, <2>3
<1> HIDE DEF more, n
<1>2. WordsUpTo(read, e)
  BY WordsFurther
<1>3. \A k \in 1 .. n + 1 : k \in 1 .. n \/ k = n + 1
  BY <1>1
<1>4. ASSUME NEW k \in DOMAIN more, more[k].type \in WordTypes
      PROVE  \E i : StandsAt(more[k], i) /\ i + Len(more[k].text) <= e
  <2>1. CASE k \in 1 .. n
    BY <1>1, <1>2, <1>4, <2>1, Zenon DEF WordsUpTo
  <2>2. CASE k = n + 1
    BY <1>1, <1>4, <2>2, Zenon
  <2> QED BY <1>1, <1>3, <2>1, <2>2, Zenon
<1>5. ASSUME NEW k \in DOMAIN more, NEW l \in DOMAIN more, k < l,
             more[k].type \in WordTypes, more[l].type \in WordTypes
      PROVE  Behind(more[l], more[k])
  <2>1. k \in 1 .. n
    BY <1>1, <1>5
  <2>2. CASE l \in 1 .. n
    BY <1>1, <1>5, <2>1, <2>2, Zenon DEF WordsUpTo
  <2>3. CASE l = n + 1
    <3>1. PICK i : StandsAt(token, i) /\ here <= i
      BY <1>1, <1>5, <2>3, Zenon
    <3>2. PICK j : StandsAt(read[k], j) /\ j + Len(read[k].text) <= here
      BY <1>1, <1>5, <2>1, Zenon DEF WordsUpTo
    <3>3. j + Len(read[k].text) <= i
      BY <3>1, <3>2 DEF StandsAt, Positions
    <3>4. Behind(token, read[k])
      BY <3>1, <3>2, <3>3, BehindBefore
    <3> QED BY <1>1, <2>1, <2>3, <3>4, Zenon
  <2> QED BY <1>1, <1>3, <2>2, <2>3, Zenon
<1>6. WordsUpTo(more, e)
  BY <1>4, <1>5, Zenon DEF WordsUpTo
<1> QED BY <1>6 DEF more

LEMMA WordsKept ==
  ASSUME IsSequence(tokens), source \in Seq(ToSet(source)), NEW here \in Positions,
         WordsUpTo(tokens, here), Further(here), source' = source
  PROVE  WordsInv'
<1>1. PICK e \in Positions :
        /\ here <= e /\ at' = Place(e)
        /\ \/ tokens' = tokens
           \/ \E token :
                /\ tokens' = Append(tokens, token)
                /\ \/ token.type \notin WordTypes
                   \/ \E i : StandsAt(token, i) /\ here <= i /\ i + Len(token.text) <= e
  BY DEF Further
<1>2. \E read : read = tokens' /\ WordsUpTo(read, e)
  <2>1. CASE tokens' = tokens
    <3>1. WordsUpTo(tokens, e)
      BY <1>1, WordsFurther
    <3> QED BY <2>1, <3>1
  <2>2. CASE tokens' # tokens
    <3>1. PICK token :
            /\ tokens' = Append(tokens, token)
            /\ \/ token.type \notin WordTypes
               \/ \E i : StandsAt(token, i) /\ here <= i /\ i + Len(token.text) <= e
      BY <1>1, <2>2, Zenon
    <3>2. WordsUpTo(Append(tokens, token), e)
      BY <1>1, <3>1, WordsAppended
    <3> QED BY <3>1, <3>2, Zenon
  <2> QED BY <2>1, <2>2
<1>3. PICK read : read = tokens' /\ WordsUpTo(read, e)
  BY <1>2
<1>4. \A i : Place(i)' = Place(i) /\ \A j : Text(i, j)' = Text(i, j)
  BY Zenon DEF Place, LastBreak, Breaks, Text
<1>5. Positions' = Positions
  BY Zenon DEF Positions
<1>6. \A token, i : StandsAt(token, i)' <=> StandsAt(token, i)
  BY <1>4, <1>5, Zenon DEF StandsAt
<1>7. WordsUpTo(read, e)'
  BY <1>3, <1>6, Zenon DEF WordsUpTo, Behind
<1>8. WordsUpTo(tokens, e)'
  BY <1>3, <1>7, Zenon DEF WordsUpTo, Behind, StandsAt, Place, LastBreak, Breaks, Text, Positions
<1>9. e \in Positions' /\ at' = Place(e)'
  BY <1>1, <1>4, <1>5, Zenon
<1>10. (source \in Seq(ToSet(source)))'
  BY Zenon DEF ToSet
<1> QED BY <1>8, <1>9, <1>10, Zenon DEF WordsInv

LEMMA QuoteInside ==
  ASSUME NEW i \in Positions, CharAt(i) \in Quotes
  PROVE  i \in 1 .. Len(source) /\ source[i] \in Quotes
<1>1. CharAt(i) # "end"
  BY Zenon DEF Quotes
<1>2. i <= Len(source)
  BY <1>1, Zenon DEF CharAt
<1>3. i \in 1 .. Len(source)
  BY <1>2 DEF Positions
<1> QED BY <1>2, <1>3, Zenon DEF CharAt

LEMMA RunShape ==
  ASSUME NEW i, NEW literals, Run(i, literals)
  PROVE  /\ Len(literals) \in Nat /\ Len(literals) > 0
         /\ DOMAIN literals = 1 .. Len(literals)
         /\ Last(literals) = literals[Len(literals)]
         /\ BreaksOf(literals) = BreaksTo(literals, Len(literals))
         /\ \A k \in 0 .. Len(literals) : BreaksOf(SubSeq(literals, 1, k)) = BreaksTo(literals, k)
<1> DEFINE S == {Literal(j) : j \in 1 .. Len(source)}
<1>1. literals \in Seq(S) /\ Len(literals) > 0
  BY Zenon DEF Run
<1> HIDE DEF S
<1>2. Len(literals) \in Nat /\ DOMAIN literals = 1 .. Len(literals)
  BY <1>1
<1>3. BreaksOf(literals) = BreaksTo(literals, Len(literals))
  <2>1. 0 \in 0 .. Len(literals)
    BY <1>2
  <2> QED BY <1>1, <2>1, BreaksOfPart
<1>4. \A k \in 0 .. Len(literals) : BreaksOf(SubSeq(literals, 1, k)) = BreaksTo(literals, k)
  BY <1>1, BreaksOfPart
<1>5. Last(literals) = literals[Len(literals)]
  BY Zenon DEF Last
<1> QED BY <1>1, <1>2, <1>3, <1>4, <1>5, Zenon

LEMMA AddsOne ==
  ASSUME NEW token, NEW valued, NEW reports, Add(token, valued, reports)
  PROVE  tokens' = tokens \/ tokens' = Append(tokens, token)
BY Zenon DEF Add

LEMMA TypeOfToken ==
  \A type, text, place, length : Token(type, text, place, length).type = type
BY DEF Token

AddsNoWord ==
  \/ tokens' = tokens
  \/ \E token : tokens' = Append(tokens, token) /\ token.type \notin WordTypes

LEMMA AddsOther ==
  ASSUME NEW type, type \notin WordTypes, NEW text, NEW place, NEW length, NEW valued, NEW reports,
         Add(Token(type, text, place, length), valued, reports)
  PROVE  AddsNoWord
<1>1. Token(type, text, place, length).type = type
  BY TypeOfToken
<1> QED BY <1>1, AddsOne DEF AddsNoWord

(* Steps that add no word. *)
LEMMA FurtherWithoutWord ==
  ASSUME NEW here \in Positions, NEW i \in Positions, here <= i, NEW e \in Positions, i <= e,
         at' = Place(e),
         AddsNoWord
  PROVE  Further(here)
<1>1. here <= e
  BY DEF Positions
<1> QED BY <1>1, Zenon DEF Further, AddsNoWord

LEMMA FurtherWithWord ==
  ASSUME source \in Seq(ToSet(source)), NEW here \in Positions, NEW i \in Positions, here <= i,
         NEW e, OnLine(i, e), i < e, at' = Place(e), NEW type, NEW length,
         length = e - i \/ length = Len(Text(i, e)), NEW valued, NEW reports,
         Add(Token(type, Text(i, e), Place(e), length), valued, reports)
  PROVE  Further(here)
<1> DEFINE token == Token(type, Text(i, e), Place(e), e - i)
<1>1. /\ StandsAt(token, i) /\ i + Len(token.text) = e
      /\ Len(Text(i, e)) = e - i
  BY WordStands
<1>2. length = e - i
  BY <1>1
<1>3. tokens' = tokens \/ tokens' = Append(tokens, token)
  BY <1>2, AddsOne
<1> HIDE DEF token
<1>4. e \in Positions /\ here <= e
  BY DEF OnLine, Positions
<1>5. i + Len(token.text) <= e
  BY <1>1, <1>4 DEF Positions
<1> QED BY <1>1, <1>3, <1>4, <1>5, Zenon DEF Further

LEMMA ReadLiteralFurther ==
  ASSUME PlacesFit, Len(source) \in Nat, ~BreakEscaped, NEW here \in Positions, at = Place(here),
         ReadLiteral
  PROVE  Further(here)
<1>1. PICK i \in Positions : Here = Place(i) /\ Here.position = i /\ here <= i
  BY HereIsPlace
<1> DEFINE literals == Literals(i)
           end == Last(literals).end
<1>2. CharAt(i) \in Quotes
  BY <1>1, Zenon DEF ReadLiteral, Reading
<1>3. at' = Moved(Place(i), end, BreaksOf(literals))
  BY <1>1, Zenon DEF ReadLiteral
<1>4. AddsNoWord
  <2>1. "string" \notin WordTypes
    BY DEF WordTypes
  <2>2. \/ tokens' = tokens
        \/ \E text, place, length, valued, reports :
             Add(Token("string", text, place, length), valued, reports)
    BY Zenon DEF ReadLiteral, Report
  <2> QED BY <2>1, <2>2, AddsOther DEF AddsNoWord
<1>5. i \in 1 .. Len(source) /\ source[i] \in Quotes
  BY <1>2, QuoteInside
<1>6. Run(i, literals)
  BY <1>5, LiteralsRun
<1> HIDE DEF literals
<1> DEFINE count == Len(literals)
<1>7. count \in Nat /\ count > 0 /\ Last(literals) = literals[count]
      /\ BreaksOf(literals) = BreaksTo(literals, count)
  BY <1>6, RunShape
<1>8. Over(i, end, BreaksTo(literals, count))
  <2>1. count \in 1 .. Len(literals)
    BY <1>7
  <2> HIDE DEF count
  <2>2. Over(i, literals[count].end, BreaksTo(literals, count))
    BY <1>5, <1>6, <2>1, RunOver
  <2> QED BY <1>7, <2>2
<1>9. at' = Place(end) /\ end \in Positions /\ i <= end
  BY <1>3, <1>7, <1>8, OverMoved
<1> QED BY <1>1, <1>4, <1>9, FurtherWithoutWord

LEMMA LoseLiteralFurther ==
  ASSUME PlacesFit, Len(source) \in Nat, ~BreakEscaped, NEW here \in Positions, at = Place(here),
         LoseLiteral
  PROVE  Further(here)
<1>1. PICK i \in Positions : Here = Place(i) /\ Here.position = i /\ here <= i
  BY HereIsPlace
<1> DEFINE literals == Literals(i)
           before(k) == SubSeq(literals, 1, k)
           moved(k, end) == Moved(Place(i), end, BreaksOf(before(k)))
<1>2. CharAt(i) \in Quotes
  BY <1>1, Zenon DEF LoseLiteral, Reading
<1>3. tokens' = tokens
  BY Zenon DEF LoseLiteral, Report
<1>4. \/ at' = Place(i)
      \/ \E k \in DOMAIN literals : at' = moved(k - 1, literals[k].first + 1)
      \/ \E k \in DOMAIN literals : at' = moved(k, literals[k].end)
  BY <1>1, Zenon DEF LoseLiteral
<1>5. i \in 1 .. Len(source) /\ source[i] \in Quotes
  BY <1>2, QuoteInside
<1>6. Run(i, literals)
  BY <1>5, LiteralsRun
<1> HIDE DEF literals
<1>7. /\ Len(literals) \in Nat /\ DOMAIN literals = 1 .. Len(literals)
      /\ \A k \in 0 .. Len(literals) : BreaksOf(before(k)) = BreaksTo(literals, k)
  BY <1>6, RunShape
<1>8. ASSUME NEW k \in DOMAIN literals
      PROVE  /\ Over(i, literals[k].first + 1, BreaksTo(literals, k - 1))
             /\ Over(i, literals[k].end, BreaksTo(literals, k))
             /\ k \in 0 .. Len(literals) /\ k - 1 \in 0 .. Len(literals)
  <2>1. k \in 1 .. Len(literals)
    BY <1>7
  <2>2. /\ literals[k].first \in 1 .. Len(source) /\ source[literals[k].first] \in Quotes
        /\ Over(i, literals[k].first, BreaksTo(literals, k - 1))
        /\ Over(i, literals[k].end, BreaksTo(literals, k))
    BY <1>5, <1>6, <2>1, RunOver
  <2> DEFINE first == literals[k].first
             breaks == BreaksTo(literals, k - 1)
  <2>3. first \in 1 .. Len(source) /\ source[first] \in Quotes /\ Over(i, first, breaks)
    BY <2>2
  <2> HIDE DEF first, breaks
  <2>4. Over(first, first + 1, {})
    <3>1. Breaks(first, first + 1) = {}
      <4>1. source[first] # "\n"
        BY <2>3, Zenon DEF Quotes
      <4>2. \A j \in first .. (first + 1) - 1 : j = first
        BY <2>3
      <4> QED BY <4>1, <4>2, Zenon DEF Breaks
    <3> QED BY <2>3, <3>1 DEF Over, Positions
  <2>5. Over(i, first + 1, breaks \union {})
    BY <2>3, <2>4, OverFurther
  <2>6. breaks \union {} = breaks
    OBVIOUS
  <2>7. k \in 0 .. Len(literals) /\ k - 1 \in 0 .. Len(literals)
    BY <1>7
  <2> QED BY <2>2, <2>5, <2>6, <2>7 DEF first, breaks
<1>9. \E e \in Positions : at' = Place(e) /\ i <= e
  <2>1. CASE at' = Place(i)
    BY <2>1 DEF Positions
  <2>2. ASSUME NEW k \in DOMAIN literals, at' = moved(k - 1, literals[k].first + 1)
        PROVE  \E e \in Positions : at' = Place(e) /\ i <= e
    <3>1. at' = Moved(Place(i), literals[k].first + 1, BreaksTo(literals, k - 1))
      BY <1>7, <1>8, <2>2
    <3> QED BY <1>8, <3>1, OverMoved
  <2>3. ASSUME NEW k \in DOMAIN literals, at' = moved(k, literals[k].end)
        PROVE  \E e \in Positions : at' = Place(e) /\ i <= e
    <3>1. at' = Moved(Place(i), literals[k].end, BreaksTo(literals, k))
      BY <1>7, <1>8, <2>3
    <3> QED BY <1>8, <3>1, OverMoved
  <2> QED BY <1>4, <2>1, <2>2, <2>3
<1> QED BY <1>1, <1>3, <1>9, FurtherWithoutWord DEF AddsNoWord

LEMMA ReadOperatorFurther ==
  ASSUME PlacesFit, source \in Seq(ToSet(source)), NEW here \in Positions, at = Place(here),
         ReadOperator
  PROVE  Further(here)
<1>1. Len(source) \in Nat
  OBVIOUS
<1>2. PICK i \in Positions : Here = Place(i) /\ Here.position = i /\ here <= i
  BY <1>1, HereIsPlace
<1> DEFINE n == LongestOperator(i)
<1>3. n > 0 /\ at' = Moved(Place(i), i + n, {})
  BY <1>2, Zenon DEF ReadOperator
<1>4. AddsNoWord
  <2>1. "operator" \notin WordTypes
    BY DEF WordTypes
  <2>2. \E text, place, length, valued, reports :
          Add(Token("operator", text, place, length), valued, reports)
    BY Zenon DEF ReadOperator
  <2> QED BY <2>1, <2>2, AddsOther
<1>5. OnLine(i, i + n)
  BY <1>3, OperatorOnLine
<1> HIDE DEF n
<1>6. at' = Place(i + n) /\ i + n \in Positions /\ i <= i + n
  BY <1>1, <1>3, <1>5, OnLineMoved DEF OnLine
<1> QED BY <1>2, <1>4, <1>6, FurtherWithoutWord

LEMMA ReadWordFurther ==
  ASSUME PlacesFit, source \in Seq(ToSet(source)), NEW here \in Positions, at = Place(here),
         ReadWord
  PROVE  Further(here)
<1>1. Len(source) \in Nat
  OBVIOUS
<1>2. PICK i \in Positions : Here = Place(i) /\ Here.position = i /\ here <= i
  BY <1>1, HereIsPlace
<1> DEFINE e == EndOf(i, WordChars)
           word == Text(i, e)
<1>3. CharAt(i) \in WordStart
  BY <1>2, Zenon DEF ReadWord, Reading
<1>4. /\ Add(Token(WordType(word), word, Moved(Place(i), e, {}), Len(word)), TRUE, {})
      /\ at' = Moved(Place(i), e, {})
  BY <1>2, Zenon DEF ReadWord
<1>5. "\n" \notin WordChars /\ "end" \notin WordStart
  <2>1. "\n" \notin Letters /\ "end" \notin Letters
    BY LettersAssumption, Zenon DEF Blanks
  <2>2. "\n" \notin Digits /\ "\n" # "_" /\ "end" # "_"
    BY DEF Digits
  <2> QED BY <2>1, <2>2, Zenon DEF WordChars, WordStart
<1>6. OnLine(i, e)
  BY <1>1, <1>5, OnLineEndOf
<1>7. i < e
  <2>1. e \in i .. Len(source) + 1 /\ (e <= Len(source) => source[e] \notin WordChars)
    BY <1>1, EndOfShape
  <2>2. i <= Len(source) /\ source[i] \in WordChars
    BY <1>3, <1>5, Zenon DEF CharAt, WordChars
  <2>3. i # e
    BY <2>1, <2>2, Zenon
  <2> HIDE DEF e
  <2> QED BY <1>1, <2>1, <2>3 DEF Positions
<1> HIDE DEF e
<1>8. Moved(Place(i), e, {}) = Place(e)
  BY <1>1, <1>6, OnLineMoved
<1> DEFINE type == WordType(word)
<1>9. Add(Token(type, Text(i, e), Place(e), Len(Text(i, e))), TRUE, {}) /\ at' = Place(e)
  BY <1>4, <1>8
<1> HIDE DEF type
<1> QED BY <1>2, <1>6, <1>7, <1>9, FurtherWithWord

LEMMA ReadNumberFurther ==
  ASSUME PlacesFit, source \in Seq(ToSet(source)), NEW here \in Positions, at = Place(here),
         ReadNumber
  PROVE  Further(here)
<1>1. Len(source) \in Nat
  OBVIOUS
<1>2. PICK i \in Positions : Here = Place(i) /\ Here.position = i /\ here <= i
  BY <1>1, HereIsPlace
<1> DEFINE e == Number(i).end
           after == Moved(Place(i), e, {})
<1>3. CharAt(i) \in Digits
  BY <1>2, Zenon DEF ReadNumber, Reading
<1>4. \/ /\ Number(i).ok
         /\ Add(Token("number", Text(i, e), after, e - i), TRUE, {})
         /\ at' = after
      \/ /\ Number(i).ok
         /\ Add(Token("error", << >>, after, e - i), FALSE, {})
         /\ at' = after
      \/ /\ Add(Token("error", << >>, Place(i), e - i), FALSE, {"number"})
         /\ at' = Place(i)
  BY <1>2, Zenon DEF ReadNumber
<1>5. "error" \notin WordTypes
  BY DEF WordTypes
<1>6. ASSUME Number(i).ok
      PROVE  OnLine(i, e) /\ i < e /\ after = Place(e)
  <2>1. OnLine(i, e) /\ i < e
    BY <1>1, <1>3, <1>6, NumberOnLine
  <2> QED BY <1>1, <2>1, OnLineMoved
<1> HIDE DEF e, after
<1>7. CASE /\ Number(i).ok
           /\ Add(Token("number", Text(i, e), after, e - i), TRUE, {})
           /\ at' = after
  <2>1. OnLine(i, e) /\ i < e /\ at' = Place(e)
    BY <1>6, <1>7
  <2>2. Add(Token("number", Text(i, e), Place(e), e - i), TRUE, {})
    BY <1>6, <1>7
  <2> QED BY <1>2, <2>1, <2>2, FurtherWithWord
<1>8. CASE /\ Number(i).ok
           /\ Add(Token("error", << >>, after, e - i), FALSE, {})
           /\ at' = after
  <2>1. AddsNoWord
    BY <1>5, <1>8, AddsOther
  <2>2. e \in Positions /\ i <= e /\ at' = Place(e)
    BY <1>6, <1>8 DEF OnLine
  <2> QED BY <1>2, <2>1, <2>2, FurtherWithoutWord
<1>9. CASE /\ Add(Token("error", << >>, Place(i), e - i), FALSE, {"number"})
           /\ at' = Place(i)
  <2>1. AddsNoWord
    BY <1>5, <1>9, AddsOther
  <2>2. i <= i
    BY DEF Positions
  <2> QED BY <1>2, <1>9, <2>1, <2>2, FurtherWithoutWord
<1> QED BY <1>4, <1>7, <1>8, <1>9

LEMMA SkipUnknownFurther ==
  ASSUME PlacesFit, source \in Seq(ToSet(source)), NEW here \in Positions, at = Place(here),
         SkipUnknown
  PROVE  Further(here)
<1>1. Len(source) \in Nat
  OBVIOUS
<1>2. PICK i \in Positions : Here = Place(i) /\ Here.position = i /\ here <= i
                             /\ (i <= Len(source) => source[i] \notin Blanks)
  BY <1>1, HereIsPlace
<1>3. CharAt(i) # "end" /\ at' = Moved(Place(i), i + 1, {}) /\ tokens' = tokens
  BY <1>2, Zenon DEF SkipUnknown, Report
<1>4. CharAt(i) # "\n"
  BY <1>2, <1>3, Zenon DEF CharAt, Blanks
<1>5. OnLine(i, i + 1)
  BY <1>1, <1>3, <1>4, OnLineCharacter
<1>6. at' = Place(i + 1) /\ i + 1 \in Positions /\ i <= i + 1
  BY <1>1, <1>3, <1>5, OnLineMoved DEF OnLine
<1> QED BY <1>2, <1>3, <1>6, FurtherWithoutWord DEF AddsNoWord

LEMMA FinishFurther ==
  ASSUME PlacesFit, Len(source) \in Nat, NEW here \in Positions, at = Place(here), Finish
  PROVE  Further(here)
<1>1. PICK i \in Positions : Here = Place(i) /\ here <= i
  BY HereIsPlace
<1>2. at' = Place(i)
  BY <1>1, Zenon DEF Finish
<1>3. AddsNoWord
  <2>1. "EOF" \notin WordTypes
    BY DEF WordTypes
  <2>2. \E text, place, length, valued, reports :
          Add(Token("EOF", text, place, length), valued, reports)
    BY Zenon DEF Finish
  <2> QED BY <2>1, <2>2, AddsOther
<1>4. i <= i
  BY DEF Positions
<1> QED BY <1>1, <1>2, <1>3, <1>4, FurtherWithoutWord

LEMMA WordsPreserved ==
  ASSUME LexerInv, WordsInv, [Next]_vars
  PROVE  WordsInv'
<1>1. source \in Seq(ToSet(source)) /\ IsSequence(tokens) /\ Len(source) \in Nat
  BY DEF WordsInv, LexerInv
<1>2. source' = source
  BY Zenon DEF Next, Step, Ended, vars, ReadLiteral, LoseLiteral, Overflow, ReadOperator, ReadWord,
               ReadNumber, SkipUnknown, Finish
<1>3. CASE ~(~BreakEscaped /\ PlacesFit)
  <2>1. ~(~BreakEscaped /\ PlacesFit)'
    BY <1>2, <1>3, Zenon DEF BreakEscaped, PlacesFit, LineAt, ColumnAt, BreaksBefore
  <2>2. (source \in Seq(ToSet(source)))'
    BY <1>1, <1>2, Zenon DEF ToSet
  <2> QED BY <2>1, <2>2, Zenon DEF WordsInv
<1>4. CASE ~BreakEscaped /\ PlacesFit
  <2>1. PICK here \in Positions : at = Place(here) /\ WordsUpTo(tokens, here)
    BY <1>4, Zenon DEF WordsInv
  <2> SUFFICES Further(here)
    BY <1>1, <1>2, <2>1, WordsKept
  <2>2. ASSUME at' = at, tokens' = tokens
        PROVE  Further(here)
    <3>1. here <= here
      BY DEF Positions
    <3> QED BY <2>1, <2>2, <3>1, FurtherWithoutWord DEF AddsNoWord
  <2>3. CASE Overflow \/ Ended \/ UNCHANGED vars
    BY <2>2, <2>3, Zenon DEF Overflow, Ended, vars
  <2>4. CASE ReadLiteral \/ LoseLiteral
    BY <1>1, <1>4, <2>1, <2>4, ReadLiteralFurther, LoseLiteralFurther
  <2>5. CASE ReadOperator \/ ReadWord \/ ReadNumber
    BY <1>1, <1>4, <2>1, <2>5, ReadOperatorFurther, ReadWordFurther, ReadNumberFurther
  <2>6. CASE SkipUnknown \/ Finish
    BY <1>1, <1>4, <2>1, <2>6, SkipUnknownFurther, FinishFurther
  <2> QED BY <2>3, <2>4, <2>5, <2>6, Zenon DEF Next, Step
<1> QED BY <1>3, <1>4

LEMMA WordsInit ==
  ASSUME Init
  PROVE  WordsInv
<1>1. source \in Seq(ToSet(source))
  BY SourcesAssumption DEF Init
<1>2. at = Place(1)
  <2>1. Breaks(1, 1) = {}
    BY DEF Breaks
  <2>2. LastBreak(1) = 0
    <3>1. LastBreak(1) \in 0 .. 1 - 1
      BY LastBreakShape
    <3> QED BY <3>1
  <2>3. Cardinality(Breaks(1, 1)) = 0
    BY <2>1, FS_EmptySet
  <2> QED BY <2>2, <2>3 DEF Init, Place
<1>3. WordsUpTo(tokens, 1)
  <2>1. DOMAIN tokens = {}
    BY DEF Init
  <2> QED BY <2>1, Zenon DEF WordsUpTo
<1>4. 1 \in Positions
  <2>1. Len(source) \in Nat
    BY <1>1
  <2> QED BY <2>1 DEF Positions
<1> QED BY <1>1, <1>2, <1>3, <1>4, Zenon DEF WordsInv

(* A text of the source is a prefix of what follows its beginning.         *)
LEMMA TextPrefix ==
  ASSUME source \in Seq(ToSet(source)), NEW i \in Positions, NEW e \in Positions, i <= e
  PROVE  IsPrefix(Text(i, e), Text(i, Len(source) + 1))
<1> DEFINE n == Len(source)
           s == Text(i, e)
           t == Text(i, n + 1)
           S == ToSet(source)
<1>1. n \in Nat /\ n + 1 \in Positions /\ i <= n + 1 /\ e - i \in Nat /\ e - i <= (n + 1) - i
  BY DEF Positions
<1>2. s \in Seq(S) /\ Len(s) = e - i /\ \A k \in 1 .. e - i : s[k] = source[i + k - 1]
  BY TextShape
<1>3. t \in Seq(S) /\ Len(t) = (n + 1) - i /\ \A k \in 1 .. (n + 1) - i : t[k] = source[i + k - 1]
  BY <1>1, TextShape
<1> HIDE DEF s, t, S
<1>4. Len(s) \in Nat /\ Len(s) <= Len(t) /\ \A k \in 1 .. Len(s) : s[k] = t[k]
  BY <1>1, <1>2, <1>3 DEF Positions
<1>5. SubSeq(s, 1, Len(s)) = SubSeq(t, 1, Len(s))
  <2>1. SubSeq(s, 1, Len(s)) = s
    BY <1>2
  <2>2. SubSeq(t, 1, Len(s)) = s
    BY <1>2, <1>3, <1>4
  <2> QED BY <2>1, <2>2
<1>6. IsPrefix(s, t)
  BY <1>4, <1>5 DEF IsPrefix
<1> QED BY <1>6 DEF s, t

LEMMA WordsOrdered ==
  ASSUME WordsInv
  PROVE  WordsWhereTheyStand
<1> DEFINE stands(token, i) ==
             /\ token.line = LineAt(i) /\ token.column = ColumnAt(i)
             /\ IsPrefix(token.text, Text(i, Len(source) + 1))
           behind(token, before) ==
             \/ token.line > before.line
             \/ token.line = before.line /\ token.column >= before.column + Len(before.text)
           words == {k \in DOMAIN tokens : tokens[k].type \in {"identifier", "keyword", "number"}}
<1> SUFFICES ASSUME ~BreakEscaped, PlacesFit
             PROVE  /\ \A k \in words : \E i \in DOMAIN source : stands(tokens[k], i)
                    /\ \A k, l \in words : k < l => behind(tokens[l], tokens[k])
  BY Zenon DEF WordsWhereTheyStand
<1>1. PICK here \in Positions : WordsUpTo(tokens, here)
  BY Zenon DEF WordsInv
<1>2. \A k : k \in words <=> k \in DOMAIN tokens /\ tokens[k].type \in WordTypes
  BY Zenon DEF WordTypes
<1>3. source \in Seq(ToSet(source))
  BY Zenon DEF WordsInv
<1>4. ASSUME NEW token, NEW i, StandsAt(token, i)
      PROVE  i \in DOMAIN source /\ stands(token, i)
  <2>1. Place(i).line = LineAt(i) /\ Place(i).column = ColumnAt(i)
    BY DEF Place, LineAt, ColumnAt, LastBreak, Breaks, BreaksBefore
  <2> DEFINE e == i + Len(token.text)
  <2>2. /\ i \in 1 .. Len(source) /\ e \in Positions /\ i <= e /\ token.text = Text(i, e)
        /\ token.line = Place(i).line /\ token.column = Place(i).column
    <3>1. /\ i \in 1 .. Len(source) /\ e \in Positions /\ Len(token.text) \in Nat
          /\ token.text = Text(i, e)
          /\ token.line = Place(i).line /\ token.column = Place(i).column
      BY <1>4, Zenon DEF StandsAt
    <3>2. i <= e
      BY <3>1
    <3> QED BY <3>1, <3>2, Zenon
  <2> HIDE DEF e
  <2>3. i \in Positions /\ i \in DOMAIN source
    BY <1>3, <2>2 DEF Positions
  <2>4. IsPrefix(token.text, Text(i, Len(source) + 1))
    BY <1>3, <2>2, <2>3, TextPrefix
  <2> QED BY <2>1, <2>2, <2>3, <2>4, Zenon
<1> HIDE DEF stands, words
<1>5. \A k \in words : \E i \in DOMAIN source : stands(tokens[k], i)
  BY <1>1, <1>2, <1>4, Zenon DEF WordsUpTo
<1>6. \A k, l \in words : k < l => behind(tokens[l], tokens[k])
  BY <1>1, <1>2, Zenon DEF WordsUpTo, Behind
<1> QED BY <1>5, <1>6, Zenon

(* A word or a number has the line and the column of its text in the       *)
(* source, whatever was read before it and however it was read: errors     *)
(* point where they should (Moved behind every reading, ColumnOf).  This   *)
(* is of the sources whose lines and columns fit in PlaceWidth, in which   *)
(* no line break stands behind a backslash.                                *)
THEOREM WordsStand == Spec => []WordsWhereTheyStand
<1>1. Init => LexerInv /\ WordsInv
  BY LexerInit, WordsInit
<1>2. LexerInv /\ WordsInv /\ [Next]_vars => (LexerInv /\ WordsInv)'
  BY LexerPreserved, WordsPreserved
<1>3. WordsInv => WordsWhereTheyStand
  BY WordsOrdered
<1> QED BY <1>1, <1>2, <1>3, PTL DEF Spec

-----------------------------------------------------------------------------
(* How the source is cut *)

(* The texts of these tokens, which begin at these places, and blanks make *)
(* up the source before here.                                              *)
CutTo(read, first, here) ==
  /\ first \in [DOMAIN read -> 1 .. here]
  /\ \A k \in DOMAIN read : /\ first[k] + Len(read[k].text) <= here
                            /\ read[k].text = Text(first[k], first[k] + Len(read[k].text))
                            /\ Len(read[k].text) \in Nat
  /\ \A k, l \in DOMAIN read : k < l => first[k] + Len(read[k].text) <= first[l]
  /\ \A i \in 1 .. here - 1 :
       source[i] \in Blanks
         \/ \E k \in DOMAIN read : i \in first[k] .. (first[k] + Len(read[k].text)) - 1

CutInv ==
  /\ source \in Seq(ToSet(source)) /\ "end" \notin ToSet(source)
  /\ errors = {} /\ ~memory_may_fail =>
       /\ at.position \in Positions
       /\ \E first : CutTo(tokens, first, at.position)
       /\ done => at.position > Len(source)

(* A token is added with the text from i to e, before which are blanks.    *)
CutsOff(here, i, e) ==
  /\ here <= i /\ i <= e /\ at'.position = e
  /\ \A j \in here .. i - 1 : source[j] \in Blanks
  /\ \E token : tokens' = Append(tokens, token) /\ token.text = Text(i, e)

Cuts(here) == \E i, e \in Positions : CutsOff(here, i, e)

LEMMA AddCuts ==
  ASSUME NEW token, NEW valued, NEW reports, Add(token, valued, reports),
         errors' = {}, ~memory_may_fail
  PROVE  tokens' = Append(tokens, token)
BY Zenon DEF Add

LEMMA CutAppended ==
  ASSUME source \in Seq(ToSet(source)), NEW read, IsSequence(read), NEW here \in Positions,
         NEW first, CutTo(read, first, here), NEW i \in Positions, NEW e \in Positions,
         here <= i, i <= e, \A j \in here .. i - 1 : source[j] \in Blanks,
         NEW token, token.text = Text(i, e)
  PROVE  \E places : CutTo(Append(read, token), places, e)
<1> DEFINE n == Len(read)
           more == Append(read, token)
           places == [k \in 1 .. n + 1 |-> IF k = n + 1 THEN i ELSE first[k]]
           length(k) == Len(read[k].text)
<1>1. /\ n \in Nat /\ DOMAIN read = 1 .. n
      /\ DOMAIN more = 1 .. n + 1 /\ more[n + 1] = token
      /\ \A k \in 1 .. n : more[k] = read[k]
  <2>1. n \in Nat /\ DOMAIN read = 1 .. n
    BY DEF IsSequence
  <2>2. /\ IsSequence(more) /\ Len(more) = n + 1 /\ more[n + 1] = token
        /\ \A k \in 1 .. n : more[k] = read[k]
    BY AnyAppend
  <2> HIDE DEF more
  <2>3. DOMAIN more = 1 .. n + 1
    BY <2>2 DEF IsSequence
  <2> QED BY <2>1, <2>2, <2>3
<1> HIDE DEF more, n
<1>2. Len(token.text) = e - i /\ e - i \in Nat /\ i + (e - i) = e
  <2>1. Len(Text(i, e)) = e - i
    BY TextShape
  <2> QED BY <2>1 DEF Positions
<1>3. \A k \in 1 .. n + 1 : k = n + 1 \/ (k \in 1 .. n /\ k # n + 1)
  BY <1>1
<1>4. n + 1 \in 1 .. n + 1
  BY <1>1
<1>5. ASSUME NEW k \in 1 .. n
      PROVE  /\ k \in 1 .. n + 1 /\ places[k] = first[k] /\ more[k] = read[k]
             /\ first[k] \in 1 .. here /\ length(k) \in Nat /\ first[k] + length(k) <= here
             /\ read[k].text = Text(first[k], first[k] + length(k))
  <2>1. k \in 1 .. n + 1 /\ k # n + 1
    BY <1>1
  <2>2. places[k] = first[k]
    BY <2>1
  <2> QED BY <1>1, <2>1, <2>2, Zenon DEF CutTo
<1>6. places[n + 1] = i
  BY <1>4
<1>7. here \in Nat /\ e \in Nat /\ i \in Nat \ {0} /\ here <= e
  BY DEF Positions
<1>8. places \in [DOMAIN more -> 1 .. e]
  <2>1. \A k \in 1 .. n : first[k] \in 1 .. e
    <3> TAKE k \in 1 .. n
    <3>1. first[k] \in 1 .. here
      BY <1>5
    <3> QED BY <1>7, <3>1
  <2>2. i \in 1 .. e
    BY <1>7
  <2>3. \A k \in 1 .. n + 1 : (IF k = n + 1 THEN i ELSE first[k]) \in 1 .. e
    BY <1>3, <2>1, <2>2, Zenon
  <2> QED BY <1>1, <2>3, Zenon
<1> HIDE DEF places
<1>9. ASSUME NEW k \in DOMAIN more
      PROVE  /\ places[k] + Len(more[k].text) <= e
             /\ more[k].text = Text(places[k], places[k] + Len(more[k].text))
             /\ Len(more[k].text) \in Nat
  <2>1. CASE k = n + 1
    BY <1>1, <1>2, <1>6, <1>7, <2>1
  <2>2. CASE k \in 1 .. n
    <3>1. /\ places[k] = first[k] /\ more[k] = read[k]
          /\ first[k] \in 1 .. here /\ length(k) \in Nat /\ first[k] + length(k) <= here
          /\ read[k].text = Text(first[k], first[k] + length(k))
      BY <1>5, <2>2
    <3>2. first[k] + length(k) <= e
      BY <1>7, <3>1
    <3> QED BY <3>1, <3>2
  <2> QED BY <1>1, <1>3, <2>1, <2>2
<1>10. ASSUME NEW k \in DOMAIN more, NEW l \in DOMAIN more, k < l
       PROVE  places[k] + Len(more[k].text) <= places[l]
  <2>1. k \in 1 .. n
    BY <1>1, <1>10
  <2>2. /\ places[k] = first[k] /\ more[k] = read[k]
        /\ first[k] \in 1 .. here /\ length(k) \in Nat /\ first[k] + length(k) <= here
    BY <1>5, <2>1
  <2>3. CASE l = n + 1
    BY <1>6, <1>7, <2>2, <2>3
  <2>4. CASE l \in 1 .. n
    <3>1. first[k] + length(k) <= first[l] /\ places[l] = first[l]
      BY <1>1, <1>5, <1>10, <2>1, <2>4, Zenon DEF CutTo
    <3> QED BY <2>2, <3>1
  <2> QED BY <1>1, <1>3, <2>3, <2>4
<1>11. ASSUME NEW j \in 1 .. e - 1, source[j] \notin Blanks
       PROVE  \E k \in DOMAIN more : j \in places[k] .. (places[k] + Len(more[k].text)) - 1
  <2>1. j \in 1 .. here - 1 \/ j \in here .. i - 1 \/ j \in i .. e - 1
    BY <1>7
  <2>2. CASE j \in 1 .. here - 1
    <3>1. PICK k \in DOMAIN read : j \in first[k] .. (first[k] + Len(read[k].text)) - 1
      BY <1>11, <2>2, Zenon DEF CutTo
    <3> QED BY <1>1, <1>5, <3>1, Zenon
  <2>3. CASE j \in i .. e - 1
    BY <1>1, <1>2, <1>4, <1>6, <2>3
  <2> QED BY <1>11, <2>1, <2>2, <2>3, Zenon
<1>12. CutTo(more, places, e)
  BY <1>8, <1>9, <1>10, <1>11, Zenon DEF CutTo
<1> QED BY <1>12 DEF more

(* Between where a step begins and the character it looks at are blanks.   *)
LEMMA HereBehindBlanks ==
  ASSUME Len(source) \in Nat, at.position \in Positions
  PROVE  /\ Here.position \in Positions /\ at.position <= Here.position
         /\ \A j \in at.position .. Here.position - 1 : source[j] \in Blanks
<1>1. Here.position = EndOf(at.position, Blanks)
  BY DEF Here, Moved
<1>2. /\ EndOf(at.position, Blanks) \in at.position .. Len(source) + 1
      /\ EndOf(at.position, Blanks) \in Positions
      /\ \A j \in at.position .. EndOf(at.position, Blanks) - 1 : source[j] \in Blanks
  BY EndOfShape
<1>3. at.position <= EndOf(at.position, Blanks)
  BY <1>2 DEF Positions
<1> QED BY <1>1, <1>2, <1>3

LEMMA MovedPosition == \A here, e, breaks : Moved(here, e, breaks).position = e
BY DEF Moved

LEMMA TextOfToken ==
  \A type, text, place, length : Token(type, text, place, length).text = text
BY DEF Token

(* A run of literals goes on to the right.                                 *)
LEMMA RunRight ==
  ASSUME Len(source) \in Nat, NEW i \in 1 .. Len(source), NEW literals, Run(i, literals)
  PROVE  Last(literals).end \in Positions /\ i <= Last(literals).end
<1> DEFINE n == Len(source)
           count == Len(literals)
           Good(m) == \E j \in i .. n : literals[m] = Literal(j)
           bad == {m \in 1 .. count : ~Good(m)}
<1> HIDE DEF Good
<1>1. /\ literals[1] = Literal(i) /\ count \in Nat
      /\ \A m \in 1 .. count - 1 : /\ CharAt(literals[m].end) \in Quotes
                                  /\ literals[m + 1] = Literal(literals[m].end)
  <2>1. count \in Nat
    BY RunShape
  <2> HIDE DEF count
  <2> QED BY <2>1, Zenon DEF Run, count
<1>2. ASSUME NEW j \in i .. n
      PROVE  Literal(j).end \in Positions /\ j + 1 <= Literal(j).end
  <2>1. Literal(j).end = Quoted(j).end
    BY DEF Literal
  <2>2. j \in 1 .. n
    OBVIOUS
  <2> QED BY <2>1, <2>2, QuotedOver
<1>3. Good(1)
  <2>1. i \in i .. n
    OBVIOUS
  <2> QED BY <1>1, <2>1, Zenon DEF Good
<1>4. ASSUME NEW m \in 1 .. count - 1, Good(m) PROVE Good(m + 1)
  <2>1. PICK j \in i .. n : literals[m] = Literal(j)
    BY <1>4, Zenon DEF Good
  <2> DEFINE e == literals[m].end
  <2>2. CharAt(e) \in Quotes /\ literals[m + 1] = Literal(e) /\ e \in Positions /\ j + 1 <= e
    BY <1>1, <1>2, <2>1
  <2> HIDE DEF e
  <2>3. e \in 1 .. n
    BY <2>2, QuoteInside
  <2>4. e \in i .. n
    BY <2>2, <2>3
  <2> QED BY <2>2, <2>4, Zenon DEF Good
<1>5. bad = {}
  <2> SUFFICES ASSUME bad # {} PROVE FALSE
    OBVIOUS
  <2>1. bad \subseteq Nat
    OBVIOUS
  <2>2. PICK m \in bad : \A j \in bad : m <= j
    <3> HIDE DEF bad
    <3> QED BY <2>1, LeastNumber
  <2>3. m \in 1 .. count /\ ~Good(m)
    BY <2>2
  <2>4. m # 1
    BY <1>3, <2>3
  <2>5. m - 1 \in 1 .. count - 1 /\ m - 1 \in 1 .. count /\ ~(m <= m - 1) /\ (m - 1) + 1 = m
    BY <1>1, <2>3, <2>4
  <2>6. Good(m - 1)
    BY <2>2, <2>5
  <2> QED BY <1>4, <2>3, <2>5, <2>6
<1>6. Last(literals) = literals[count] /\ count \in 1 .. count
  BY <1>1, RunShape
<1>7. PICK j \in i .. n : literals[count] = Literal(j)
  BY <1>5, <1>6, Zenon DEF Good
<1>8. Last(literals).end \in Positions /\ j + 1 <= Last(literals).end
  BY <1>2, <1>6, <1>7
<1> QED BY <1>8 DEF Positions

(* A literal that is no token is reported. *)
LEMMA FailedReported ==
  ASSUME NEW i \in 1 .. Len(source), NEW literals, Run(i, literals), ~Last(literals).ok
  PROVE  ReportsOf(literals) # {}
<1> DEFINE count == Len(literals)
           S == {Literal(j) : j \in 1 .. Len(source)}
<1>1. /\ count \in 1 .. count /\ DOMAIN literals = 1 .. count
      /\ Last(literals) = literals[count] /\ literals \in Seq(S)
  <2>1. literals \in Seq(S)
    BY Zenon DEF Run
  <2>2. count \in Nat /\ count > 0 /\ DOMAIN literals = 1 .. count
        /\ Last(literals) = literals[count]
    BY RunShape
  <2> HIDE DEF count
  <2>3. count \in 1 .. count
    BY <2>2
  <2> QED BY <2>1, <2>2, <2>3, Zenon
<1>2. literals[count] \in S
  <2> HIDE DEF S
  <2> QED BY <1>1
<1>3. PICK j \in 1 .. Len(source) : literals[count] = Literal(j)
  BY <1>2
<1>4. Literal(j).ok \/ Literal(j).reports # {}
  BY DEF Literal
<1>5. literals[count].reports # {}
  BY <1>1, <1>3, <1>4
<1> QED BY <1>1, <1>5, Zenon DEF ReportsOf

LEMMA StepCuts ==
  ASSUME source \in Seq(ToSet(source)), "end" \notin ToSet(source), at.position \in Positions,
         [Next]_vars, errors' = {}, ~memory_may_fail
  PROVE  \/ tokens' = tokens /\ at' = at /\ done' = done
         \/ /\ Cuts(at.position)
            /\ ~done /\ (done' => at'.position > Len(source))
<1> DEFINE here == at.position
           i == Here.position
<1>1. Len(source) \in Nat
  OBVIOUS
<1>2. /\ i \in Positions /\ here <= i
      /\ \A j \in here .. i - 1 : source[j] \in Blanks
  BY <1>1, HereBehindBlanks
<1> HIDE DEF i
<1>3. ASSUME NEW e \in Positions, i <= e, at'.position = e, NEW token,
             tokens' = Append(tokens, token), token.text = Text(i, e)
      PROVE  Cuts(here)
  BY <1>2, <1>3, Zenon DEF Cuts, CutsOff
<1>4. ASSUME NEW e, NEW type, NEW place, NEW length, NEW valued, NEW reports,
             Add(Token(type, Text(i, e), place, length), valued, reports),
             e \in Positions, i <= e, at'.position = e
      PROVE  Cuts(here)
  <2> DEFINE token == Token(type, Text(i, e), place, length)
  <2>1. tokens' = Append(tokens, token)
    BY <1>4, AddCuts
  <2>2. token.text = Text(i, e)
    BY TextOfToken
  <2> HIDE DEF token
  <2> QED BY <1>3, <1>4, <2>1, <2>2
<1>5. CASE ReadLiteral
  <2> DEFINE literals == Literals(i)
             end == Last(literals).end
  <2>1. CharAt(i) \in Quotes
    BY <1>5, Zenon DEF ReadLiteral, Reading, i
  <2>2. i \in 1 .. Len(source)
    BY <1>2, <2>1, QuoteInside
  <2>3. end \in Positions /\ i <= end
    BY <1>1, <2>2, LiteralsRun, RunRight
  <2>4. at' = Moved(Here, end, BreaksOf(literals))
    BY <1>5, Zenon DEF ReadLiteral, i
  <2>5. at'.position = end
    BY <2>4, MovedPosition
  <2>6. ASSUME \E place, length, valued, reports :
                 Add(Token("string", Text(i, end), place, length), valued, reports)
        PROVE  Cuts(here)
    <3> HIDE DEF end
    <3>1. Cuts(here)
      BY <1>4, <2>3, <2>5, <2>6
    <3> QED BY <3>1
  <2>7. ~Last(literals).ok => Report(ReportsOf(literals))
    BY <1>5, Zenon DEF ReadLiteral, i
  <2>8. Last(literals).ok =>
          \E place, length, valued, reports :
            Add(Token("string", Text(i, end), place, length), valued, reports)
    BY <1>5, Zenon DEF ReadLiteral, i
  <2>9. ReportsOf(literals) = {} \/ ~Report(ReportsOf(literals))
    BY DEF Report
  <2>10. Run(i, literals)
    BY <2>2, LiteralsRun
  <2> HIDE DEF literals
  <2>11. Last(literals).ok
    BY <2>2, <2>7, <2>9, <2>10, FailedReported
  <2>12. Cuts(here)
    BY <2>6, <2>8, <2>11
  <2> QED BY <1>5, <2>12, Zenon DEF ReadLiteral, Running, Reading
<1>6. CASE ReadOperator
  <2> DEFINE n == LongestOperator(i)
  <2>1. /\ n > 0 /\ at' = Moved(Here, i + n, {}) /\ ~done /\ done' = done
        /\ Add(Token("operator", Text(i, i + n), Here, n), TRUE, {})
    BY <1>6, Zenon DEF ReadOperator, Running, i
  <2>2. OnLine(i, i + n)
    BY <1>2, <2>1, OperatorOnLine
  <2>3. at'.position = i + n
    BY <2>1, MovedPosition
  <2> HIDE DEF n
  <2>4. i + n \in Positions /\ i <= i + n
    BY <2>2 DEF OnLine
  <2>5. Cuts(here)
    BY <1>4, <2>1, <2>3, <2>4
  <2> QED BY <2>1, <2>5
<1>7. CASE ReadWord
  <2> DEFINE e == EndOf(i, WordChars)
             after == Moved(Here, e, {})
             type == WordType(Text(i, e))
             length == Len(Text(i, e))
  <2>1. /\ at' = after /\ ~done /\ done' = done
        /\ Add(Token(type, Text(i, e), after, length), TRUE, {})
    BY <1>7, Zenon DEF ReadWord, Reading, Running, i
  <2>2. e \in i .. Len(source) + 1 /\ e \in Positions
    BY <1>1, <1>2, EndOfShape
  <2>3. at'.position = e
    BY <2>1, MovedPosition
  <2> HIDE DEF e
  <2>4. i <= e
    BY <1>2, <2>2 DEF Positions
  <2> HIDE DEF after, type, length
  <2>5. Cuts(here)
    BY <1>4, <2>1, <2>2, <2>3, <2>4
  <2> QED BY <2>1, <2>5
<1>8. CASE ReadNumber
  <2> DEFINE e == Number(i).end
             after == Moved(Here, e, {})
             length == e - i
  <2>1. CharAt(i) \in Digits /\ ~done /\ done' = done
    BY <1>8, Zenon DEF ReadNumber, Reading, Running, i
  <2>2. \/ /\ Number(i).ok
           /\ Add(Token("number", Text(i, e), after, length), TRUE, {})
           /\ at' = after
        \/ Add(Token("error", << >>, Here, length), FALSE, {"number"})
    BY <1>8, Zenon DEF ReadNumber, i
  <2>3. ~Add(Token("error", << >>, Here, length), FALSE, {"number"})
    <3> DEFINE token == Token("error", << >>, Here, length)
    <3>1. \A valued : Add(token, valued, {"number"}) => "number" \in errors'
      <4> HIDE DEF token
      <4> QED BY Zenon DEF Add
    <3> QED BY <3>1
  <2>4. OnLine(i, e) /\ i < e
    BY <1>1, <1>2, <2>1, <2>2, <2>3, NumberOnLine
  <2>5. at'.position = e
    <3>1. at' = Moved(Here, e, {})
      BY <2>2, <2>3, Zenon
    <3> HIDE DEF e
    <3> QED BY <3>1, MovedPosition
  <2> HIDE DEF e
  <2>6. e \in Positions /\ i <= e
    BY <2>4 DEF OnLine
  <2> HIDE DEF after, length
  <2>7. Cuts(here)
    BY <1>4, <2>2, <2>3, <2>5, <2>6
  <2> QED BY <2>1, <2>7
<1>9. CASE Finish
  <2>1. /\ CharAt(i) = "end" /\ at' = Here /\ ~done
        /\ Add(Token("EOF", << >>, Here, 0), FALSE, {})
    BY <1>9, Zenon DEF Finish, Reading, Running, i
  <2>2. i > Len(source)
    <3> SUFFICES ASSUME i <= Len(source) PROVE FALSE
      BY <1>1, <1>2 DEF Positions
    <3>1. source[i] = "end"
      BY <2>1, Zenon DEF CharAt
    <3>2. i \in DOMAIN source
      BY <1>1, <1>2 DEF Positions
    <3> QED BY <3>1, <3>2, Zenon DEF ToSet
  <2>3. Text(i, i) = << >>
    <3>1. Text(i, i) \in Seq(ToSet(source)) /\ Len(Text(i, i)) = 0
      <4>1. i <= i /\ i - i = 0
        BY <1>2 DEF Positions
      <4> QED BY <1>2, <4>1, TextShape
    <3> HIDE DEF here
    <3> QED BY <3>1
  <2>4. Add(Token("EOF", Text(i, i), Here, 0), FALSE, {})
    BY <2>1, <2>3
  <2>5. at'.position = i /\ i <= i
    BY <1>2, <2>1 DEF i, Positions
  <2>6. Cuts(here)
    BY <1>2, <1>4, <2>4, <2>5
  <2> QED BY <2>1, <2>2, <2>5, <2>6
<1>10. CASE SkipUnknown
  <2>1. Report({"unknown character"})
    BY <1>10, Zenon DEF SkipUnknown
  <2> QED BY <2>1 DEF Report
<1>11. CASE LoseLiteral
  BY <1>11, Zenon DEF LoseLiteral
<1>12. CASE Overflow \/ Ended \/ UNCHANGED vars
  BY <1>12, Zenon DEF Overflow, Ended, vars
<1> QED BY <1>5, <1>6, <1>7, <1>8, <1>9, <1>10, <1>11, <1>12, Zenon DEF Next, Step
LEMMA CutKept ==
  ASSUME LexerInv, CutInv, [Next]_vars
  PROVE  CutInv'
<1>1. /\ source \in Seq(ToSet(source)) /\ "end" \notin ToSet(source)
      /\ IsSequence(tokens) /\ Len(source) \in Nat
  <2>1. source \in Seq(ToSet(source))
    BY Zenon DEF CutInv
  <2> QED BY <2>1 DEF CutInv, LexerInv
<1>2. /\ source' = source /\ memory_may_fail' = memory_may_fail
  BY Zenon DEF Next, Step, Ended, vars, ReadLiteral, LoseLiteral, Overflow, ReadOperator, ReadWord,
               ReadNumber, SkipUnknown, Finish
<1>3. (source \in Seq(ToSet(source)) /\ "end" \notin ToSet(source))'
  BY <1>1, <1>2, Zenon DEF ToSet
<1>4. \A read, first, here : CutTo(read, first, here)' <=> CutTo(read, first, here)
  <2>1. \A i, e : Text(i, e)' = Text(i, e)
    BY <1>2, Zenon DEF Text
  <2> TAKE read, first, here
  <2> QED BY <1>2, <2>1 DEF CutTo
<1>5. errors \subseteq errors'
  <2>1. \A token : Adds(token) => errors \subseteq errors'
    BY Zenon DEF Adds
  <2>2. Spares => errors \subseteq errors'
    BY Zenon DEF Spares
  <2> QED BY <2>1, <2>2, LexerMoves, Zenon
<1> SUFFICES ASSUME errors' = {}, ~memory_may_fail
             PROVE  /\ at'.position \in Positions
                    /\ \E read, first, here :
                         read = tokens' /\ here = at'.position /\ CutTo(read, first, here)
                    /\ done' => at'.position > Len(source)
  <2>1. Positions' = Positions
    BY <1>2, Zenon DEF Positions
  <2>2. ASSUME \E read, first, here :
                 read = tokens' /\ here = at'.position /\ CutTo(read, first, here)
        PROVE  (\E first : CutTo(tokens, first, at.position))'
    <3>1. PICK read, first, here :
            read = tokens' /\ here = at'.position /\ CutTo(read, first, here)
      BY <2>2
    <3>2. CutTo(read, first, here)'
      BY <1>4, <3>1
    <3>3. CutTo(tokens, first, at.position)'
      BY <3>1, <3>2, Zenon DEF CutTo, Text
    <3> QED BY <3>3, Zenon
  <2> QED BY <1>2, <1>3, <2>1, <2>2, Zenon DEF CutInv
<1>6. errors = {}
  BY <1>5
<1>7. PICK first : CutTo(tokens, first, at.position)
  BY <1>6, Zenon DEF CutInv
<1>8. at.position \in Positions /\ (done => at.position > Len(source))
  BY <1>6, Zenon DEF CutInv
<1>9. CASE tokens' = tokens /\ at' = at /\ done' = done
  BY <1>7, <1>8, <1>9
<1>10. CASE Cuts(at.position) /\ ~done /\ (done' => at'.position > Len(source))
  <2>1. PICK i \in Positions, e \in Positions : CutsOff(at.position, i, e)
    BY <1>10, Zenon DEF Cuts
  <2>2. PICK token : tokens' = Append(tokens, token) /\ token.text = Text(i, e)
    BY <2>1, Zenon DEF CutsOff
  <2>3. /\ at.position <= i /\ i <= e /\ at'.position = e
        /\ \A j \in at.position .. i - 1 : source[j] \in Blanks
    BY <2>1, Zenon DEF CutsOff
  <2> DEFINE here == at.position
  <2>4. here \in Positions /\ CutTo(tokens, first, here)
    BY <1>7, <1>8
  <2>5. here <= i /\ \A j \in here .. i - 1 : source[j] \in Blanks
    BY <2>3
  <2> HIDE DEF here
  <2>6. \E places : CutTo(Append(tokens, token), places, e)
    BY <1>1, <2>2, <2>3, <2>4, <2>5, CutAppended
  <2> QED BY <1>10, <2>2, <2>3, <2>6, Zenon
<1> QED BY <1>1, <1>6, <1>8, <1>9, <1>10, StepCuts

LEMMA CutInit ==
  ASSUME Init
  PROVE  CutInv
<1>1. source \in Seq(ToSet(source)) /\ "end" \notin ToSet(source)
  BY SourcesAssumption, Zenon DEF Init
<1>2. tokens = << >> /\ at.position = 1 /\ ~done
  BY DEF Init
<1>3. 1 \in Positions
  <2>1. Len(source) \in Nat
    BY <1>1
  <2> QED BY <2>1 DEF Positions
<1> DEFINE nowhere == [k \in DOMAIN tokens |-> 1]
<1>4. CutTo(tokens, nowhere, 1)
  <2>1. DOMAIN tokens = {} /\ 1 .. 1 - 1 = {} /\ 1 \in 1 .. 1
    BY <1>2
  <2> QED BY <2>1, Zenon DEF CutTo
<1> QED BY <1>1, <1>2, <1>3, <1>4, Zenon DEF CutInv

LEMMA CutComplete ==
  ASSUME CutInv
  PROVE  NothingSkipped
<1> SUFFICES ASSUME done, errors = {}, ~memory_may_fail
             PROVE  \E first \in [DOMAIN tokens -> 1 .. Len(source) + 1] :
                      LET end(k) == first[k] + Len(tokens[k].text)
                      IN /\ \A k \in DOMAIN tokens :
                              /\ end(k) <= Len(source) + 1
                              /\ tokens[k].text = Text(first[k], end(k))
                         /\ \A k, l \in DOMAIN tokens : k < l => end(k) <= first[l]
                         /\ \A i \in DOMAIN source :
                              \/ source[i] \in Blanks
                              \/ \E k \in DOMAIN tokens : i \in first[k] .. end(k) - 1
  BY Zenon DEF NothingSkipped
<1>1. source \in Seq(ToSet(source))
  BY Zenon DEF CutInv
<1>2. at.position \in Positions /\ at.position > Len(source)
  BY Zenon DEF CutInv
<1>3. /\ at.position = Len(source) + 1
      /\ DOMAIN source = 1 .. (Len(source) + 1) - 1
  BY <1>1, <1>2 DEF Positions
<1>4. PICK first : CutTo(tokens, first, Len(source) + 1)
  BY <1>3, Zenon DEF CutInv
<1> QED BY <1>3, <1>4, Zenon DEF CutTo

(* The source is the texts of the tokens and the blanks between them, for  *)
(* every source, whatever its literals and numbers: no reading goes on     *)
(* anywhere but behind the text it adds (the loops of lexer__tokenize and  *)
(* of literals.c).                                                         *)
THEOREM AllIsRead == Spec => []NothingSkipped
<1>1. Init => LexerInv /\ CutInv
  BY LexerInit, CutInit
<1>2. LexerInv /\ CutInv /\ [Next]_vars => (LexerInv /\ CutInv)'
  BY LexerPreserved, CutKept
<1>3. CutInv => NothingSkipped
  BY CutComplete
<1> QED BY <1>1, <1>2, <1>3, PTL DEF Spec
=============================================================================
