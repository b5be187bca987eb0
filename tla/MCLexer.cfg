CONSTANTS
  Sources <- AllTexts
  Letters <- SomeLetters
  Keywords <- If
  InitialCapacity = 2
  MaxCapacity = 6
  LengthWidth = 4
  PlaceWidth = 7
  CharBuffer = 3
SPECIFICATION FairSpec
INVARIANTS EOFOrError TokensAreLexemes WordsWhereTheyStand
