CONSTANTS
  Sources <- InvalidNumbers
  Letters <- SomeLetters
  Keywords <- If
  InitialCapacity = 2
  MaxCapacity = 6
  LengthWidth = 4
  PlaceWidth = 7
  CharBuffer = 3
SPECIFICATION FairSpec
PROPERTY LexerEnds
