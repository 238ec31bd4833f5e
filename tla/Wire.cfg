SPECIFICATION Spec
CONSTANTS
  Radix = 3
  Texts <- MCTexts
  Numbers = {0, 2, 5}
INVARIANTS
  FitsBuffer
  RoundTrip
  ForwardedIntact
