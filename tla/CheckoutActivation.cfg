SPECIFICATION Spec
CONSTANTS
  i1 = i1
  i2 = i2
  e1 = e1
  e2 = e2
  termsA = termsA
  termsB = termsB
  ref1 = ref1
  key1 = key1
  NoRef = NoRef
  NoKey = NoKey
  Intentions <- MCIntentions
  Expectations <- MCExpectations
  Terms <- MCTerms
  Refs = {ref1}
  Keys = {key1}
  Lifetimes = {1, 2}
  ExpiresIn = {1}
  Times = {2}
  MaxTime = 1
SYMMETRY Symmetry
INVARIANTS
  TypeOK
  OneActivation
  TermsFrozen
  ExpectationsSound
PROPERTIES
  ImplementsOneShot
CHECK_DEADLOCK FALSE
