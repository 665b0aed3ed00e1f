SPECIFICATION Spec
CONSTANTS
  core = core
  a1 = a1
  a2 = a2
  a3 = a3
  Keys <- MCKeys
  MaxResults = 2
  MaxEvents = 1
  Word = 16
  DefaultPageSize = 3
  i1 = i1
  i2 = i2
  Inserters <- MCInserters
  Readers = {r1}
  Arrays <- MCArrays
  Capacity = 3
  PageNumbers <- MCPageNumbers
  PageSizes <- MCPageSizes
  Configurations <- MCConfigurations
  None = None
SYMMETRY Symmetry
INVARIANTS
  AnswersAreStable
PROPERTIES
  Implements
