CONSTANT N = 4
SPECIFICATION FairSpec
INVARIANTS
  AfterLastInput
  OutputsMatchInputs
  NeverFatal
PROPERTY OutputsComplete
