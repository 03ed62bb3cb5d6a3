SPECIFICATION Spec
CONSTANTS
  a = a
  b = b
  MaxWork = 2
  Names <- SomeNames
  Meanings <- SomeMeanings
SYMMETRY Twins
INVARIANTS FirstReadsItsSubject CueprobeRanAsVouched ComparedWereFinished QuietProbeIsExact DifferenceIsOfTexts
