CONSTANTS
  None = None
  MaxPart = 2
  MaxListed = 2
  Releases <- SomeReleases
  FirstParts <- SomeParts
  Ops <- CeilingOps
  Width = 4
  Questions <- SomeQuestions
  TextOf <- AlphabeticalPlace
  serde = serde
  tokio = tokio
  one = one
  two = two
  serdeNew = serdeNew
  tokioNew = tokioNew
  Nothing = Nothing
  Dep = {serde, tokio}
  Text = {one, two, serdeNew, tokioNew}
  FixedText <- FixedTo
  Layout <- TwoManifests
  TextsOf <- DistinctTexts
  SaveKinds = {"reword", "insert"}
  MaxSaves = 2
SPECIFICATION MCSpec
INVARIANTS
  RangeIntact
