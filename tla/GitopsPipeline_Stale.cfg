SPECIFICATION PipelineSpec
CONSTANTS
  input = input
  token = token
  install = install
  v1 = v1
  v2 = v2
  s1 = s1
  Inputs = {input, token}
  Exports = {}
  Consumed = {}
  ConsumerLeaf <- MCConsumerLeaf
  FromInput <- MCFromInput
  Secret = {}
  Unit <- MCUnit
  Sentinel = Sentinel
  Embedded = Embedded
  Nested = Nested
  SourceValues = {v1, v2}
  FillValues = {v1, v2}
  MaxSets = 1
  Sessions = {s1}
PROPERTY AppliesWhatItLoaded
