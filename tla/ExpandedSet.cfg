SPECIFICATION Spec
CONSTANTS
  input = input
  secret = secret
  url = url
  consumerSecret = consumerSecret
  consumerUrl = consumerUrl
  install = install
  provider = provider
  consumer = consumer
  v1 = v1
  v2 = v2
  s1 = s1
  s2 = s2
  Inputs = {input}
  Exports = {secret, url}
  Consumed = {secret}
  ConsumerLeaf <- MCConsumerLeaf
  FromInput <- MCFromInput
  Secret = {secret}
  Unit <- MCUnit
  Sentinel = Sentinel
  Embedded = Embedded
  Nested = Nested
  SourceValues = {Sentinel, Nested}
  FillValues = {v1}
  MaxSets = 1
  Sessions = {s1, s2}
SYMMETRY SessionSymmetry
INVARIANTS UnfilledListed ExpandIdempotent
PROPERTIES FillsSurviveExpand SecretsFilledTogether
