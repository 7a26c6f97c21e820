SPECIFICATION Spec
CONSTANTS
  input = input
  secret = secret
  url = url
  consumerSecret = consumerSecret
  consumerUrl = consumerUrl
  install = install
  provider = provider
  consumer = consumer
  v1 = v1
  v2 = v2
  s1 = s1
  s2 = s2
  Inputs = {input}
  Exports = {secret, url}
  Consumed = {secret, url}
  ConsumerLeaf <- MCConsumerLeaf
  FromInput <- MCFromInput
  Secret = {secret}
  Unit <- MCUnit
  Sentinel = Sentinel
  Embedded = Embedded
  Nested = Nested
  SourceValues = {v1, v2}
  FillValues = {}
  MaxSets = 1
  Sessions = {s1}
PROPERTY SourceIsAuthoritative
