CONSTANTS
  Key = {k1, k2, k3}
  Salt = {s1, s2, s3}
  Password = {old, new}
  Kdf = {usual, weak}
  Weak = {weak}
  Costly = {}
  Flags <- GivenFlags
  MaxRing = 2
  MaxMerges = 1
  NoConfig = NoConfig
SPECIFICATION Spec
SYMMETRY Symmetric
INVARIANT RingOfOneRevision
PROPERTY KeysSurvive
