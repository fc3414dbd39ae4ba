CONSTANTS
  Width = 22
  Width32 = 11
  MaxVarintBytes = 4
  Schema <- EnvelopeSchema
  Root = "Envelope"
  Sent <- MCSent
  Decodes <- MCDecodes
SPECIFICATION Spec
INVARIANTS
  TypeOK
  InBuffer
  DepthBounded
  CountBounded
  ReadsAsSliced
  RoundTrip
  DepthLimitsAgree
PROPERTY Advances
