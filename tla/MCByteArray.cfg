\* Nodes of two bytes; F16 prefixes of one byte, so that a string can be too long.
SPECIFICATION Spec
CONSTANTS
  GroupBits = 2
  Width <- SmallWidth
  WordBits <- SmallWord
  Samples <- SmallSamples
  m_baseSize = 2
  RawData <- SmallData
  NewMemory = {0, 5}
  MaxCapacity = 10
  MaxCalls = 4
INVARIANTS
  CursorSound
  FieldsReadBack
  ViewsAgree
PROPERTIES
  ImplementsByteStream
CHECK_DEADLOCK FALSE
