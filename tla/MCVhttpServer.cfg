\* One handle, used again and again, and streams of up to four requests.
CONSTANTS
  h1 = h1
  None = None
  Handle = {h1}
  Streams <- MCStreams
  MaxRequest = 4
  Answer = 2
  Late = 1
SPECIFICATION FairSpec
INVARIANTS
  ServedInOrder
  CloseIsComplete
  AnswersAreUnderWay
PROPERTIES
  PoliteIsServed
