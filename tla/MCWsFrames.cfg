SPECIFICATION FairSpec
CONSTANTS
  Writers = {w1, w2}
  Pinger = pinger
  Types = {"text"}
  Sizes = {0, 3, 4}
  FragmentSizes = {1, 2}
  MaxWrites = 1
  MaxPayload7Bit = 1
  MaxPayload16Bit = 2
  WordBits = 4
  MaxFrameSize = 3
  MaxMessageSize = 3
  Junk = Junk
INVARIANTS MessagesIntact OnlyLimitsBreak LimitsHold
PROPERTIES SentArrives
