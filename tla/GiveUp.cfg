SPECIFICATION FairSpec
CONSTANTS
  Alice = Alice
  Bob = Bob
  Mallory = Mallory
  Nobody = Nobody
  Conn <- MCConn
  Honest = {Alice, Bob}
  HandshakeLimit = 2
  Trials <- MCGiveUp
  StrangeFrames <- MCFrames
PROPERTIES
  GiveUpNeedsTheNextLine
CHECK_DEADLOCK FALSE
