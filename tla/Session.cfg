SPECIFICATION FairSpec
CONSTANTS
  Alice = Alice
  Bob = Bob
  Mallory = Mallory
  Nobody = Nobody
  Conn <- MCConn
  Honest = {Alice, Bob}
  HandshakeLimit = 2
  Trials <- MCTrials
  StrangeFrames <- MCFrames
INVARIANTS
  OneClientPerSeat
PROPERTIES
  EveryoneIsTold
  PlaysOnTheViewSeen
  RequestsAreServed
  NobodyLeftPlaying
CHECK_DEADLOCK FALSE
