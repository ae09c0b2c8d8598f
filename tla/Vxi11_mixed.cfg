\* A client over TCP and one over UDP, until they have made their calls.
CONSTANTS
  t = t
  u = u
  Tcp = {t}
  Udp = {u}
  MaxCalls <- Calls
  MaxTries = 2
  Lid = Lid
  NoLid = NoLid
  None = None
SPECIFICATION FairSpec
INVARIANTS TypeOK AnswersTellTruth TcpInOrder
PROPERTIES TcpAnswered
CHECK_DEADLOCK FALSE
