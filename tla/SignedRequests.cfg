CONSTANTS
  Radix = 4
  MessageLength = 2
  Word = 65536
  Primes = {13, 17, 19, 23}
  Timestamps = {1, 200, 255, 256, 290}
  UserIDs = {77}
  Jobs <- MCJobs
  ResponseCount = 3
  RequestRoom = 10
  ResponseRoom = 20
SPECIFICATION FairSpec
CHECK_DEADLOCK FALSE
INVARIANTS StreamsWhole AcceptedIfSigned
PROPERTIES ExchangeEnds
