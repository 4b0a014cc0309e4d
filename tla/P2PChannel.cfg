SPECIFICATION FairSpec
CONSTANTS
  p1 = p1
  p2 = p2
  r1 = r1
  Port = {p1, p2}
  Remote = {r1}
  SessionOf <- FirstOnly
  Initial = {}
  NetworkOf <- OneNetwork
  Preference <- SecondPreferred
  GenerationOf <- OldGeneration
  Sessions = 1
  MaxFailures = 1
  Refused <- SecondRefused
  Resets = TRUE
  Prompt = TRUE
INVARIANTS NothingDangles EveryPairTried NeverGivesUp
PROPERTIES NeverStranded WritableInTheEnd
CHECK_DEADLOCK FALSE
