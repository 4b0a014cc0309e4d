SPECIFICATION FairSpec
CONSTANTS
  Friend = {ana, bia}
  None = none
  MaxLogins = 1
  Hosts <- All
INVARIANTS OfferedOnce RightAddressee
PROPERTY SentIsOffered
CHECK_DEADLOCK FALSE
