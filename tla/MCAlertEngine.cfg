SPECIFICATION FairSpec
CONSTANTS
  Rules <- MCRules
  Users <- MCUsers
  Listings <- MCListings
  Owner <- MCOwner
  Digest <- MCDigest
  Channels <- MCChannels
  Wants <- MCWants
  Log <- MCLog
  ListingOf <- MCListingOf
  DigestLimit = 1
  MaxRetries = 2
  MaxFaults = 1
INVARIANTS
  RepeatNeedsCause
  AckedUsersTold
  
PROPERTIES
  EventuallyDrained
CHECK_DEADLOCK FALSE
