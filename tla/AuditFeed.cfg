CONSTANTS
  person = person
  None = None
  Unset = Unset
  Party <- MCParty
  RowKinds <- MCRowKinds
  PageSize = 1
  CardSize = 2
  Window = 1
  Followed = {"analytics", "subject", "event"}
  MaxRows = 3
  MaxTime = 2
SPECIFICATION FeedSpec
INVARIANTS
  FeedTypeOK
  WalkMissesNothing
  SelectionSurvives
  ViewsAgree
  LinkDelivers
CHECK_DEADLOCK FALSE
