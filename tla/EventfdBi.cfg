\* Rounds enough for every interleaving of read, write back and notify to recur.
SPECIFICATION Spec
CONSTANT Count = 12
INVARIANT OneToken
PROPERTIES OnlyLostRacesHang TakeTurns
CHECK_DEADLOCK FALSE
