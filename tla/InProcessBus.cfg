SPECIFICATION FairSpec
CONSTANTS
  Group = {"workers", "auditors"}
  Sub = {"forever", "timed", "auditor"}
  GroupOf <- OneAuditor
  BlockForever = {"forever"}
  CountOf <- BatchOfForever
  MaxEntries = 2
INVARIANTS TypeOK ClaimsDisjoint NoLostWakeup
PROPERTIES ImplementsContract EveryEntryHanded LoopsEnd
CHECK_DEADLOCK FALSE
