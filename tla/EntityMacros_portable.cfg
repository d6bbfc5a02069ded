CONSTANTS Names = {a, b}
          MaxFields = 2
SPECIFICATION Spec
INVARIANT EveryDriverInserts
CHECK_DEADLOCK FALSE
