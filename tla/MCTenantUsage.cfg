CONSTANTS
  Workers = {w1, w2}
  MaxSize = 1
  MaxBatches = 3
  MaxDay = 2
  MaxSubscriptions = 2
  MaxChanges = 3
  DailyRows <- MCDailyRows
  BatchesWith <- MCBatchesWith
  StorageBytes <- MCStorageBytes
SPECIFICATION MCSpec
 
INVARIANT DailyCapHolds
INVARIANT NewestEventStands
CHECK_DEADLOCK FALSE
PROPERTY EntitlementConverges
