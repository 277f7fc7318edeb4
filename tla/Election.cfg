SPECIFICATION ReplicasFairSpec
CONSTANTS
  Replicas = {r1, r2, r3}
  LeaderElection = TRUE
  Nobody = Nobody
  MaxExits = 2
CHECK_DEADLOCK FALSE
INVARIANTS OneReconciler WatchesWhatItWrites
PROPERTY SomebodyReconciles
