\* The executor, timer futures and main loop of lib.rs with its two tasks.
CONSTANTS
  T1 = T1
  T2 = T2
  Tasks <- MCTasks
  SpawnOrder <- MCSpawnOrder
  Duration <- MCDuration
SPECIFICATION Spec
INVARIANTS TypeOK TaskNeverLost
PROPERTIES TasksRunForever TimerLatencyBounded
