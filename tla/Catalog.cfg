CONSTANTS
  Events = {"first", "second"}
  Fixtures <- MCFixtures
  Parents <- MCParents
  Syncers = {"pod", "admin"}
  Relays = {"api", "worker"}
  BatchSize = 2
  MaxAttempts = 2
  MaxStops = 1
SPECIFICATION Spec
INVARIANT RunsOnce
PROPERTIES StarsFollow DeliveryKept
\* Each syncer runs once: with one stopped and the other refused, no fixture is left to work on.
CHECK_DEADLOCK FALSE
