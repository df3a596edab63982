CONSTANTS
  Lessons = {1, 2, 3}
  Levels = {1, 2}
  LevelAt <- MCLevelOf
  Places = {0}
  MaxEdits = 1
  MaxTime = 1
  GoalLevels = {1, 2}
  MaxChanges = 1
  MaxFaults = 1
SPECIFICATION MCSpec
PROPERTIES FollowingFinishes LearnersArrive
CHECK_DEADLOCK FALSE
