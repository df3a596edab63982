SPECIFICATION Spec
CONSTANTS
  Requests = {r1, r2}
  Bodies <- Devices
  Lessons <- Two
  Topics <- None
  Exercises <- One
  LessonOfTopic <- Empty
  LessonOfExercise <- OnlyOne
  TopicOfExercise <- Standalone
  WithStory <- Two
  Listening <- None
  EditedLessons <- One
  EditedTopics <- None
  EditedExercises <- None
  AgingKeys = {"b"}
  AuthorIsLearner = {FALSE}
  MaxVersion = 2
INVARIANT AcknowledgedIsStored
PROPERTY RetryIsNotAConflict
