SPECIFICATION FairSpec
CONSTANTS
  Requests = {r1, r2}
  Bodies <- Contended
  Lessons <- One
  Topics <- None
  Exercises <- One
  LessonOfTopic <- Empty
  LessonOfExercise <- OnlyOne
  TopicOfExercise <- Standalone
  WithStory <- One
  Listening <- None
  EditedLessons <- One
  EditedTopics <- None
  EditedExercises <- One
  AgingKeys = {}
  AuthorIsLearner = {TRUE}
  MaxVersion = 2
PROPERTIES RequestsAreAnswered AuthorsFinish
