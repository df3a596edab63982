SPECIFICATION Spec
CONSTANTS
  Requests = {r1}
  Bodies <- Course
  Lessons <- One
  Topics <- Two
  Exercises <- Two
  LessonOfTopic <- InLessonOne
  LessonOfExercise <- InLessonOne
  TopicOfExercise <- FirstInTopicOne
  WithStory <- None
  Listening <- Second
  EditedLessons <- None
  EditedTopics <- Two
  EditedExercises <- One
  AgingKeys = {}
  AuthorIsLearner = {TRUE, FALSE}
  MaxVersion = 1
PROPERTIES CompletionIsEarned RecordSpec
