CONSTANTS
  anna = anna ben = ben chi = chi lesson = lesson topic = topic newTopic = newTopic exercise = exercise row = row otherRow = otherRow
  audio = audio text = text listening = listening key = key
  file = file otherFile = otherFile source = source otherSource = otherSource
  NoMedia = NoMedia
  Authors = {anna, ben, chi}
  Lessons = {lesson} Topics = {topic, newTopic} Exercises = {exercise, row, otherRow}
  ParentsOf <- MCParentsOf
  WithStory = {}
  Media = {audio}
  Contents = {text, listening}
  MediaOf <- MCMediaOf
  Keys = {key} Payloads = {file, otherFile}
  SourceOf <- MCSourceOf RowsOf <- MCRowsOf
  Seed <- MCSeed SeedContent = listening
  IdOf <- MCIdOf MaxId = 2
  MaxRevisions = 2 MaxOps = 3
SPECIFICATION Spec
SYMMETRY Symmetry
CHECK_DEADLOCK FALSE
INVARIANTS VersionNamesTheContent ImportsAreExact NoDeadlock
PROPERTIES OnlyApprovedGoesLive GoesLiveReady
