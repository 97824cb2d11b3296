CONSTANTS
  p = p  q = q  r = r
  symptom = symptom  likeSymptom = likeSymptom  other = other
  id = id  likeId = likeId  path = path  note = note
  lesson1 = lesson1  lesson2 = lesson2  card = card  key = key  page = page
  A = A  B = B  strangersKey = strangersKey
  Procs = {p, q, r}
  Mortals = {q}
  Scripts <- AllScripts
  Files = {lesson1, lesson2, card, key, page}
  Dir <- MCDir
  FileOf <- MCFileOf
  Agents = {A, B}
  TrustedKeys <- MCTrustedKeys
  Size <- MCSize
  Torn = Torn
  Raised = Raised
  None = None
SPECIFICATION Spec
INVARIANTS SerialWritesHold NeverOverCounted AuthorFoundNoFile AnswersAreSound
PROPERTIES TornLessonStays
CHECK_DEADLOCK FALSE
