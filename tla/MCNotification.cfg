SPECIFICATION Spec
CONSTANTS
  Notices = {"mail", "other", "silent"}
  Addressed = {"mail", "other"}
  Attempts = 2
  Concurrency = 1
  MaxStalls = 1
  Failing <- NotTheRecord
  MaxCrashes = 2
INVARIANTS
  RecordIsTrue
  MailsBounded
PROPERTIES
  SentIsFinal
  QueuedIsSettled
