CONSTANTS
  models = models
  elsewhere = elsewhere
  link = link
  d1 = d1
  d2 = d2
  Paths = {models, elsewhere}
  Links = {link}
  Dirs = {d1, d2}
  Versions = {v1, v2}
  Views <- MCViews
  Endpoints = {models, link, Malformed, Absent}
  Absent = Absent
  Malformed = Malformed
  Alias = Alias
  Starts <- MCStarts
  MaxChanges = 2
SPECIFICATION RootSpec
CHECK_DEADLOCK TRUE
INVARIANTS
  ServedIsDesignated
  SetupSatisfiesRuns
PROPERTY RunsAreServedAgain
