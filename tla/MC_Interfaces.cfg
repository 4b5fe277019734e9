SPECIFICATION Spec
CONSTANTS
  WebCalls = {"q", "r"}
  WebKinds = {"create", "retry", "stop", "kill", "say", "answer", "settings", "list", "stats", "log"}
  ToggleAgents = {"m", "n"}
  ToggleFetches = {"f"}
  ToggleElsewhere = 1
  RouterViews = {"dashboard", "new-task", "run-details"}
  RouterRuns = 2
  RouterHistory = 3
  PageRuns = 2
  PageLively = {1}
  PageLines = 1
  PageSessions = 2
INVARIANTS AnswersAreTrue RowsAreTrue DetailsAreOfTheRun
PROPERTIES TuiFollowsUser AddressFollowsUser EventsTellTheRun
CHECK_DEADLOCK FALSE
