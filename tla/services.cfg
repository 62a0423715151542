SPECIFICATION FairSpec
CONSTANTS
  TypeChannel <- TypeChannels
  FeatureChannel <- FeatureChannels
  AreaChannel <- AreaChannels
  Labelled = {"design", "growth"}
  DesignQuality = "design"
  Inputs <- ReportInputs
  MaxReportFaults = 2
  Issues = {1, 2, 3}
  Workloads = {{1, 2}, {3}}
  Reported <- ReportedFiles
  Uploaded <- UploadedFiles
  MaxWorkers = 2
  Edited = {1, 3}
  Batches = 3
  Requests = {1, 2, 3}
  Spike <- SpikeOf
  Testers = {"u"}
  LastMailDay = 2
  Titles <- ReportTitles
  Window = 2
  Cutoff = 2
  Kept = 2
  LastDay = 4
  MaxRuns = 4
  Searches = {1, 2}
  Matching = {"d1"}
  MaxExpiries = 2
  Documents = {1, 2}
  BatchSize = 2
  LastVersion <- Versions
  MaxFaults = 1
  Tickets = {1, 2, 3, 4, 5}
  Time <- TicketTimes
  PageSize = 2
  DetectorBatch = 2
  Issue = 1
  Others <- RecentIssues
  Unreadable = {3}
  Duplicates = {2, 5}
  AskBatch = 2
  MaxPolls = 4
  InIndex = {1, 2, 3, 4}
  Asked <- Searches4
  ScoredKeys = {1, 2}
  NotScored = NotScored
  Scored <- QualityInputs
INVARIANTS
  TypeOK
  AnswersAreTrue
  ReportIsWhole
  AwaitedTasksRun
  EditsSurvive
  VerdictsFit
  OneMail
  ScoresComplete
  MailedIsSaved
  RetryAnswers
  DetectedOnce
  ListedOnce
  ChangesAddUp
  CutsKeepWhatMatters
  CountsSurvive
PROPERTIES
  NothingIsOverwritten
  EverythingSettles
CHECK_DEADLOCK FALSE
