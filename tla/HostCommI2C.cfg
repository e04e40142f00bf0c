SPECIFICATION FairSpec
CONSTANTS
  Tasks = {t1, t2}
  Used = {"get_entry_info", "get_device_list", "start_file_download"}
  MaxCalls = 2
  PollMs = 5000
  Supersedes = TRUE
  SilentLoss = FALSE
  AckLost = TRUE
  Sizes = {"short", "whole"}
INVARIANTS TypeOK LockDiscipline AnswersOwn
PROPERTIES CallsReturn ImplementsService
CHECK_DEADLOCK FALSE
