SPECIFICATION Spec
CONSTANTS
  Tasks = {t1, t2}
  Used = {"get_initiator_summary", "select_entry", "select_next_image", "start_file_download", "get_device_list", "start_rp2350_update", "reset"}
  MaxCalls = 2
  PollMs = 5000
  Supersedes = FALSE
  SilentLoss = TRUE
  AckLost = FALSE
  Sizes = {"short", "whole", "long"}
SYMMETRY TaskSymmetry
INVARIANTS RunIsAnswered
CHECK_DEADLOCK FALSE
