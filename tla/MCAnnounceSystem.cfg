CONSTANTS
  NULL = NULL
  Hosts = {h1}
  AnnounceLists <- MCAnnounceLists
  MaxAttempts = 2
  MaxBackoff = 1
  MaxFaults = 2
SPECIFICATION Spec
INVARIANTS CountsAgree 
PROPERTIES DownloadsCounted 
CHECK_DEADLOCK FALSE
