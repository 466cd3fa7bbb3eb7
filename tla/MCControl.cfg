SPECIFICATION LiveSpec
CONSTANTS
  Requests <- MCRequests
  NetNo = "tenant"
  StringSize = 5
INVARIANTS OnlyDocumented NamesAreText ZoneAgrees AckedIsDurable
PROPERTY ControlsAnswered
