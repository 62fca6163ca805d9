\* Two events and a message, passes within the tolerance, every failure the
\* code handles.
SPECIFICATION FairSpec
CONSTANTS
  single = single
  series = series
  m1 = m1
  m2 = m2
  None = None
  Uid = {single, series}
  Starts <- RareStarts
  Leads <- MCLeads
  Meeting = {single}
  Msg = {m1}
  Tolerance = 3
  Window = 1
  MaxGap = 2
  MaxTime = 10
  MaxActs = 2
  Hazards = {"emit_fails", "db_error", "crash"}
CHECK_DEADLOCK FALSE
INVARIANTS TypeOK AlarmHeard AlarmOnce SnoozeHeard ReminderKept
PROPERTIES AnswerHeeded ReminderShown
