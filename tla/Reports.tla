------------------------------- MODULE Reports -------------------------------
(***************************************************************************)
(* What becomes of a published system event, as operators: the listener's  *)
(* classification by prefix (zwsystem_ipc_client.cpp) and the reportXxx    *)
(* functions of the command handler (cht_p2p_camera_command_handler.cpp).  *)
(*                                                                         *)
(* A message is a record: prefix, header (its header is well formed),      *)
(* size (the structure whose size the whole message has, headers included, *)
(* "none" if it has the size of none), filled (no mandatory field of that  *)
(* structure is empty), times (its times, <<>> for a text of another form) *)
(* and type (of a status event).                                           *)
(***************************************************************************)
EXTENDS Integers, Sequences

Prefixes == {"SYSEVE", "SNAPSH", "RECORD", "RECOGN", "STATUS"}

\* ZwsystemSubListener::onMessage; strncmp is true when the texts differ.
Classify(prefix) ==
  IF prefix # "SNAPSH" THEN "Snapshot"
  ELSE IF prefix # "RECORD" THEN "Record"
  ELSE IF prefix # "RECOGN" THEN "Recognition"
  ELSE IF prefix # "STATUS" THEN "StatusEvent" ELSE "Unknown"

-----------------------------------------------------------------------------
(* is_valid_utc_ms: a time is <<year, month, day, hour, minute, second>>. *)

IsLeapYear(y) == (y % 4 = 0 /\ y % 100 # 0) \/ y % 400 = 0

\* Mutant of DaysInMonth: every year is a leap year.
DaysInMonthAlways29(y, m) == <<31, 29, 31, 30, 31, 30, 31, 31, 30, 31, 30, 31>>[m]

DaysInMonth(y, m) ==
  IF m = 2 /\ IsLeapYear(y) THEN 29
  ELSE <<31, 28, 31, 30, 31, 30, 31, 31, 30, 31, 30, 31>>[m]

IsValidUtcMs(t) ==
  /\ Len(t) = 6
  /\ t[2] \in 1..12 /\ t[3] \in 1..DaysInMonth(t[1], t[2])
  /\ t[4] \in 0..23 /\ t[5] \in 0..59 /\ t[6] \in 0..59

-----------------------------------------------------------------------------
(* The checks of a report function, in their order. *)

Goes     == 1      \* every check passed: the command is sent
NotRetry == -999   \* REPORT_EVENT_NOT_RETRY

\* The gate, the size, the fields, the times, the files.
Checked(kind, m, open, present) ==
  IF ~open THEN NotRetry
  ELSE IF m.size # kind \/ ~m.filled \/ \E i \in DOMAIN m.times : ~IsValidUtcMs(m.times[i])
    THEN -2
  ELSE IF ~present THEN NotRetry ELSE Goes

ReportSnapshot(m, open, present)    == Checked("Snapshot", m, open, present)
ReportRecord(m, open, present)      == Checked("Record", m, open, present)
ReportRecognition(m, open, present) == Checked("Recognition", m, open, present)
\* No times and no files.
ReportStatusEvent(m, open) ==
  Checked("StatusEvent", [m EXCEPT !.times = <<>>], open, TRUE)

\* What the second function of each pair refuses in any case: a status event's
\* type, whatever it is, as no number is both 2 and 4.
SendRefused(kind, m) == kind = "StatusEvent" /\ (m.type # 2 \/ m.type # 4)

DispatchEvent(kind, m, open, present) ==
  CASE kind = "Snapshot"    -> ReportSnapshot(m, open, present)
    [] kind = "Record"      -> ReportRecord(m, open, present)
    [] kind = "Recognition" -> ReportRecognition(m, open, present)
    [] kind = "StatusEvent" -> ReportStatusEvent(m, open)
    [] OTHER                -> 0

=============================================================================
