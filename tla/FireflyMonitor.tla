---------------------------- MODULE FireflyMonitor ----------------------------
(***************************************************************************)
(* The Firefly monitor client (src/services/firefly/src/monitor/client.cpp *)
(* and firefly_monitor_core.cpp).                                          *)
(*                                                                         *)
(* run_client subscribes to the server's record stream, installs a         *)
(* SIGINT/SIGTERM handler that sets force_quit, and loops: while           *)
(* force_quit is clear it blocks in the stream's Read, deserializes the    *)
(* record and prints it as a report of fixed height.  The server (not in   *)
(* the repository) sends records or ends the stream at times of its own;  *)
(* a signal may arrive at any time.  A record is reduced to the three      *)
(* fields that decide the report's layout.                                 *)
(***************************************************************************)
EXTENDS Naturals, Sequences

VARIABLES
    pc,         \* where run_client is
    handler,    \* signal_handler is installed for SIGINT and SIGTERM
    force_quit, \* the volatile flag the handler sets
    pending,    \* records the server sent that Read has not returned
    ended,      \* the server has ended the stream
    record,     \* the record the client read last
    screen,     \* the lines of the last report printed
    result      \* what run_client returns

vars == <<pc, handler, force_quit, pending, ended, record, screen, result>>

\* MonitorRecord: whether a grandmaster is present, the timescale, the
\* error count
Messages == [gm_present : BOOLEAN, tai_timescale : BOOLEAN,
             error_count : {0, 1}]

-----------------------------------------------------------------------------
(* The report (firefly_monitor_core.cpp), as the lines it prints.          *)

\* deserialize_record: the fields the report reads; the grandmaster
\* fields are copied only when a grandmaster is present, and only then read
deserialize_record(d) ==
    [gm_present |-> d.gm_present, tai_timescale |-> d.tai_timescale,
     error_count |-> d.error_count]

Blank(n) == [i \in 1..n |-> "blank"]

\* the fifteen lines printed when a grandmaster is present
GmLines == <<"gmIdentity", "portIdentity", "port_state", "domainNumber",
             "master_offset", "gmPresent", "ptp_stable", "UtcOffset",
             "timeTraceable", "frequencyTraceable", "grandmasterPriority1",
             "gmClockClass", "gmClockAccuracy", "grandmasterPriority2",
             "gmOffsetScaledLogVariance">>

\* mutant: the UTC branch asks for no filler line
report_time_to_stdout_no_filler(p) ==
    IF p.tai_timescale
    THEN [lines |-> <<"ptp_time_tai", "ptp_time_utc_adjusted", "system_time">>,
          filler |-> 0]
    ELSE [lines |-> <<"ptp_time_utc", "system_time">>, filler |-> 0]

\* report_time_to_stdout: the time lines and the filler lines they ask for
report_time_to_stdout(p) ==
    IF p.tai_timescale
    THEN [lines |-> <<"ptp_time_tai", "ptp_time_utc_adjusted", "system_time">>,
          filler |-> 0]
    ELSE [lines |-> <<"ptp_time_utc", "system_time">>, filler |-> 1]

\* report_monitoring_result_to_stdout: two blank lines, the grandmaster
\* block or its short form padded by 15 - 2 filler lines, the time lines,
\* the error lines or two blank lines, then the filler
report_monitoring_result_to_stdout(p) ==
    LET t      == report_time_to_stdout(p)
        body   == IF p.gm_present THEN GmLines \o t.lines
                  ELSE <<"gmPresent", "ptp_stable">> \o t.lines
        filler == IF p.gm_present THEN t.filler ELSE t.filler + 15 - 2
        errors == IF p.error_count > 0 THEN <<"error_count", "last_err_time">>
                  ELSE Blank(2)
    IN  Blank(2) \o body \o errors \o Blank(filler)

-----------------------------------------------------------------------------
(* run_client.                                                             *)

\* the channel, the client and the Subscribe call
Subscribe ==
    /\ pc = "subscribe"
    /\ pc' = "install"
    /\ UNCHANGED <<handler, force_quit, pending, ended, record, screen, result>>

\* force_quit = false, then signal(SIGINT, ...) and signal(SIGTERM, ...)
InstallHandlers ==
    /\ pc = "install"
    /\ force_quit' = FALSE
    /\ handler' = TRUE
    /\ pc' = "loop"
    /\ UNCHANGED <<pending, ended, record, screen, result>>

\* mutant: the loop no longer tests force_quit
LoopTest_ignores_quit ==
    /\ pc = "loop"
    /\ pc' = "read"
    /\ UNCHANGED <<handler, force_quit, pending, ended, record, screen, result>>

\* while (!force_quit)
LoopTest ==
    /\ pc = "loop"
    /\ \/ /\ force_quit
          /\ pc' = "done"
          /\ result' = "success"
       \/ /\ ~force_quit
          /\ pc' = "read"
          /\ UNCHANGED result
    /\ UNCHANGED <<handler, force_quit, pending, ended, record, screen>>

\* client->stream->Read: blocks until a record arrives or the stream ends,
\* and returns the records sent before the end first; the signal handler
\* is installed with restart semantics, so a signal does not end the wait
StreamRead ==
    /\ pc = "read"
    /\ \/ /\ pending # <<>>
          /\ record' = Head(pending)
          /\ pending' = Tail(pending)
          /\ pc' = "report"
          /\ UNCHANGED result
       \/ /\ pending = <<>>
          /\ ended
          /\ pc' = "done"
          /\ result' = "io_failed"
          /\ UNCHANGED <<pending, record>>
    /\ UNCHANGED <<handler, force_quit, ended, screen>>

\* deserialize_record and report_monitoring_result_to_stdout, which always
\* returns DOCA_SUCCESS
Report ==
    /\ pc = "report"
    /\ screen' = report_monitoring_result_to_stdout(deserialize_record(record))
    /\ pc' = "loop"
    /\ UNCHANGED <<handler, force_quit, pending, ended, record, result>>

\* SIGINT or SIGTERM: signal_handler sets force_quit once installed; before
\* that the default action ends the process
Signal ==
    /\ pc \notin {"done", "killed"}
    /\ ~force_quit
    /\ \/ /\ handler
          /\ force_quit' = TRUE
          /\ UNCHANGED pc
       \/ /\ ~handler
          /\ pc' = "killed"
          /\ UNCHANGED force_quit
    /\ UNCHANGED <<handler, pending, ended, record, screen, result>>

\* the server sends a record (the stream buffers one), or ends the stream
ServerSend ==
    /\ ~ended
    /\ pending = <<>>
    /\ \E m \in Messages : pending' = <<m>>
    /\ UNCHANGED <<pc, handler, force_quit, ended, record, screen, result>>

ServerClose ==
    /\ ~ended
    /\ ended' = TRUE
    /\ UNCHANGED <<pc, handler, force_quit, pending, record, screen, result>>

Init ==
    /\ pc = "subscribe"
    /\ handler = FALSE
    /\ force_quit = FALSE
    /\ pending = <<>>
    /\ ended = FALSE
    /\ record = [gm_present |-> FALSE, tai_timescale |-> FALSE, error_count |-> 0]
    /\ screen = <<>>
    /\ result = "none"

Client == Subscribe \/ InstallHandlers \/ LoopTest \/ StreamRead \/ Report

Next == Client \/ Signal \/ ServerSend \/ ServerClose

\* The client thread runs whenever it is not blocked in Read; nothing makes
\* the server send or a user press Ctrl-C.
Spec == Init /\ [][Next]_vars /\ WF_vars(Client)

-----------------------------------------------------------------------------
(* Properties.                                                             *)

\* the height of a report: 2 blank lines, 15 grandmaster lines, 3 time
\* lines, 2 error lines
ReportLines == 2 + 15 + 3 + 2

(* Every report has the same height, whatever the record holds ("Maintain *)
(* the same output length for easy screen formatting"): the filler lines  *)
(* report_time_to_stdout and report_monitoring_result_to_stdout count     *)
(* make up for the shorter forms of the grandmaster and time blocks.       *)
ReportLength ==
    screen # <<>> => Len(screen) = ReportLines

(* After SIGINT or SIGTERM, run_client returns, unless it stays blocked    *)
(* forever in Read because the server sends nothing more: the flag is      *)
(* tested once per record, so a silent server is the only thing that can  *)
(* keep the client from quitting (client.cpp:127-129).                     *)
QuitsUnlessServerSilent ==
    force_quit ~> (pc = "done" \/ [](pc = "read" /\ pending = <<>> /\ ~ended))

=============================================================================
