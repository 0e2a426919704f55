\* Any sequence of records, the end of the stream and a signal at any time.
\* run_client returns (or the process is killed), so deadlock is expected.
SPECIFICATION Spec
CHECK_DEADLOCK FALSE
INVARIANTS ReportLength
PROPERTIES QuitsUnlessServerSilent
