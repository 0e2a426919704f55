-------------------------- MODULE MC_FireflyMonitor --------------------------
(* The Firefly monitor client with every kind of record the report lays    *)
(* out differently.                                                        *)
EXTENDS FireflyMonitor
=============================================================================
