---------------------------- MODULE MCScanService ----------------------------
(* Instances of ScanService for TLC: a feature file and an alerts file. *)
EXTENDS ScanService

CONSTANTS feature, alert
TwoFiles == << {feature}, {alert} >>
=============================================================================
