------------------------------ MODULE MCScanPage ------------------------------
(* The service with the page of its scan, for TLC: a feature file and an alerts file, *)
(* of which only the first fills the table that the summary counts.                      *)
EXTENDS ScanPage

CONSTANTS feature, alert
TwoFiles == << {feature}, {alert} >>
=============================================================================
