---------------------------- MODULE MCDemoReset ----------------------------
(* DemoReset over the files a disk may hold. *)
EXTENDS DemoReset

\* A file of each build that wrote one: before versions were recorded, with a
\* table missing; with the payload columns; after the drop and before the
\* sweep; of a newer build.
Written(version, tables, columns, rows, free) ==
  [version |-> version, tables |-> tables, columns |-> columns, cast |-> TRUE,
   rows |-> rows, free |-> free, log |-> IF free THEN "payload" ELSE "clean"]

MCFiles ==
  {Blank,
   Written(0, {"policy_rules", "audit_log"}, Payload, TRUE, FALSE),
   Written(0, {"policy_rules"}, {}, FALSE, FALSE),
   Written(2, Tables, Payload \cup {"redactions"}, TRUE, FALSE),
   Written(3, Tables, {"redactions"}, TRUE, TRUE),
   Written(5, Tables, {"redactions"}, FALSE, FALSE)}
=============================================================================
