------------------------------ MODULE MCTriggers ------------------------------
(* Small instances of Triggers. *)
EXTENDS Triggers

CONSTANTS hourly

Row(trigger, schedule, badIds) == [trigger |-> trigger, schedule |-> schedule, badIds |-> badIds]

MCRows == {Row("message", None, FALSE), Row("cron", hourly, FALSE),
           Row("cron", hourly, TRUE), Row("message", hourly, FALSE), Row("cron", Invalid, FALSE)}
MCTemplates == {Row("message", None, FALSE), Row("cron", hourly, FALSE), Row("message", hourly, FALSE)}
MCRuns == Deliveries \cup Firings
=============================================================================
