-------------------------- MODULE MCVisionPipeline -------------------------
EXTENDS VisionPipeline

Entry == [r \in Reasons |-> 3]
ByReason == [r \in Reasons |-> 1]
EntryTimes == [r \in Rules |-> IF r = "AGGREGATE" \/ r = "SMILE" THEN 1 ELSE 2]
EntryCounts == [r \in Rules |-> 2]
ByDetector == [n \in Detectors |-> 1]
Gaps == [n \in Detectors |-> IF n = "SMILE_EXPRESSION" THEN 2 ELSE 1]
Counts == [n \in Detectors |-> 2]
============================================================================
