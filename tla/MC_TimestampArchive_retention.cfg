\* One file replaced in up to three different seconds; a limit of one
\* archived copy is reached by the second replacement.
CONSTANTS
    File = {fa}
    MaxTime = 3
    archive_timestamp_count = 1
    NoStamp = NoStamp
SPECIFICATION Spec
INVARIANT RetentionBound
\* The clock stops at MaxTime; replacing keeps the model going.
