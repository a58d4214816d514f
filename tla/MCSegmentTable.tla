--------------------------- MODULE MCSegmentTable ---------------------------
(***************************************************************************)
(* Small instances of SegmentTable for TLC: the lines of the task's maps.  *)
(***************************************************************************)
EXTENDS SegmentTable

\* a library mapped twice, of which the table only sees the first
MCTaskMaps ==
    << [name |-> "lib", type |-> "file", start |-> 4, length |-> 2, offset |-> 0],
       [name |-> "lib", type |-> "file", start |-> 6, length |-> 2, offset |-> 2] >>

MCOneTaskMap == << [name |-> "lib", type |-> "file", start |-> 2, length |-> 2, offset |-> 0] >>

MCNoTaskMaps == << >>

=============================================================================
