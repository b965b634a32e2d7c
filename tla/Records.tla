-------------------------------- MODULE Records --------------------------------
(* The records of the database: the study of the stations watched, and the     *)
(* catalogue with the counts of visitors.  Nothing the study stores depends on *)
(* the other, nor the other on it; both are written by one database worker.    *)
EXTENDS Study, Visits

recordsVars == <<studyVars, catalogVars, visitVars>>

RecordsInit == StudyInit /\ CatalogInit /\ VisitsInit

StudyStep == StudyNext /\ UNCHANGED <<catalogVars, visitVars>>
CatalogStep == CatalogNext /\ UNCHANGED <<studyVars, visitVars>>
VisitsStep == VisitsNext /\ UNCHANGED studyVars

RecordsNext == StudyStep \/ CatalogStep \/ VisitsStep

RecordsSpec == RecordsInit /\ [][RecordsNext]_recordsVars
=============================================================================
