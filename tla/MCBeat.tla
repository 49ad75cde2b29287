-------------------------------- MODULE MCBeat --------------------------------
(***************************************************************************)
(* What Celery beat drives, for TLC: schedules that fire, the rows and        *)
(* RedBeat entries of schedules under concurrent requests, and the direct     *)
(* uploads its janitor sweeps.  Schedules and uploads share no table, and the *)
(* two questions about schedules need different actors: firing wants several  *)
(* dispatchers and one caller, the entries several callers and no dispatcher. *)
(* A behaviour takes the steps of one part, and the parts' states add up.     *)
(***************************************************************************)
EXTENDS ScheduleDispatch, DirectUpload

CONSTANT OneCaller

VARIABLE part

beatVars == <<part, vars, uploadVars>>

\* Requests of one caller only; no dispatcher at work on a fire.
FiringStep == Next /\ \A c \in Callers \ {OneCaller} : request'[c] = request[c]
EntriesStep == Next /\ UNCHANGED <<pc, job>>

BeatInit ==
    /\ part \in {"firing", "entries", "upload"}
    /\ Init /\ UploadInit

BeatNext ==
    /\ UNCHANGED part
    /\ \/ part = "firing" /\ FiringStep /\ UNCHANGED uploadVars
       \/ part = "entries" /\ EntriesStep /\ UNCHANGED uploadVars
       \/ part = "upload" /\ UploadNext /\ UNCHANGED vars

BeatSpec == BeatInit /\ [][BeatNext]_beatVars /\ Fairness /\ UploadFairness
=============================================================================
