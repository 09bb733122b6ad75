---------------------------- MODULE MCCopyExport ----------------------------
(* A chain of a first export and its retry, for TLC.                        *)
EXTENDS CopyExport

PassWedgeAt == {"place"}
PassTorn == {"removal"}

(* What was asked of a run that is out of its loop is read no more.          *)
LiveAsked == [r \in Runs |-> IF job[r].at \in Copying THEN asked[r] ELSE "no"]
LiveState == <<up, live, LiveAsked, job, mutex, away, folder, rec, seal, journal,
               ledger, tries, left>>
=============================================================================
