------------------------------ MODULE Verdict -------------------------------
(***************************************************************************)
(* The decision of the supervisor's side (src/src/verdict.rs).  An         *)
(* occupancy is a record with field "is" and, when HeldBy, the run of the  *)
(* claim record; of an eviction only the kind is kept.                     *)
(***************************************************************************)
EXTENDS Naturals

Free == [is |-> "Free"]
HeldAnonymously == [is |-> "HeldAnonymously"]
HeldBy(run) == [is |-> "HeldBy", run |-> run]

\* Mutant of Decide: the grace period is asked about before the occupancy.
DecideGraceFirst(occupancy, mine, waited, grace) ==
  IF waited >= grace THEN "EvictAnonymous"
  ELSE CASE occupancy.is = "Free" -> "Start"
         [] occupancy.is = "HeldAnonymously" -> "Wait"
         [] OTHER -> IF occupancy.run = mine THEN "Wait" ELSE "Evict"

\* Mutant of Decide: a tenant that says who it is is left alone.
DecideTrustsRecords(occupancy, mine, waited, grace) ==
  CASE occupancy.is = "Free" -> "Start"
    [] occupancy.is = "HeldAnonymously" -> IF waited < grace THEN "Wait" ELSE "EvictAnonymous"
    [] OTHER -> "Wait"

\* fn verdict.
Decide(occupancy, mine, waited, grace) ==
  CASE occupancy.is = "Free" -> "Start"
    [] occupancy.is = "HeldAnonymously" -> IF waited < grace THEN "Wait" ELSE "EvictAnonymous"
    [] OTHER -> IF occupancy.run = mine THEN "Wait" ELSE "Evict"
=============================================================================
