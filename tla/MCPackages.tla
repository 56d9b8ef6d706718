----------------------------- MODULE MCPackages -----------------------------
(* Instances of Packages for TLC. *)
EXTENDS Packages

CONSTANTS f, g
MCFiles == {f, g}

MCPrograms == {{}, AllFeatures \ {"race"}, {"race", "broken", "fail"}, AllFeatures}
MCRaces == {{"race", "report"}}
MCFails == {{"report", "fail"}}
MCNests == {{"nested"}}
=============================================================================
