------------------------------ MODULE MCTraining ------------------------------
(* Instances of Training for TLC. *)
EXTENDS Training, TLC

(* In order, but for dispatches that race, and datasets that change and jobs *)
(* that are lost; jobs overlap; writes fail; processes stop.                 *)
MCProfiles == {{}, {"race"}, {"upload", "lost"}, {"overlap"}, {"artifact"}, {"stop"}}

(* Three jobs in order, two otherwise; metrics that differ only where        *)
(* retrainings are compared with what is served.                             *)
MCBound == [p \in MCProfiles |-> [jobs      |-> IF p = {} THEN 3 ELSE 2,
                                  rollbacks |-> IF p \in {{}, {"stop"}, {"artifact"}} THEN 1 ELSE 0,
                                  quality   |-> IF p \in {{}, {"upload", "lost"}} THEN 1 ELSE 0]]
=============================================================================
