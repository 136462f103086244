--------------------------- MODULE MCConfigStore ---------------------------
(* Small values: a short one, and a longer one that holds the separator; the
   area has no room for every key. *)
EXTENDS ConfigStore

MCMotorOrder == <<"blSpd", "tOn">>
MCValue      == {"x", "x:y"}
MCKeyLen     == [k \in Key |-> 1]
MCValueLen   == [v \in Value |-> IF v = "x" THEN 1 ELSE IF v = "" THEN 0 ELSE 3]
MCReloaded   == [v \in Value |-> IF v = "" THEN NULL ELSE "x"]
MCEmptyValue == {"x", ""}
=============================================================================
