------------------------ MODULE MCIncrementalBuild ------------------------
(* Instances of IncrementalBuild for TLC: two headers, the extension api,  *)
(* at most MaxStamp contents each.                                         *)
EXTENDS IncrementalBuildInv

CONSTANTS a, b, api, tApi, tA, tB, tC

(* b's type is renamed by its second content.                              *)
DisjointTypes == [i \in Inputs |-> [v \in 1 .. MaxStamp |->
    IF i = Api THEN {tApi} ELSE IF i = a THEN {tA} ELSE IF v = 1 THEN {tB} ELSE {tC}]]

(* The first content of a is rejected by the generators, the second of b   *)
(* cannot be parsed.                                                       *)
SomeBroken == [i \in Inputs |-> [v \in 1 .. MaxStamp |->
    IF i = a /\ v = 1 THEN "rejected"
    ELSE IF i = b /\ v = 2 THEN "unparsable" ELSE "ok"]]

AllOk == [i \in Inputs |-> [v \in 1 .. MaxStamp |-> "ok"]]

EveryPc == Pcs \ {"idle"}
BeforeLastWrite == Pcs \ {"idle", "save generated_from"}
===========================================================================
