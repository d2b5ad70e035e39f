--------------------------- MODULE BuildContract ---------------------------
(***************************************************************************)
(* What the generate program promises its caller, whatever it remembers    *)
(* between runs (docs/cli/generate.rst): code is only ever generated from  *)
(* a source as it is, code may be discarded at any time, and a run         *)
(* completes only when every source there is has its code.                 *)
(***************************************************************************)
EXTENDS Naturals

CONSTANT Sources

VARIABLES
    src,    \* src[s]: which content the source has, 0 if there is none
    out,    \* out[s]: which content the generated code is of, 0 if there is none
    phase   \* of the tool

vars == <<src, out, phase>>

Init ==
    /\ src \in [Sources -> Nat]
    /\ out = [s \in Sources |-> 0]
    /\ phase = "idle"

Change ==
    /\ phase = "idle"
    /\ src' \in [Sources -> Nat]
    /\ UNCHANGED <<out, phase>>

Begin == phase = "idle" /\ phase' = "running" /\ UNCHANGED <<src, out>>

Produce ==
    /\ phase = "running"
    /\ \E s \in Sources : src[s] # 0 /\ out' = [out EXCEPT ![s] = src[s]]
    /\ UNCHANGED <<src, phase>>

Discard ==
    /\ phase # "complete"
    /\ \E S \in SUBSET Sources : out' = [s \in Sources |-> IF s \in S THEN 0 ELSE out[s]]
    /\ UNCHANGED <<src, phase>>

Complete ==
    /\ phase = "running"
    /\ \A s \in Sources : src[s] # 0 => out[s] = src[s]
    /\ phase' = "complete"
    /\ UNCHANGED <<src, out>>

Stop == phase # "idle" /\ phase' = "idle" /\ UNCHANGED <<src, out>>

Next == Change \/ Begin \/ Produce \/ Discard \/ Complete \/ Stop

Spec == Init /\ [][Next]_vars

===========================================================================
