--------------------------- MODULE ExecutionLicense ---------------------------
(***************************************************************************)
(* What the approval workflow promises: the license to execute one         *)
(* decision.  It is requested, then granted or refused; a granted license  *)
(* is spent by one executor or refused for good; the executor that spent   *)
(* it may run the operation once.                                          *)
(***************************************************************************)
CONSTANTS Decisions, Executors, LegacyPending, LegacyApproved

VARIABLES phase, ran

lvars == <<phase, ran>>

Init ==
    /\ phase = [d \in Decisions |->
                  IF d \in LegacyPending THEN "pending"
                  ELSE IF d \in LegacyApproved THEN "refused" ELSE "absent"]
    /\ ran = [d \in Decisions |-> {}]

Move(d, from, to) ==
    /\ phase[d] = from
    /\ phase' = [phase EXCEPT ![d] = to]
    /\ UNCHANGED ran

Request(d) == Move(d, "absent", "pending")
GrantLicense(d) == Move(d, "pending", "granted")
Spend(d) == Move(d, "granted", "spent")
Lapse(d) == Move(d, "granted", "refused")

\* A rejection refuses one pending license, a sweep several at once.
Refuse(D) ==
    /\ \A d \in D : phase[d] = "pending"
    /\ phase' = [d \in Decisions |-> IF d \in D THEN "refused" ELSE phase[d]]
    /\ UNCHANGED ran

Run(d, e) ==
    /\ phase[d] = "spent"
    /\ ran[d] = {}
    /\ ran' = [ran EXCEPT ![d] = {e}]
    /\ UNCHANGED phase

Next ==
    \/ \E d \in Decisions : Request(d) \/ GrantLicense(d) \/ Spend(d) \/ Lapse(d)
    \/ \E D \in SUBSET Decisions : Refuse(D)
    \/ \E d \in Decisions, e \in Executors : Run(d, e)

Spec == Init /\ [][Next]_lvars
=============================================================================
