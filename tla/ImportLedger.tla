---------------------------- MODULE ImportLedger ----------------------------
(***************************************************************************)
(* What brownfield import promises its users, without databases, outbox or *)
(* processes: a run is imported once, accepted or refused by validation,   *)
(* committed only when accepted, published only when committed, and a      *)
(* committed run is never taken back.                                      *)
(***************************************************************************)
CONSTANTS
    Run,     \* import runs
    File,    \* file contents
    Nothing, \* no file yet
    Quality  \* what validation says of each file

VARIABLES
    phase,   \* how far each run is
    content  \* the file each run stands for

ledgerVars == <<phase, content>>

Init ==
    /\ phase = [r \in Run |-> "none"]
    /\ content = [r \in Run |-> Nothing]

Import(r, f) ==
    /\ phase[r] = "none"
    /\ phase' = [phase EXCEPT ![r] = "imported"]
    /\ content' = [content EXCEPT ![r] = f]

Validate(r) ==
    /\ phase[r] \in {"imported", "accepted", "refused"}
    /\ phase' = [phase EXCEPT ![r] =
                   IF Quality[content[r]] = "fail" THEN "refused" ELSE "accepted"]
    /\ UNCHANGED content

Commit(r) ==
    /\ phase[r] = "accepted"
    /\ phase' = [phase EXCEPT ![r] = "committed"]
    /\ UNCHANGED content

Publish(r) ==
    /\ phase[r] = "committed"
    /\ phase' = [phase EXCEPT ![r] = "published"]
    /\ UNCHANGED content

Next ==
    \E r \in Run :
       \/ \E f \in File : Import(r, f)
       \/ Validate(r)
       \/ Commit(r)
       \/ Publish(r)

Spec == Init /\ [][Next]_ledgerVars
=============================================================================
