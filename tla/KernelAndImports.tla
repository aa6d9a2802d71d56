-------------------------- MODULE KernelAndImports --------------------------
(***************************************************************************)
(* The orchestration kernel beside the imports that fill the stores it     *)
(* reads from.  They share no state: the initial state chooses the kernel, *)
(* or one of two settings of Brownfield, "one" with the constants Alone,   *)
(* where processes commit one at a time, and "fresh" with the constants    *)
(* Together, and only the chosen one moves.                                *)
(***************************************************************************)
EXTENDS Kernel

CONSTANTS
    Component,       \* the components that are looked at
    Alone, Together, \* the constants of Brownfield, by their names
    Nothing

VARIABLES which,
    runs, bundles, outbox, contexts, place, job, faults

brownfield == <<runs, bundles, outbox, contexts, place, job, faults>>
allVars == <<which, vars, brownfield>>

One == INSTANCE BrownfieldProofs WITH
    Run <- Alone.Run, File <- Alone.File, Base <- Alone.Base, Worker <- Alone.Worker,
    Quality <- Alone.Quality, MaxVersion <- Alone.MaxVersion, MaxFaults <- Alone.MaxFaults,
    pc <- place

Fresh == INSTANCE Brownfield WITH
    Run <- Together.Run, File <- Together.File, Base <- Together.Base, Worker <- Together.Worker,
    Quality <- Together.Quality, MaxVersion <- Together.MaxVersion,
    MaxFaults <- Together.MaxFaults, pc <- place

\* What Brownfield assumes of its constants; "one" process is what PublishedIsWhatWasCommitted
\* needs, as two may plan the same version.
ASSUME AloneAssumption ==
    /\ One!OneWorker
    /\ Nothing \notin Alone.Run \cup Alone.File \cup Alone.Base
    /\ Alone.Quality \in [Alone.File -> One!Decision]
    /\ Alone.MaxVersion \in Nat /\ Alone.MaxFaults \in Nat
ASSUME TogetherAssumption ==
    /\ Nothing \notin Together.Run \cup Together.File \cup Together.Base
    /\ Together.Quality \in [Together.File -> Fresh!Decision]
    /\ Together.MaxVersion \in Nat /\ Together.MaxFaults \in Nat

AllInit ==
    /\ which \in Component
    /\ Init
    /\ IF which = "fresh" THEN Fresh!Init ELSE One!Init

AllNext ==
    \/ which = "kernel" /\ Next /\ UNCHANGED <<which, brownfield>>
    \/ which = "one" /\ One!Next /\ UNCHANGED <<which, vars>>
    \/ which = "fresh" /\ Fresh!Next /\ UNCHANGED <<which, vars>>

AllSpec == AllInit /\ [][AllNext]_allVars

\* As in the components: a call of the kernel proceeds, a process that is not killed goes on, and
\* the outbox is reconciled again and again.
FairAllSpec ==
    /\ AllSpec
    /\ WF_allVars(which = "kernel" /\ Proceed /\ UNCHANGED <<which, brownfield>>)
    /\ \A w \in Together.Worker :
         /\ WF_allVars(which = "fresh" /\ Fresh!Advance(w) /\ UNCHANGED <<which, vars>>)
         /\ SF_allVars(which = "fresh" /\ Fresh!ReconcileAll(w) /\ UNCHANGED <<which, vars>>)

\* What a run is marked as published with is in the context of that version, if processes commit
\* one at a time (brownfield/commit.py, outbox.py, focal_actor_context_store.py save).
PublishedIsWhatWasCommitted == which = "one" => One!PublishedIsWhatWasCommitted

\* A committed run is published in the end, if nobody else commits to its context
\* (brownfield/outbox.py reconcile).
CommittedGetsPublished == which = "fresh" => Fresh!CommittedGetsPublished
=============================================================================
