---------------------------- MODULE MCLifecycle ----------------------------
(* Instances of Lifecycle for TLC: every answer of the user and every        *)
(* trigger a model may ask for.                                              *)
EXTENDS Lifecycle

AnyAnswer  == UserAction
AnyTrigger == Trigger
=============================================================================
