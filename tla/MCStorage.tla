----------------------------- MODULE MCStorage ------------------------------
(***************************************************************************)
(* DurableStorage for TLC, and the store it implements.                    *)
(***************************************************************************)
EXTENDS DurableStorage

AllFaults == (SUBSET Kinds) \ {{}}
MixedFaults == {Kinds}

(* The store's state: in memory while the node runs, and otherwise what    *)
(* the next boot will read.  A behaviour that mixes kills and outages maps *)
(* to the store that never moves: it does not implement one (AcksSurvive). *)
Mixed == faults = Kinds
Running == pc \notin {"boot", "opened", "replay", "refused"} /\ call.op # "replay"
Store == INSTANCE AtomicStore WITH
    Batch <- Batches,
    log <- IF Mixed THEN <<>> ELSE IF Running THEN entries ELSE Replay(page).es,
    pair <- IF Mixed THEN 0 ELSE IF Running THEN saved ELSE IF meta < 0 THEN 0 ELSE meta,
    asked <- IF Mixed \/ ~Running THEN NoCall ELSE call

(* With one kind of crash, append(), truncateSuffixFrom() and save() are   *)
(* atomic and durable when they return, whatever a crash interrupts.       *)
ImplementsAtomicStore == Store!Spec
=============================================================================
