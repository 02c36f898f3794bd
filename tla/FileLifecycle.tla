--------------------------- MODULE FileLifecycle ---------------------------
(***************************************************************************)
(* What the registry promises about the life of a file record, whatever    *)
(* requests, failures and crashes there are: an id is reserved once, its   *)
(* upload is decided once (published or failed), a failed upload is never  *)
(* published later, and a deleted record never comes back.  A published    *)
(* record may still be withdrawn as failed: the upload may not have        *)
(* learned that it succeeded.                                              *)
(***************************************************************************)
CONSTANT FileIds

VARIABLE life

Reserve(f) ==
  /\ life[f] = "unused"
  /\ life' = [life EXCEPT ![f] = "reserved"]

Publish(f) ==
  /\ life[f] = "reserved"
  /\ life' = [life EXCEPT ![f] = "published"]

Fail(f) ==
  /\ life[f] \in {"reserved", "published"}
  /\ life' = [life EXCEPT ![f] = "failed"]

\* One delete may take any number of records.
Delete(F) ==
  /\ \A f \in F : life[f] \in {"reserved", "published", "failed"}
  /\ life' = [f \in FileIds |-> IF f \in F THEN "deleted" ELSE life[f]]

Init == life = [f \in FileIds |-> "unused"]

Next ==
  \/ \E f \in FileIds : Reserve(f) \/ Publish(f) \/ Fail(f)
  \/ \E F \in SUBSET FileIds : Delete(F)

Spec == Init /\ [][Next]_life
=============================================================================
