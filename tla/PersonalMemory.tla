--------------------------- MODULE PersonalMemory ---------------------------
(***************************************************************************)
(* What a memory provider promises, whatever keeps the claims: a claim is  *)
(* recorded once and never comes back; it leaves the active ones because   *)
(* the user retracts it, because a new claim corrects it, or because an    *)
(* active claim that says the same stays in its place.                     *)
(*                                                                         *)
(* The contract is packages/knowledge/src/memory.ts; Memory implements it  *)
(* over the memory stream, Learning uses it as its memory.                 *)
(***************************************************************************)
EXTENDS FiniteSets

CONSTANTS
  Ids,      \* claim ids
  Says      \* Says[c]: kind, subject and normalized statement of claim c

VARIABLE
  status    \* status[c]: none, or the status of the recorded claim c

Statuses == {"none", "active", "superseded", "retracted"}

Active == {c \in Ids : status[c] = "active"}

Init == status = [c \in Ids |-> "none"]

(* ingest: new claims, each of which may correct active ones. *)
Record(new, corrected) ==
  /\ new # {}
  /\ \A c \in new : status[c] = "none"
  /\ corrected \subseteq Active
  /\ status' = [c \in Ids |-> CASE c \in new -> "active"
                                [] c \in corrected -> "superseded"
                                [] OTHER -> status[c]]

(* consolidate: claims go for which an active one with the same statement stays. *)
Merge(gone) ==
  /\ gone # {}
  /\ gone \subseteq Active
  /\ \A g \in gone : \E kept \in Active \ gone : Says[kept] = Says[g]
  /\ status' = [c \in Ids |-> IF c \in gone THEN "superseded" ELSE status[c]]

(* retract: the user forgets a claim; its record is kept. *)
Retract(c) ==
  /\ status[c] # "none"
  /\ status' = [status EXCEPT ![c] = "retracted"]

Next ==
  \/ \E new, corrected \in SUBSET Ids : Record(new, corrected)
  \/ \E gone \in SUBSET Ids : Merge(gone)
  \/ \E c \in Ids : Retract(c)

Spec == Init /\ [][Next]_status
=============================================================================
