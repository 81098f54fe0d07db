---------------------------- MODULE DurableAction ----------------------------
(***************************************************************************)
(* What the execution boundary promises its callers, whatever number of    *)
(* calls race, retry or die with their process: an idempotency key names   *)
(* one action, which touches the world at most once, only after it has     *)
(* been started for good, and never once it has been denied; and every     *)
(* answer a caller gets is a fact about that one action.                   *)
(***************************************************************************)
CONSTANTS Keys, Calls

VARIABLES
    phase,       \* Keys -> how far the action of the key has come
    performers,  \* Keys -> the calls that touched the world for it
    answers      \* the answers given so far: <<call, key, answer>>

avars == <<phase, performers, answers>>

Phases == {"absent", "open", "denied", "started", "succeeded", "failed"}

\* The answers that are true of an action in phase p.
TrueOf(p) ==
    {"rejected"} \union
    CASE p = "open" -> {"approval_required"}
      [] p = "denied" -> {"denied"}
      [] p = "started" -> {"reconciliation_required"}
      [] p = "succeeded" -> {"result"}
      [] p = "failed" -> {"error", "reconciliation_required"}
      [] OTHER -> {}

AInit ==
    /\ phase = [k \in Keys |-> "absent"]
    /\ performers = [k \in Keys |-> {}]
    /\ answers = {}

Advance(k, from, to) ==
    /\ phase[k] = from
    /\ phase' = [phase EXCEPT ![k] = to]
    /\ UNCHANGED <<performers, answers>>

Request(k) == Advance(k, "absent", "open")
Deny(k) == Advance(k, "open", "denied")
Start(k) == Advance(k, "open", "started")
Succeed(k) == performers[k] # {} /\ Advance(k, "started", "succeeded")
Break(k) == Advance(k, "started", "failed")

Perform(c, k) ==
    /\ phase[k] = "started"
    /\ performers[k] = {}
    /\ performers' = [performers EXCEPT ![k] = {c}]
    /\ UNCHANGED <<phase, answers>>

\* A call gets one answer, true at that moment.
Answer(c, k) ==
    /\ \A given \in answers : given[1] # c
    /\ \E a \in TrueOf(phase[k]) : answers' = answers \union {<<c, k, a>>}
    /\ UNCHANGED <<phase, performers>>

ANext == \E k \in Keys :
            \/ Request(k) \/ Deny(k) \/ Start(k) \/ Succeed(k) \/ Break(k)
            \/ \E c \in Calls : Perform(c, k) \/ Answer(c, k)

ASpec == AInit /\ [][ANext]_avars

=============================================================================
