------------------------- MODULE NotificationPromise -------------------------
(***************************************************************************)
(* What the outbox promises of each notification, without tables, batches, *)
(* clocks, retries or crashes: a notification is registered once; it is    *)
(* mailed only by a transmission that began while it was waiting; one      *)
(* transmission runs at a time; it is reported as mailed only after the    *)
(* mail server accepted it; and once settled or removed it stays so.       *)
(* AlertDelivery implements this specification (DeliversAsPromised).       *)
(***************************************************************************)
EXTENDS Naturals

CONSTANTS Intents, Null

VARIABLES
    fate,          \* what became of each notification
    mock,          \* the notifications registered in mock mode
    transmission,  \* the notification being transmitted, or Null
    accepted       \* how often the mail server accepted it

vars == <<fate, mock, transmission, accepted>>

Settled == {"succeeded", "failed", "skipped"}

Init ==
    /\ fate = [i \in Intents |-> "unregistered"]
    /\ mock = {}
    /\ transmission = Null
    /\ accepted = [i \in Intents |-> 0]

(* Queued for delivery, or settled on the spot because it cannot be sent.  *)
Register(i) ==
    /\ fate[i] = "unregistered"
    /\ \E f \in {"waiting", "failed", "skipped"} : fate' = [fate EXCEPT ![i] = f]
    /\ mock' \in {mock, mock \cup {i}}
    /\ UNCHANGED <<transmission, accepted>>

Begin(i) ==
    /\ fate[i] = "waiting" /\ transmission = Null
    /\ transmission' = i
    /\ UNCHANGED <<fate, mock, accepted>>

End(i) ==
    /\ transmission = i
    /\ transmission' = Null
    /\ accepted' \in {accepted, [accepted EXCEPT ![i] = @ + 1]}
    /\ accepted' # accepted => i \notin mock
    /\ UNCHANGED <<fate, mock>>

Settle(i) ==
    /\ fate[i] = "waiting"
    /\ \E f \in Settled :
          /\ f = "succeeded" => accepted[i] > 0 \/ i \in mock
          /\ fate' = [fate EXCEPT ![i] = f]
    /\ UNCHANGED <<mock, transmission, accepted>>

(* Deleted by an administrator, alone or with its rule's history, or purged. *)
Remove ==
    /\ \E S \in SUBSET {i \in Intents : fate[i] # "unregistered"} :
          fate' = [i \in Intents |-> IF i \in S THEN "removed" ELSE fate[i]]
    /\ UNCHANGED <<mock, transmission, accepted>>

Next ==
    \/ \E i \in Intents : Register(i) \/ Begin(i) \/ End(i) \/ Settle(i)
    \/ Remove

Spec == Init /\ [][Next]_vars
=============================================================================
