--------------------------- MODULE SignalLifecycle ---------------------------
(***************************************************************************)
(* What the signal pipeline promises about one news item, whatever the     *)
(* queues, leases, threads and crashes below it do:                        *)
(*                                                                         *)
(*   absent --> pending --> processed       (news_items.signal_status)     *)
(*                                                                         *)
(* "processed" is final, only a processed item is announced (news.updated) *)
(* and shown to the alert rules, which may fail for it, and no pending     *)
(* item is forgotten.                                                      *)
(* SignalDispatch implements this specification.                           *)
(***************************************************************************)
CONSTANT NewsIds

VARIABLES
  status,     \* signal_status of each id, "absent" before it is inserted
  matched,    \* ids whose result has been published and seen by the alert rules
  missed      \* ids whose result has been published, but the alert rules failed

vars == <<status, matched, missed>>

Init ==
  /\ status \in [NewsIds -> {"absent", "pending"}]
  /\ matched = {} /\ missed = {}

\* An ingestion transaction commits the new rows S.
Arrive(S) ==
  /\ \A n \in S : status[n] = "absent"
  /\ status' = [n \in NewsIds |-> IF n \in S THEN "pending" ELSE status[n]]
  /\ UNCHANGED <<matched, missed>>

\* A pipeline transaction commits the results of the batch S. A batch may name
\* items that are already processed: their status does not change again.
Process(S) ==
  /\ \A n \in S : status[n] # "absent"
  /\ status' = [n \in NewsIds |-> IF n \in S THEN "processed" ELSE status[n]]
  /\ UNCHANGED <<matched, missed>>

Announce(S) ==
  /\ \A n \in S : status[n] = "processed"
  /\ \/ matched' = matched \cup S /\ UNCHANGED missed
     \/ missed' = missed \cup S /\ UNCHANGED matched
  /\ UNCHANGED status

Next == \E S \in SUBSET NewsIds : Arrive(S) \/ Process(S) \/ Announce(S)

\* Every item that stays pending is part of some batch that commits.
ProcessedEventually ==
  \A n \in NewsIds : WF_vars(status[n] = "pending" /\ \E S \in SUBSET NewsIds : n \in S /\ Process(S))

Spec == Init /\ [][Next]_vars /\ ProcessedEventually
=============================================================================
