----------------------------- MODULE Escalation -----------------------------
(***************************************************************************)
(* Escalation to an operator: a durable ticket first, its delivery to the  *)
(* operators' inbox second, and passes that deliver again what failed.     *)
(* Requests with the same idempotency key, passes of the beat and of the   *)
(* command line, and crashes interleave between the database, the inbox    *)
(* and the row.                                                            *)
(*                                                                         *)
(* services/escalation.py, tasks/outbox_retry_task.py,                     *)
(* scripts/outbox_retry.py, integrations/mock_inbox.py and bitrix.py,      *)
(* api/routers/agent.py.                                                   *)
(***************************************************************************)
EXTENDS Naturals, FiniteSets

CONSTANTS
    Escalators,      \* requests that escalate
    Keys,            \* idempotency keys
    Passes,          \* workers that run retry_failed_deliveries
    Backend,         \* SUPPORT_SINK_BACKEND
    IncludePending,  \* RAG_OUTBOX_RETRY_INCLUDE_PENDING
    MaxRecords       \* bound on the records of one ticket in the inbox

ASSUME EscalationAssumption ==
    /\ Backend \in {"local", "bitrix"}
    /\ IncludePending \in BOOLEAN
    /\ MaxRecords \in Nat \ {0}
    /\ IsFiniteSet(Escalators \cup Passes) /\ Escalators \cap Passes = {}

NoTicket == "no ticket"

VARIABLES
    tickets,     \* per key: delivery_state of the ticket, or NoTicket
    resolved,    \* keys whose ticket an operator has answered
    inbox,       \* per key: records that reached the operators
    escalator,   \* per request: key, step, and the delivery it is about to record
    pass,        \* per worker: step, ticket in hand, state it read, delivery to record
    disturbed    \* history: keys whose delivery was interrupted or overlapped another one

escalationVars == <<tickets, resolved, inbox, escalator, pass, disturbed>>

States == {"pending", "delivered", "failed"}

EscalationInit ==
    /\ tickets = [k \in Keys |-> NoTicket]
    /\ resolved = {}
    /\ inbox = [k \in Keys |-> 0]
    /\ escalator \in [Escalators ->
           [key : Keys, step : {"new"}, outcome : {"pending"}]]
    /\ pass = [p \in Passes |-> [step |-> "idle", listed |-> {}, read |-> "pending",
                           outcome |-> "pending"]]
    /\ disturbed = {}

\* Requests and workers that have the ticket in hand and will write its row.
Holders(k) ==
    {e \in Escalators : escalator[e].key = k /\ escalator[e].step \in {"deliver", "record"}}
        \cup {p \in Passes : pass[p].step \in {"deliver", "record"} /\ k \in pass[p].listed}

Overlap(k) == disturbed' = IF Cardinality(Holders(k)) > 1 THEN disturbed \cup {k} ELSE disturbed

----------------------------------------------------------------------------
(* _deliver_inbox *)

\* The record is appended to the JSONL file of the inbox, or the write fails.
\* BitrixSupportSink.send logs its failures and returns.
SinkOutcomes ==
    IF Backend = "local"
    THEN {[reached |-> TRUE, state |-> "delivered"], [reached |-> FALSE, state |-> "failed"]}
    ELSE {[reached |-> r, state |-> "delivered"] : r \in BOOLEAN}

Deposit(k, o) ==
    /\ o.reached => inbox[k] < MaxRecords
    /\ inbox' = [inbox EXCEPT ![k] = IF o.reached THEN @ + 1 ELSE @]

----------------------------------------------------------------------------
(* create_escalation *)

Escalates(e, s) == escalator' = [escalator EXCEPT ![e].step = s]

\* The key is looked up; an existing ticket is reported as a duplicate.
LookUpKey(e) ==
    /\ escalator[e].step = "new"
    /\ Escalates(e, IF tickets[escalator[e].key] # NoTicket THEN "duplicate" ELSE "insert")
    /\ UNCHANGED <<tickets, resolved, inbox, pass, disturbed>>

\* A lookup that raises counts as one that found nothing.
LookupSkipped(e) ==
    /\ escalator[e].step = "new"
    /\ Escalates(e, "insert")
    /\ UNCHANGED <<tickets, resolved, inbox, pass, disturbed>>

\* uq_escalated_tickets_idempotency_key
KeyTaken(k) == tickets[k] # NoTicket

\* The insert; an exception is reported as an escalation that was not registered.
InsertTicket(e) ==
    LET k == escalator[e].key
    IN  /\ escalator[e].step = "insert"
        /\ IF KeyTaken(k)
           THEN Escalates(e, "refused") /\ UNCHANGED <<tickets, disturbed>>
           ELSE /\ tickets' = [tickets EXCEPT ![k] = "pending"]
                /\ Escalates(e, "deliver")
                /\ UNCHANGED disturbed
        /\ UNCHANGED <<resolved, inbox, pass>>

DatabaseFails(e) ==
    /\ escalator[e].step \in {"new", "insert"}
    /\ Escalates(e, "refused")
    /\ UNCHANGED <<tickets, resolved, inbox, pass, disturbed>>

DeliverTicket(e) ==
    LET k == escalator[e].key
    IN  /\ escalator[e].step = "deliver"
        /\ \E o \in SinkOutcomes :
              /\ Deposit(k, o)
              /\ escalator' = [escalator EXCEPT ![e].step = "record", ![e].outcome = o.state]
        /\ Overlap(k)
        /\ UNCHANGED <<tickets, resolved, pass>>

\* The row gets the outcome, whatever it has become meanwhile.
RecordDelivery(e) ==
    LET k == escalator[e].key
    IN  /\ escalator[e].step = "record"
        /\ tickets' = [tickets EXCEPT ![k] = escalator[e].outcome]
        /\ Escalates(e, escalator[e].outcome)
        /\ Overlap(k)
        /\ UNCHANGED <<resolved, inbox, pass>>

\* The process ends, or the update of the row fails, which is only logged.
LoseEscalator(e) ==
    /\ escalator[e].step \in {"deliver", "record"}
    /\ Escalates(e, "lost")
    /\ disturbed' = IF escalator[e].step = "record" THEN disturbed \cup {escalator[e].key}
                    ELSE disturbed
    /\ UNCHANGED <<tickets, resolved, inbox, pass>>

----------------------------------------------------------------------------
(* retry_failed_deliveries and retry_escalation_delivery *)

Retryable(s) == s = "failed" \/ (IncludePending /\ s = "pending")

Hands(p) == CHOOSE k \in pass[p].listed : TRUE

\* One of the listed tickets: the pass takes them one after the other.
ListFailed(p) ==
    LET found == {k \in Keys : Retryable(tickets[k])}
    IN  /\ pass[p].step = "idle"
        /\ found # {}
        /\ \E k \in found :
              pass' = [pass EXCEPT ![p].step = "check", ![p].listed = {k}]
        /\ UNCHANGED <<tickets, resolved, inbox, escalator, disturbed>>

\* Mutant: a listed ticket is delivered without reading its row again.
StillRetryable_Listed(k) == TRUE

StillRetryable(k) == Retryable(tickets[k])

\* The row is read again: another worker may have delivered it since the listing.
CheckTicket(p) ==
    /\ pass[p].step = "check"
    /\ pass' = [pass EXCEPT ![p] =
           IF StillRetryable(Hands(p)) THEN [@ EXCEPT !.step = "deliver", !.read = tickets[Hands(p)]]
           ELSE [@ EXCEPT !.step = "idle", !.listed = {}]]
    /\ UNCHANGED <<tickets, resolved, inbox, escalator, disturbed>>

DeliverAgain(p) ==
    /\ pass[p].step = "deliver"
    /\ \E o \in SinkOutcomes :
          /\ Deposit(Hands(p), o)
          /\ pass' = [pass EXCEPT ![p].step = "record", ![p].outcome = o.state]
    /\ Overlap(Hands(p))
    /\ UNCHANGED <<tickets, resolved, escalator>>

\* The commit writes the attributes that differ from the row as this session read it.
RecordRetry(p) ==
    /\ pass[p].step = "record"
    /\ tickets' = [tickets EXCEPT ![Hands(p)] =
           IF pass[p].outcome = pass[p].read THEN @ ELSE pass[p].outcome]
    /\ pass' = [pass EXCEPT ![p].step = "idle", ![p].listed = {}]
    /\ Overlap(Hands(p))
    /\ UNCHANGED <<resolved, inbox, escalator>>

LosePass(p) ==
    /\ pass[p].step \in {"check", "deliver", "record"}
    /\ pass' = [pass EXCEPT ![p].step = "idle", ![p].listed = {}]
    /\ disturbed' = IF pass[p].step = "record" THEN disturbed \cup pass[p].listed
                    ELSE disturbed
    /\ UNCHANGED <<tickets, resolved, inbox, escalator>>

----------------------------------------------------------------------------

\* agent_respond_to_ticket: the answer closes the ticket and leaves its delivery alone.
RespondToTicket(k) ==
    /\ tickets[k] # NoTicket
    /\ k \notin resolved
    /\ resolved' = resolved \cup {k}
    /\ UNCHANGED <<tickets, inbox, escalator, pass, disturbed>>

PassStep(p) == ListFailed(p) \/ CheckTicket(p) \/ DeliverAgain(p) \/ RecordRetry(p)

EscalationNext ==
    \/ \E e \in Escalators :
          \/ LookUpKey(e) \/ LookupSkipped(e) \/ InsertTicket(e) \/ DatabaseFails(e)
          \/ DeliverTicket(e) \/ RecordDelivery(e) \/ LoseEscalator(e)
    \/ \E p \in Passes : PassStep(p) \/ LosePass(p)
    \/ \E k \in Keys : RespondToTicket(k)

EscalationSpec == EscalationInit /\ [][EscalationNext]_escalationVars

----------------------------------------------------------------------------
(* Properties *)

EscalationTypeOK ==
    /\ tickets \in [Keys -> States \cup {NoTicket}]
    /\ resolved \in SUBSET Keys
    /\ inbox \in [Keys -> 0..MaxRecords]
    /\ \A e \in Escalators :
          escalator[e].step \in {"new", "insert", "deliver", "record", "duplicate", "refused",
                                 "lost", "delivered", "failed"}
    /\ \A p \in Passes : /\ pass[p].step \in {"idle", "check", "deliver", "record"}
                          /\ pass[p].read \in States
    /\ disturbed \in SUBSET Keys

\* With the local inbox, a ticket whose row says delivered, and a user who was told so, have
\* a record in it; the Bitrix sink keeps its failures to itself (_deliver_inbox).
DeliveredIsInInbox ==
    Backend = "local" =>
    /\ \A k \in Keys : tickets[k] = "delivered" => inbox[k] > 0
    /\ \A e \in Escalators : escalator[e].step = "delivered" => inbox[escalator[e].key] > 0

\* One key, one ticket: whoever is told of a ticket, or delivers one, finds it in the
\* table, and only one of the requests with the same key is its creator.
OneTicketPerKey ==
    /\ \A e \in Escalators :
          escalator[e].step \in {"deliver", "record", "duplicate", "delivered", "failed", "lost"}
              => tickets[escalator[e].key] # NoTicket
    /\ \A e, f \in Escalators :
          /\ e # f /\ escalator[e].key = escalator[f].key
          /\ escalator[e].step \in {"deliver", "record", "delivered", "failed", "lost"}
          => escalator[f].step \in {"new", "insert", "duplicate", "refused"}

\* Operators get a ticket once, unless two deliverers overlapped or one was stopped
\* between the inbox and the row.
OnceUnlessDisturbed == \A k \in Keys : inbox[k] > 1 => k \in disturbed

\* A ticket is made once per key, is there once unless deliverers overlap, and is called
\* delivered only then, if the sink tells (create_escalation, run_outbox_retry_once).
EscalationSafety ==
    /\ EscalationTypeOK
    /\ DeliveredIsInInbox
    /\ OneTicketPerKey
    /\ OnceUnlessDisturbed
=============================================================================
