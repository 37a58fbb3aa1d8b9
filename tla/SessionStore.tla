---------------------------- MODULE SessionStore ----------------------------
(***************************************************************************)
(* Where a conversation lives: an object in the memory of the API process  *)
(* and a row with its messages in the database.  A failing database puts   *)
(* all its readers into a cooldown.  Asks, deletions and readings of the   *)
(* history interleave at every await of a query.                           *)
(*                                                                         *)
(* api/app.py (_get_or_create_session, _cleanup_sessions),                 *)
(* api/routers/session_auth.py, api/routers/conversation.py                *)
(* (_persist_ask_messages), api/_shared.py.                                *)
(***************************************************************************)
EXTENDS Naturals, FiniteSets

CONSTANTS
    Visits,      \* requests to /api/ask; a visit also names its question and answer
    Removals,    \* requests to DELETE /sessions/{id}
    Owners,      \* tenants
    Ids          \* session ids

Nobody == "nobody"

ASSUME SessionStoreAssumption == Nobody \notin Owners \cup Visits

\* Answers a request may end with.
Refusals == {"404", "503"}

VARIABLES
    visit,     \* per ask: its tenant, session id, step, object and what it read
    removal,   \* per deletion: its tenant, session id, step and whether it found anything
    objects,   \* _session_llm_state: the conversation object under each id
    rows,      \* table sessions: the tenant of each id
    stored,    \* table messages: the visits persisted under each id
    cooling,   \* time.monotonic() < _db_retry_after
    erased     \* history: visits deleted by a removal that nothing disturbed

storeVars == <<visit, removal, objects, rows, stored, cooling, erased>>

NoObject == [owner |-> Nobody, made |-> Nobody, turns |-> {}]

StoreInit ==
    /\ visit \in [Visits -> [owner : Owners, id : Ids, step : {"new"}, supplied : BOOLEAN,
                             found : {Nobody}, verified : {FALSE}, object : {Nobody},
                             seen : {{}}]]
    /\ removal \in [Removals -> [owner : Owners, id : Ids, step : {"new"}, found : {FALSE},
                                 hex : BOOLEAN, quiet : {TRUE}, target : {{}}]]
    /\ objects = [i \in Ids |-> NoObject]
    /\ rows = [i \in Ids |-> Nobody]
    /\ stored = [i \in Ids |-> {}]
    /\ cooling = FALSE
    /\ erased = {}

Under(i) == {v \in Visits : visit[v].id = i}

Running(v) == visit[v].step \notin {"new", "done"} \cup Refusals

\* A step of an ask disturbs the deletions of the same session that are under way.
Disturb(i) ==
    removal' = [d \in Removals |->
        IF removal[d].id = i /\ removal[d].step # "new"
        THEN [removal[d] EXCEPT !.quiet = FALSE] ELSE removal[d]]

Advance(v, s) == visit' = [visit EXCEPT ![v].step = s]

----------------------------------------------------------------------------
(* _get_or_create_session *)

\* The id a server makes up is new: no other request has it and nothing is stored.
FreshId(v) ==
    /\ rows[visit[v].id] = Nobody
    /\ objects[visit[v].id] = NoObject
    /\ \A w \in Under(visit[v].id) \ {v} : visit[w].step = "new"

\* During the cooldown the database is not asked.
BeginAsk(v) ==
    /\ visit[v].step = "new"
    /\ visit[v].supplied \/ FreshId(v)
    /\ Advance(v, IF cooling THEN "attach" ELSE "lookup")
    /\ Disturb(visit[v].id)
    /\ UNCHANGED <<objects, rows, stored, cooling, erased>>

\* Mutant: the id is looked up without its tenant.
OwnedRow_AnyTenant(v) == rows[visit[v].id] # Nobody

\* The row of the id belongs to the caller.
OwnedRow(v) == rows[visit[v].id] = visit[v].owner

\* Both select statements; a row of another tenant ends the request.
LookUpOwner(v) ==
    /\ visit[v].step = "lookup"
    /\ IF rows[visit[v].id] # Nobody /\ ~OwnedRow(v)
       THEN Advance(v, "404")
       ELSE visit' = [visit EXCEPT ![v].step = "commit", ![v].found = rows[visit[v].id]]
    /\ UNCHANGED <<removal, objects, rows, stored, cooling, erased>>

\* INSERT fails if another request was first, UPDATE if the row has gone meanwhile:
\* either is an exception like any other and starts the cooldown.
CommitRow(v) ==
    /\ visit[v].step = "commit"
    /\ IF rows[visit[v].id] = visit[v].found
       THEN /\ rows' = [rows EXCEPT ![visit[v].id] = visit[v].owner]
            /\ Advance(v, "history")
            /\ UNCHANGED cooling
       ELSE /\ cooling' = TRUE
            /\ Advance(v, "attach")
            /\ UNCHANGED rows
    /\ UNCHANGED <<removal, objects, stored, erased>>

\* A query fails or takes longer than db_persist_timeout_sec.
LookupFails(v) ==
    /\ visit[v].step \in {"lookup", "commit", "history"}
    /\ cooling' = TRUE
    /\ Advance(v, "attach")
    /\ UNCHANGED <<removal, objects, rows, stored, erased>>

\* tenant_access_allowed on the object in memory
AccessAllowed(o, owner) == o.owner \in {Nobody, owner}

\* The rest is one step of the event loop: check the object in memory, refuse what the
\* caller supplied and nothing verified, or take or make the object.
Attach(v, history, verified) ==
    LET i == visit[v].id
        o == objects[i]
        made == IF o = NoObject
                THEN [owner |-> visit[v].owner, made |-> v, turns |-> history] ELSE o
    IN  CASE ~AccessAllowed(o, visit[v].owner) ->
                Advance(v, "404") /\ UNCHANGED objects
          [] /\ AccessAllowed(o, visit[v].owner)
             /\ visit[v].supplied /\ ~verified
             /\ o.owner # visit[v].owner -> Advance(v, "503") /\ UNCHANGED objects
          [] OTHER ->
                /\ objects' = [objects EXCEPT ![i] = made]
                /\ visit' = [visit EXCEPT ![v].step = "run", ![v].object = made.made,
                                          ![v].seen = made.turns]

\* The messages of the session are read and the object is taken with them.
LoadHistory(v) ==
    /\ visit[v].step = "history"
    /\ Attach(v, IF OwnedRow(v) THEN stored[visit[v].id] ELSE {}, TRUE)
    /\ cooling' = FALSE
    /\ UNCHANGED <<removal, rows, stored, erased>>

AttachUnverified(v) ==
    /\ visit[v].step = "attach"
    /\ Attach(v, {}, FALSE)
    /\ UNCHANGED <<removal, rows, stored, cooling, erased>>

----------------------------------------------------------------------------
(* The turn, and _persist_ask_messages *)

\* The turn ends in the object the request holds; an object that clear() emptied or
\* that is no longer in memory is of no use to later requests.
EndTurn(v) ==
    /\ visit[v].step = "run"
    /\ objects' = [objects EXCEPT ![visit[v].id].turns =
                      IF objects[visit[v].id].made = visit[v].object THEN @ \cup {v} ELSE @]
    /\ Advance(v, "persist")
    /\ UNCHANGED <<removal, rows, stored, cooling, erased>>

\* Written only under a row of the caller's tenant, and not during the cooldown.
PersistMessages(v) ==
    /\ visit[v].step = "persist"
    /\ stored' = [stored EXCEPT ![visit[v].id] =
                     IF ~cooling /\ OwnedRow(v) THEN @ \cup {v} ELSE @]
    /\ Advance(v, "done")
    /\ UNCHANGED <<removal, objects, rows, cooling, erased>>

PersistFails(v) ==
    /\ visit[v].step = "persist"
    /\ ~cooling
    /\ cooling' = TRUE
    /\ Advance(v, "done")
    /\ UNCHANGED <<removal, objects, rows, stored, erased>>

----------------------------------------------------------------------------
(* clear_session *)

\* The object is looked up by the id as the caller spelled it; objects are filed under
\* the hexadecimal form.
RemoveObject(d) ==
    LET i == removal[d].id
        o == objects[i]
        hit == removal[d].hex /\ o # NoObject /\ AccessAllowed(o, removal[d].owner)
    IN  /\ removal[d].step = "new"
        /\ objects' = [objects EXCEPT ![i] = IF hit THEN NoObject ELSE @]
        /\ removal' = [removal EXCEPT
               ![d].step = IF cooling THEN "answer" ELSE "delete",
               ![d].found = hit,
               ![d].quiet = removal[d].hex /\ ~cooling /\ \A v \in Under(i) : ~Running(v),
               ![d].target = {v \in Under(i) : visit[v].step = "done"
                                                /\ visit[v].owner = removal[d].owner}]
        /\ UNCHANGED <<visit, rows, stored, cooling, erased>>

\* ON DELETE CASCADE of the messages
DeleteMessages(i) == stored' = [stored EXCEPT ![i] = {}]

DeleteRow(d) ==
    LET i == removal[d].id
        hit == rows[i] = removal[d].owner
    IN  /\ removal[d].step = "delete"
        /\ IF hit
           THEN rows' = [rows EXCEPT ![i] = Nobody] /\ DeleteMessages(i)
           ELSE UNCHANGED <<rows, stored>>
        /\ removal' = [removal EXCEPT ![d].step = "answer", ![d].found = @ \/ hit]
        /\ cooling' = FALSE
        /\ UNCHANGED <<visit, objects, erased>>

DeleteFails(d) ==
    /\ removal[d].step = "delete"
    /\ cooling' = TRUE
    /\ removal' = [removal EXCEPT ![d].step = "answer", ![d].quiet = FALSE]
    /\ UNCHANGED <<visit, objects, rows, stored, erased>>

\* "Session cleared", or 404 when neither memory nor database had it.
AnswerRemoval(d) ==
    /\ removal[d].step = "answer"
    /\ removal' = [removal EXCEPT ![d].step = IF removal[d].found THEN "done" ELSE "404"]
    /\ erased' = IF removal[d].found /\ removal[d].quiet THEN erased \cup removal[d].target
                 ELSE erased
    /\ UNCHANGED <<visit, objects, rows, stored, cooling>>

----------------------------------------------------------------------------
(* get_session_history, list_sessions *)

\* What either source may show of a session to a tenant.
Shown(i, owner) ==
    (IF rows[i] = owner THEN stored[i] ELSE {})
    \cup (IF AccessAllowed(objects[i], owner) THEN objects[i].turns ELSE {})

\* A reader's query that ends well ends the cooldown, also one that began after it; one
\* that fails starts it.  Readers change nothing else.
ReadHistory ==
    /\ cooling' \in BOOLEAN
    /\ UNCHANGED <<visit, removal, objects, rows, stored, erased>>

----------------------------------------------------------------------------
(* _cleanup_sessions *)

\* The object is forgotten session_ttl_seconds after the last request took it, also while
\* that request's turn still runs in it.
EvictIdle(i) ==
    /\ objects[i] # NoObject
    /\ objects' = [objects EXCEPT ![i] = NoObject]
    /\ UNCHANGED <<visit, removal, rows, stored, cooling, erased>>

\* A minute passes.
CooldownEnds ==
    /\ cooling
    /\ cooling' = FALSE
    /\ UNCHANGED <<visit, removal, objects, rows, stored, erased>>

StoreNext ==
    \/ \E v \in Visits :
          \/ BeginAsk(v) \/ LookUpOwner(v) \/ CommitRow(v) \/ LookupFails(v)
          \/ LoadHistory(v) \/ AttachUnverified(v) \/ EndTurn(v)
          \/ PersistMessages(v) \/ PersistFails(v)
    \/ \E d \in Removals :
          RemoveObject(d) \/ DeleteRow(d) \/ DeleteFails(d) \/ AnswerRemoval(d)
    \/ \E i \in Ids : EvictIdle(i)
    \/ ReadHistory \/ CooldownEnds

StoreSpec == StoreInit /\ [][StoreNext]_storeVars

----------------------------------------------------------------------------
(* Properties *)

StoreTypeOK ==
    /\ \A v \in Visits :
          /\ visit[v].step \in {"new", "lookup", "commit", "history", "attach", "run",
                                "persist", "done"} \cup Refusals
          /\ visit[v].seen \subseteq Visits
          /\ visit[v].object \in Visits \cup {Nobody}
    /\ \A d \in Removals :
          removal[d].step \in {"new", "delete", "answer", "done", "404"}
    /\ \A i \in Ids : objects[i].owner \in Owners \cup {Nobody}
    /\ rows \in [Ids -> Owners \cup {Nobody}]
    /\ stored \in [Ids -> SUBSET Visits]
    /\ cooling \in BOOLEAN
    /\ erased \in SUBSET Visits

\* An ask reads only turns of its own tenant, through memory and database, cooldowns,
\* evictions, deletions and reuse of an id by another tenant.
OwnHistoryOnly ==
    \A v \in Visits : \A w \in visit[v].seen : visit[w].owner = visit[v].owner

\* Whoever reads a session's history is shown turns of its own tenant only, whichever of
\* the two sources answers, also when memory and database disagree about the owner.
ShownToOwner ==
    \A i \in Ids, o \in Owners : \A w \in Shown(i, o) : visit[w].owner = o

\* The messages under an id belong to the tenant of its row, also when a persist ends
\* long after its lookup and the row was deleted and made anew meanwhile.
MessagesOfRowOwner ==
    \A i \in Ids : \A v \in stored[i] : visit[v].owner = rows[i]

\* An ask never runs in an object of another tenant, although the object under its id
\* may be deleted, evicted and made anew while its queries are under way.
RunsInOwnObject ==
    \A v \in Visits :
        visit[v].step \in {"run", "persist"} /\ objects[visit[v].id].made = visit[v].object
            => objects[visit[v].id].owner = visit[v].owner

\* A deletion that reaches both stores while no ask of the session is under way erases
\* its turns for good: neither memory nor database shows them to a later ask.
ErasedStaysErased ==
    \A i \in Ids : (objects[i].turns \cup stored[i]) \cap erased = {}

\* Sessions stay with their tenant, in memory and in the database, and what a deletion has
\* erased stays erased (_get_or_create_session, clear_session).
StoreSafety ==
    /\ StoreTypeOK
    /\ OwnHistoryOnly
    /\ ShownToOwner
    /\ MessagesOfRowOwner
    /\ RunsInOwnObject
    /\ ErasedStaysErased
=============================================================================
