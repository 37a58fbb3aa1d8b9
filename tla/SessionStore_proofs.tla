------------------------ MODULE SessionStore_proofs ------------------------
(***************************************************************************)
(* Sessions stay with their tenant, and what a deletion has erased stays   *)
(* erased, for any number of asks, deletions, tenants and ids, and for     *)
(* every way in which the database fails and recovers between their        *)
(* queries.  AnswerStream: a streamed turn is remembered once, whole and   *)
(* as it was sent, unless the code cannot see that it was recorded.        *)
(***************************************************************************)
EXTENDS SessionStore, AnswerStream, FiniteSetTheorems, SequenceTheorems, TLAPS

----------------------------------------------------------------------------
(* SessionStore.                                                           *)

AskSteps == {"new", "lookup", "commit", "history", "attach", "run", "persist", "done"} \cup Refusals

RemovalSteps == {"new", "delete", "answer", "done", "404"}

Asks ==
    [owner : Owners, id : Ids, step : AskSteps, supplied : BOOLEAN, found : Owners \cup {Nobody},
     verified : {FALSE}, object : Visits \cup {Nobody}, seen : SUBSET Visits]

Deletions ==
    [owner : Owners, id : Ids, step : RemovalSteps, found : BOOLEAN, hex : BOOLEAN,
     quiet : BOOLEAN, target : SUBSET Visits]

Objects == [owner : Owners \cup {Nobody}, made : Visits \cup {Nobody}, turns : SUBSET Visits]

StoreTypes ==
    /\ visit \in [Visits -> Asks]
    /\ removal \in [Removals -> Deletions]
    /\ objects \in [Ids -> Objects]
    /\ rows \in [Ids -> Owners \cup {Nobody}]
    /\ stored \in [Ids -> SUBSET Visits]
    /\ cooling \in BOOLEAN
    /\ erased \in SUBSET Visits

\* An object belongs to the tenant of the ask that made it, and so do its turns.
ObjectGood(i, o) ==
    /\ o = NoObject \/ (o.made \in Visits /\ visit[o.made].owner = o.owner /\ o.owner \in Owners)
    /\ \A w \in o.turns : visit[w].owner = o.owner /\ visit[w].id = i

MessagesGood(i, owner, m) == \A w \in m : visit[w].owner = owner /\ visit[w].id = i

\* What an ask has found, holds and has read is of its own tenant.
AskGood(r) ==
    /\ r.step = "commit" => r.found \in {Nobody, r.owner}
    /\ r.step \in {"run", "persist"} => r.object \in Visits /\ visit[r.object].owner = r.owner
    /\ \A w \in r.seen : visit[w].owner = r.owner

\* What was erased was answered before, and is nowhere.
ErasedGood ==
    /\ \A w \in erased : visit[w].step = "done"
    /\ \A i \in Ids : objects[i].turns \cap erased = {} /\ stored[i] \cap erased = {}

\* A deletion that nothing disturbs has emptied the memory of its target when
\* it comes to the database, and both when it answers.
QuietGood(d) ==
    removal[d].step \in {"delete", "answer"} /\ removal[d].quiet = TRUE =>
        /\ \A v \in Under(removal[d].id) : ~Running(v)
        /\ \A w \in removal[d].target : visit[w].step = "done" /\ visit[w].id = removal[d].id
                                        /\ visit[w].owner = removal[d].owner
        /\ objects[removal[d].id].turns \cap removal[d].target = {}
        /\ removal[d].step = "answer" => stored[removal[d].id] \cap removal[d].target = {}

StoreInv ==
    /\ StoreTypes
    /\ \A i \in Ids : ObjectGood(i, objects[i]) /\ MessagesGood(i, rows[i], stored[i])
    /\ \A v \in Visits : AskGood(visit[v])
    /\ ErasedGood
    /\ \A d \in Removals : QuietGood(d)

----------------------------------------------------------------------------

LEMMA NoObjectType == NoObject \in Objects /\ NoObject.turns = {} /\ NoObject.made = Nobody
                      /\ NoObject.owner = Nobody
  BY DEF NoObject, Objects

LEMMA StoreInitInv == StoreInit => StoreInv
  <1> SUFFICES ASSUME StoreInit PROVE StoreInv
    OBVIOUS
  <1>1. ASSUME NEW v \in Visits PROVE visit[v] \in Asks /\ visit[v].step = "new" /\ visit[v].seen = {}
    <2>1. visit[v] \in [owner : Owners, id : Ids, step : {"new"}, supplied : BOOLEAN,
                        found : {Nobody}, verified : {FALSE}, object : {Nobody}, seen : {{}}]
      BY DEF StoreInit
    <2>2. QED
      BY <2>1 DEF Asks, AskSteps
  <1>2. ASSUME NEW d \in Removals PROVE removal[d] \in Deletions /\ removal[d].step = "new"
    <2>1. removal[d] \in [owner : Owners, id : Ids, step : {"new"}, found : {FALSE},
                          hex : BOOLEAN, quiet : {TRUE}, target : {{}}]
      BY DEF StoreInit
    <2>2. {FALSE} \subseteq BOOLEAN /\ {TRUE} \subseteq BOOLEAN
      BY Zenon
    <2>3. QED
      BY <2>1, <2>2 DEF Deletions, RemovalSteps
  <1>3. StoreTypes
    BY <1>1, <1>2, NoObjectType DEF StoreInit, StoreTypes
  <1>4. \A i \in Ids : ObjectGood(i, objects[i]) /\ MessagesGood(i, rows[i], stored[i])
    BY NoObjectType DEF StoreInit, ObjectGood, MessagesGood
  <1>5. \A v \in Visits : AskGood(visit[v])
    BY <1>1 DEF AskGood
  <1>6. ErasedGood
    BY DEF StoreInit, ErasedGood
  <1>7. \A d \in Removals : QuietGood(d)
    BY <1>2 DEF QuietGood
  <1>8. QED
    BY <1>3, <1>4, <1>5, <1>6, <1>7 DEF StoreInv

\* A step of an ask disturbs the deletions of its session that are under way:
\* either it says so, or it is running, and then they are disturbed already.
LEMMA DisturbType ==
  ASSUME StoreTypes, NEW i \in Ids, Disturb(i)
  PROVE  /\ removal' \in [Removals -> Deletions]
         /\ \A d \in Removals :
               /\ removal[d].id = i /\ removal[d].step # "new" => removal'[d].quiet = FALSE
               /\ ~(removal[d].id = i /\ removal[d].step # "new") => removal'[d] = removal[d]
               /\ removal'[d].id = removal[d].id /\ removal'[d].step = removal[d].step
  <1>1. \A d \in Removals : removal[d] \in Deletions
    BY DEF StoreTypes
  <1>2. FALSE \in BOOLEAN
    BY Zenon
  <1>3. \A d \in Removals : [removal[d] EXCEPT !.quiet = FALSE] \in Deletions
    BY <1>1, <1>2 DEF Deletions
  <1>4. \A d \in Removals :
           removal'[d] = IF removal[d].id = i /\ removal[d].step # "new"
                         THEN [removal[d] EXCEPT !.quiet = FALSE] ELSE removal[d]
    BY DEF Disturb
  <1>5. removal' \in [Removals -> Deletions]
    BY <1>1, <1>3 DEF Disturb
  <1>6. QED
    BY <1>1, <1>4, <1>5 DEF Deletions

\* What one ask does in its session: r is what it becomes, o, u and m are the
\* object, the row and the messages it leaves under its id.
LEMMA AskKeeps ==
  ASSUME StoreInv, NEW v \in Visits, NEW r \in Asks, visit' = [visit EXCEPT ![v] = r],
         r.owner = visit[v].owner, r.id = visit[v].id, visit[v].step # "done", AskGood(r),
         NEW o \in Objects, objects' = [objects EXCEPT ![visit[v].id] = o],
         ObjectGood(visit[v].id, o), o.turns \cap erased = {},
         NEW u \in Owners \cup {Nobody}, rows' = [rows EXCEPT ![visit[v].id] = u],
         NEW m \in SUBSET Visits, stored' = [stored EXCEPT ![visit[v].id] = m],
         MessagesGood(visit[v].id, u, m), m \cap erased = {},
         (Running(v) /\ UNCHANGED removal) \/ Disturb(visit[v].id),
         cooling' \in BOOLEAN, UNCHANGED erased
  PROVE  StoreInv'
  <1> DEFINE i == visit[v].id
  <1>1. i \in Ids /\ visit[v] \in Asks /\ visit'[v] = r /\ \A w \in Visits \ {v} : visit'[w] = visit[w]
    BY DEF StoreInv, StoreTypes, Asks
  <1>2. \A w \in Visits : visit'[w].owner = visit[w].owner /\ visit'[w].id = visit[w].id
    BY <1>1
  <1>3. /\ objects'[i] = o /\ rows'[i] = u /\ stored'[i] = m
        /\ \A j \in Ids \ {i} : objects'[j] = objects[j] /\ rows'[j] = rows[j] /\ stored'[j] = stored[j]
    BY <1>1 DEF StoreInv, StoreTypes
  <1>4. StoreTypes'
    <2>1. removal' \in [Removals -> Deletions]
      BY <1>1, DisturbType DEF StoreInv, StoreTypes
    <2>2. QED
      BY <2>1, <1>1 DEF StoreInv, StoreTypes
  <1>5. ASSUME NEW j \in Ids PROVE ObjectGood(j, objects[j])' /\ MessagesGood(j, rows[j], stored[j])'
    <2>1. /\ ObjectGood(j, objects'[j]) /\ MessagesGood(j, rows'[j], stored'[j])
          /\ objects'[j] \in Objects /\ stored'[j] \subseteq Visits
      BY <1>3 DEF StoreInv, StoreTypes
    <2>2. objects'[j].turns \subseteq Visits
      BY <2>1 DEF Objects
    <2>3. QED
      BY <1>2, <2>1, <2>2 DEF ObjectGood, MessagesGood
  <1>6. ASSUME NEW w \in Visits PROVE AskGood(visit[w])'
    <2>1. AskGood(visit'[w]) /\ visit'[w] \in Asks
      BY <1>1, <1>4 DEF StoreInv, StoreTypes
    <2>2. visit'[w].seen \subseteq Visits
      BY <2>1 DEF Asks
    <2>3. QED
      BY <1>2, <2>1, <2>2 DEF AskGood
  <1>7. ErasedGood'
    BY <1>1, <1>3 DEF StoreInv, StoreTypes, ErasedGood
  <1>8. ASSUME NEW d \in Removals PROVE QuietGood(d)'
    <2> SUFFICES ASSUME removal'[d].step \in {"delete", "answer"}, removal'[d].quiet = TRUE
                 PROVE  /\ \A w \in Under(removal[d].id)' : ~Running(w)'
                        /\ \A w \in removal'[d].target :
                              visit'[w].step = "done" /\ visit'[w].id = removal'[d].id
                              /\ visit'[w].owner = removal'[d].owner
                        /\ objects'[removal'[d].id].turns \cap removal'[d].target = {}
                        /\ removal'[d].step = "answer" =>
                              stored'[removal'[d].id] \cap removal'[d].target = {}
      BY DEF QuietGood
    <2>1. removal'[d] = removal[d]
      <3>1. CASE UNCHANGED removal
        BY <3>1
      <3>2. CASE Disturb(i)
        <4>1. FALSE # TRUE
          BY Zenon
        <4>2. QED
          BY <1>1, <3>2, <4>1, DisturbType DEF StoreInv
      <3>3. QED
        BY <3>1, <3>2
    <2>2. removal[d].id # i
      <3>1. CASE UNCHANGED removal /\ Running(v)
        BY <2>1, <3>1 DEF StoreInv, QuietGood, Under
      <3>2. CASE Disturb(i)
        <4>1. FALSE # TRUE
          BY Zenon
        <4>2. removal[d].id = i => removal'[d].quiet = FALSE
          BY <1>1, <2>1, <3>2, DisturbType DEF StoreInv
        <4>3. QED
          BY <4>1, <4>2
      <3>3. QED
        BY <3>1, <3>2
    <2>3. removal[d].id \in Ids /\ removal[d].target \subseteq Visits
      BY DEF StoreInv, StoreTypes, Deletions
    <2>4. QuietGood(d) /\ v \notin Under(removal[d].id) /\ v \notin removal[d].target
      BY <2>1, <2>2 DEF StoreInv, QuietGood, Under
    <2>5. QED
      BY <1>1, <1>2, <1>3, <2>1, <2>2, <2>3, <2>4 DEF QuietGood, Under, Running
  <1>9. QED
    BY <1>4, <1>5, <1>6, <1>7, <1>8 DEF StoreInv

\* The session of an ask as it is: what AskKeeps needs of what a step leaves alone.
LEMMA AskHere ==
  ASSUME StoreInv, NEW v \in Visits
  PROVE  LET i == visit[v].id
         IN  /\ i \in Ids /\ visit[v] \in Asks /\ visit[v].owner \in Owners /\ AskGood(visit[v])
             /\ objects[i] \in Objects /\ ObjectGood(i, objects[i]) /\ objects[i].turns \cap erased = {}
             /\ rows[i] \in Owners \cup {Nobody} /\ stored[i] \in SUBSET Visits
             /\ MessagesGood(i, rows[i], stored[i]) /\ stored[i] \cap erased = {}
             /\ objects = [objects EXCEPT ![i] = objects[i]]
             /\ rows = [rows EXCEPT ![i] = rows[i]]
             /\ stored = [stored EXCEPT ![i] = stored[i]]
             /\ cooling \in BOOLEAN
  BY DEF StoreInv, StoreTypes, Asks, ErasedGood

\* A step that changes only the ask, and leaves its tenant and its session.
LEMMA AskAlone ==
  ASSUME StoreInv, NEW v \in Visits, NEW r \in Asks, visit' = [visit EXCEPT ![v] = r],
         r.owner = visit[v].owner, r.id = visit[v].id, visit[v].step # "done", AskGood(r),
         UNCHANGED <<objects, rows, stored, erased>>, cooling' \in BOOLEAN,
         (Running(v) /\ UNCHANGED removal) \/ Disturb(visit[v].id)
  PROVE  StoreInv'
  <1>1. PICK i, o, u, m : i = visit[v].id /\ o = objects[i] /\ u = rows[i] /\ m = stored[i]
    OBVIOUS
  <1>2. /\ i \in Ids /\ o \in Objects /\ ObjectGood(i, o) /\ o.turns \cap erased = {}
        /\ u \in Owners \cup {Nobody} /\ m \in SUBSET Visits
        /\ MessagesGood(i, u, m) /\ m \cap erased = {}
        /\ objects = [objects EXCEPT ![i] = o]
        /\ rows = [rows EXCEPT ![i] = u]
        /\ stored = [stored EXCEPT ![i] = m]
    BY <1>1, AskHere
  <1>3. /\ objects' = [objects EXCEPT ![visit[v].id] = o]
        /\ rows' = [rows EXCEPT ![visit[v].id] = u]
        /\ stored' = [stored EXCEPT ![visit[v].id] = m]
        /\ ObjectGood(visit[v].id, o) /\ MessagesGood(visit[v].id, u, m)
        /\ UNCHANGED erased
    BY <1>1, <1>2
  <1> QED
    BY <1>2, <1>3, AskKeeps

\* A step that changes only where the ask is.
LEMMA AskMoves ==
  ASSUME StoreInv, NEW v \in Visits, NEW s \in AskSteps, Advance(v, s),
         visit[v].step # "done", s \notin {"commit", "run"}, s = "persist" => visit[v].step = "run",
         UNCHANGED <<objects, rows, stored, erased>>, cooling' \in BOOLEAN,
         (Running(v) /\ UNCHANGED removal) \/ Disturb(visit[v].id)
  PROVE  StoreInv'
  <1> DEFINE r == [visit[v] EXCEPT !.step = s]
  <1>1. visit[v] \in Asks /\ AskGood(visit[v])
    BY AskHere
  <1>2. visit' = [visit EXCEPT ![v] = r]
    BY DEF Advance
  <1>3. r \in Asks /\ r.owner = visit[v].owner /\ r.id = visit[v].id /\ r.step = s
        /\ r.object = visit[v].object /\ r.seen = visit[v].seen
    BY <1>1 DEF Asks
  <1>4. AskGood(r)
    BY <1>1, <1>3 DEF AskGood
  <1> HIDE DEF r
  <1>5. QED
    BY <1>2, <1>3, <1>4, AskAlone

\* The ask takes the object it finds, or makes one with the history it has read.
LEMMA AttachKeeps ==
  ASSUME StoreInv, NEW v \in Visits, NEW h \in SUBSET Visits, NEW known, Attach(v, h, known),
         Running(v), MessagesGood(visit[v].id, visit[v].owner, h), h \cap erased = {},
         UNCHANGED <<removal, rows, stored, erased>>, cooling' \in BOOLEAN
  PROVE  StoreInv'
  <1> DEFINE i == visit[v].id
             o == objects[i]
             made == IF o = NoObject
                     THEN [owner |-> visit[v].owner, made |-> v, turns |-> h] ELSE o
             r == [visit[v] EXCEPT !.step = "run", !.object = made.made, !.seen = made.turns]
  <1>1. visit[v].step # "done" /\ {"404", "503"} \subseteq AskSteps
    BY DEF Running, AskSteps, Refusals
  <1>2. CASE (Advance(v, "404") \/ Advance(v, "503")) /\ UNCHANGED objects
    BY <1>1, <1>2, AskMoves
  <1>3. CASE /\ AccessAllowed(o, visit[v].owner)
             /\ objects' = [objects EXCEPT ![i] = made] /\ visit' = [visit EXCEPT ![v] = r]
    <2>1. /\ visit[v] \in Asks /\ o \in Objects /\ ObjectGood(i, o) /\ o.turns \cap erased = {}
          /\ visit[v].owner \in Owners /\ i \in Ids /\ AskGood(visit[v])
      BY AskHere
    <2>2. /\ made \in Objects /\ made.made \in Visits /\ visit[made.made].owner = visit[v].owner
          /\ made.owner = visit[v].owner /\ made.turns \cap erased = {} /\ ObjectGood(i, made)
      <3>1. CASE o = NoObject
        <4>1. /\ made.owner = visit[v].owner /\ made.made = v /\ made.turns = h
              /\ made \in Objects
          BY <2>1, <3>1 DEF Objects
        <4> HIDE DEF made
        <4>2. QED
          BY <2>1, <4>1 DEF ObjectGood, MessagesGood
      <3>2. CASE o # NoObject
        <4>1. made = o
          BY <3>2
        <4>2. o.made \in Visits /\ visit[o.made].owner = o.owner /\ o.owner \in Owners
          BY <2>1, <3>2 DEF ObjectGood
        <4>3. o.owner = visit[v].owner
          BY <1>3, <4>2, SessionStoreAssumption DEF AccessAllowed
        <4>4. QED
          BY <2>1, <4>1, <4>2, <4>3
      <3>3. QED
        BY <3>1, <3>2
    <2> HIDE DEF made
    <2>3. made.turns \subseteq Visits
      BY <2>2 DEF Objects
    <2>4. r \in Asks /\ r.owner = visit[v].owner /\ r.id = i /\ r.step = "run"
          /\ r.object = made.made /\ r.seen = made.turns
      BY <2>1, <2>2, <2>3 DEF Asks, AskSteps
    <2> HIDE DEF r
    <2>5. AskGood(r)
      BY <2>2, <2>4 DEF AskGood, ObjectGood
    <2>6. QED
      BY <1>1, <1>3, <2>2, <2>4, <2>5, AskHere, AskKeeps
  <1>4. QED
    BY <1>2, <1>3 DEF Attach

LEMMA AskStepKeeps ==
  ASSUME StoreInv, NEW v \in Visits,
         \/ BeginAsk(v) \/ LookUpOwner(v) \/ CommitRow(v) \/ LookupFails(v)
         \/ LoadHistory(v) \/ AttachUnverified(v) \/ EndTurn(v)
         \/ PersistMessages(v) \/ PersistFails(v)
  PROVE  StoreInv'
  <1> DEFINE i == visit[v].id
  <1>1. /\ i \in Ids /\ visit[v] \in Asks /\ visit[v].owner \in Owners /\ AskGood(visit[v])
        /\ objects[i] \in Objects /\ ObjectGood(i, objects[i]) /\ objects[i].turns \cap erased = {}
        /\ rows[i] \in Owners \cup {Nobody} /\ stored[i] \in SUBSET Visits
        /\ MessagesGood(i, rows[i], stored[i]) /\ stored[i] \cap erased = {}
        /\ cooling \in BOOLEAN
    BY AskHere
  <1>2. {"lookup", "attach", "404", "commit", "history", "run", "persist", "done"} \subseteq AskSteps
    BY DEF AskSteps, Refusals
  <1>3. {TRUE, FALSE} \subseteq BOOLEAN
    BY Zenon
  <1>4. CASE BeginAsk(v)
    <2>1. \E s \in {"attach", "lookup"} : Advance(v, s)
      BY <1>4 DEF BeginAsk
    <2>2. QED
      BY <1>1, <1>2, <1>4, <2>1, AskMoves DEF BeginAsk
  <1>5. CASE LookUpOwner(v)
    <2>1. Running(v) /\ UNCHANGED <<removal, objects, rows, stored, cooling, erased>>
          /\ visit[v].step = "lookup"
      BY <1>5 DEF LookUpOwner, Running, Refusals
    <2>2. CASE Advance(v, "404")
      BY <1>1, <1>2, <2>1, <2>2, AskMoves
    <2>3. CASE /\ ~(rows[i] # Nobody /\ ~OwnedRow(v))
               /\ visit' = [visit EXCEPT ![v].step = "commit", ![v].found = rows[i]]
      <3> DEFINE r == [visit[v] EXCEPT !.step = "commit", !.found = rows[i]]
      <3>1. visit' = [visit EXCEPT ![v] = r]
        BY <2>3
      <3>2. r \in Asks /\ r.owner = visit[v].owner /\ r.id = i /\ r.step = "commit"
            /\ r.found = rows[i] /\ r.seen = visit[v].seen
        BY <1>1, <1>2 DEF Asks
      <3> HIDE DEF r
      <3>3. AskGood(r)
        BY <1>1, <2>3, <3>2 DEF AskGood, OwnedRow
      <3>4. QED
        BY <1>1, <2>1, <3>1, <3>2, <3>3, AskAlone
    <2>4. QED
      BY <1>5, <2>2, <2>3 DEF LookUpOwner
  <1>6. CASE CommitRow(v)
    <2>1. Running(v) /\ UNCHANGED <<removal, objects, stored, erased>> /\ visit[v].step = "commit"
      BY <1>6 DEF CommitRow, Running, Refusals
    <2>2. CASE /\ rows[i] = visit[v].found /\ rows' = [rows EXCEPT ![i] = visit[v].owner]
               /\ Advance(v, "history") /\ UNCHANGED cooling
      <3> DEFINE r == [visit[v] EXCEPT !.step = "history"]
      <3>1. visit' = [visit EXCEPT ![v] = r]
        BY <2>2 DEF Advance
      <3>2. r \in Asks /\ r.owner = visit[v].owner /\ r.id = i /\ r.step = "history"
            /\ r.seen = visit[v].seen
        BY <1>1, <1>2 DEF Asks
      <3> HIDE DEF r
      <3>3. AskGood(r)
        BY <1>1, <3>2 DEF AskGood
      <3>4. MessagesGood(i, visit[v].owner, stored[i])
        <4>1. rows[i] \in {Nobody, visit[v].owner}
          BY <1>1, <2>1, <2>2 DEF AskGood
        <4>2. \A w \in stored[i] : visit[w].owner \in Owners
          BY <1>1 DEF StoreInv, StoreTypes, Asks
        <4>3. QED
          BY <1>1, <4>1, <4>2, SessionStoreAssumption DEF MessagesGood
      <3>5. visit[v].owner \in Owners \cup {Nobody}
        BY <1>1
      <3>6. PICK o, u, m : o = objects[i] /\ u = visit[v].owner /\ m = stored[i]
        OBVIOUS
      <3>7. /\ o \in Objects /\ ObjectGood(i, o) /\ o.turns \cap erased = {}
            /\ u \in Owners \cup {Nobody} /\ m \in SUBSET Visits
            /\ MessagesGood(i, u, m) /\ m \cap erased = {}
            /\ objects = [objects EXCEPT ![i] = o] /\ stored = [stored EXCEPT ![i] = m]
        BY <3>4, <3>5, <3>6, AskHere
      <3>8. /\ objects' = [objects EXCEPT ![i] = o] /\ stored' = [stored EXCEPT ![i] = m]
            /\ rows' = [rows EXCEPT ![i] = u]
            /\ Running(v) /\ UNCHANGED removal /\ UNCHANGED erased /\ cooling' \in BOOLEAN
            /\ r.owner = visit[v].owner /\ r.id = i /\ visit[v].step # "done"
        BY <1>1, <2>1, <2>2, <3>2, <3>6, <3>7
      <3>9. QED
        BY <3>1, <3>2, <3>3, <3>7, <3>8, AskKeeps
    <2>3. CASE Advance(v, "attach") /\ cooling' = TRUE /\ UNCHANGED rows
      BY <1>2, <1>3, <2>1, <2>3, AskMoves
    <2>4. QED
      BY <1>6, <2>2, <2>3 DEF CommitRow
  <1>7. CASE LookupFails(v)
    <2>1. /\ Running(v) /\ UNCHANGED <<removal, objects, rows, stored, erased>>
          /\ visit[v].step # "done" /\ Advance(v, "attach") /\ cooling' = TRUE
      BY <1>7 DEF LookupFails, Running, Refusals
    <2>2. QED
      BY <1>2, <1>3, <2>1, AskMoves
  <1>8. CASE LoadHistory(v)
    <2> DEFINE h == IF OwnedRow(v) THEN stored[i] ELSE {}
    <2>1. /\ Running(v) /\ UNCHANGED <<removal, rows, stored, erased>> /\ cooling' = FALSE
          /\ Attach(v, h, TRUE)
      BY <1>8 DEF LoadHistory, Running, Refusals
    <2>2. /\ h \in SUBSET Visits /\ h \cap erased = {}
          /\ MessagesGood(i, visit[v].owner, h)
      BY <1>1 DEF OwnedRow, MessagesGood
    <2> HIDE DEF h
    <2>3. QED
      BY <1>3, <2>1, <2>2, AttachKeeps
  <1>9. CASE AttachUnverified(v)
    <2>1. /\ Running(v) /\ UNCHANGED <<removal, rows, stored, cooling, erased>>
          /\ Attach(v, {}, FALSE)
      BY <1>9 DEF AttachUnverified, Running, Refusals
    <2>2. MessagesGood(i, visit[v].owner, {})
      BY DEF MessagesGood
    <2>3. QED
      BY <1>1, <2>1, <2>2, AttachKeeps
  <1>10. CASE EndTurn(v)
    <2> DEFINE r == [visit[v] EXCEPT !.step = "persist"]
               t == IF objects[i].made = visit[v].object THEN objects[i].turns \cup {v}
                    ELSE objects[i].turns
               o == [objects[i] EXCEPT !.turns = t]
    <2>1. /\ Running(v) /\ UNCHANGED <<removal, rows, stored, cooling, erased>>
          /\ visit[v].step = "run" /\ visit' = [visit EXCEPT ![v] = r]
          /\ objects' = [objects EXCEPT ![i] = o]
      BY <1>10 DEF EndTurn, Running, Refusals, Advance
    <2>2. r \in Asks /\ r.owner = visit[v].owner /\ r.id = i /\ r.step = "persist"
          /\ r.object = visit[v].object /\ r.seen = visit[v].seen
      BY <1>1, <1>2 DEF Asks
    <2>3. AskGood(r)
      BY <1>1, <2>1, <2>2 DEF AskGood
    <2>4. t \subseteq Visits /\ t \cap erased = {}
      BY <1>1, <2>1 DEF StoreInv, ErasedGood, Objects
    <2>5. ASSUME NEW w \in t PROVE visit[w].owner = objects[i].owner /\ visit[w].id = i
      <3>1. CASE w \in objects[i].turns
        BY <1>1, <3>1 DEF ObjectGood
      <3>2. CASE w = v /\ objects[i].made = visit[v].object
        <4>1. visit[v].object \in Visits /\ visit[visit[v].object].owner = visit[v].owner
          BY <1>1, <2>1 DEF AskGood
        <4>2. objects[i] # NoObject
          BY <3>2, <4>1, NoObjectType, SessionStoreAssumption
        <4>3. QED
          BY <1>1, <3>2, <4>1, <4>2 DEF ObjectGood
      <3>3. QED
        BY <2>5, <3>1, <3>2
    <2>6. \/ objects[i] = NoObject /\ t = {}
          \/ objects[i].made \in Visits /\ visit[objects[i].made].owner = objects[i].owner
             /\ objects[i].owner \in Owners
      <3>1. CASE objects[i] = NoObject
        <4>1. visit[v].object \in Visits
          BY <1>1, <2>1 DEF AskGood
        <4>2. QED
          BY <3>1, <4>1, NoObjectType, SessionStoreAssumption
      <3>2. CASE objects[i] # NoObject
        BY <1>1, <3>2 DEF ObjectGood
      <3>3. QED
        BY <3>1, <3>2
    <2> HIDE DEF r, t
    <2>7. o \in Objects /\ o.owner = objects[i].owner /\ o.made = objects[i].made /\ o.turns = t
      BY <1>1, <2>4 DEF Objects
    <2>8. objects[i] = NoObject /\ t = {} => o = NoObject
      BY NoObjectType DEF NoObject
    <2> HIDE DEF o
    <2>9. ObjectGood(i, o)
      BY <2>5, <2>6, <2>7, <2>8 DEF ObjectGood
    <2>10. QED
      BY <1>1, <2>1, <2>2, <2>3, <2>4, <2>7, <2>9, AskHere, AskKeeps
  <1>11. CASE PersistMessages(v)
    <2> DEFINE r == [visit[v] EXCEPT !.step = "done"]
               m == IF ~cooling /\ OwnedRow(v) THEN stored[i] \cup {v} ELSE stored[i]
    <2>1. /\ Running(v) /\ UNCHANGED <<removal, objects, rows, cooling, erased>>
          /\ visit[v].step = "persist" /\ visit' = [visit EXCEPT ![v] = r]
          /\ stored' = [stored EXCEPT ![i] = m]
      BY <1>11 DEF PersistMessages, Running, Refusals, Advance
    <2>2. r \in Asks /\ r.owner = visit[v].owner /\ r.id = i /\ r.step = "done"
          /\ r.seen = visit[v].seen
      BY <1>1, <1>2 DEF Asks
    <2>3. AskGood(r)
      BY <1>1, <2>2 DEF AskGood
    <2>4. m \in SUBSET Visits /\ m \cap erased = {} /\ MessagesGood(i, rows[i], m)
      BY <1>1, <2>1 DEF StoreInv, ErasedGood, MessagesGood, OwnedRow
    <2> HIDE DEF r, m
    <2>5. QED
      BY <1>1, <2>1, <2>2, <2>3, <2>4, AskHere, AskKeeps
  <1>12. CASE PersistFails(v)
    <2>1. /\ Running(v) /\ UNCHANGED <<removal, objects, rows, stored, erased>>
          /\ visit[v].step # "done" /\ Advance(v, "done") /\ cooling' = TRUE
      BY <1>12 DEF PersistFails, Running, Refusals
    <2>2. QED
      BY <1>2, <1>3, <2>1, AskMoves
  <1>13. QED
    BY <1>4, <1>5, <1>6, <1>7, <1>8, <1>9, <1>10, <1>11, <1>12

\* Asks, rows and messages apart, only one deletion changes: what it becomes
\* must be undisturbed for the same reasons as before, or for new ones.
LEMMA RemovalKeeps ==
  ASSUME StoreInv, NEW d \in Removals, NEW r \in Deletions, removal' = [removal EXCEPT ![d] = r],
         UNCHANGED visit, cooling' \in BOOLEAN,
         objects' \in [Ids -> Objects], rows' \in [Ids -> Owners \cup {Nobody}],
         stored' \in [Ids -> SUBSET Visits], erased' \in SUBSET Visits,
         \A i \in Ids : objects'[i] = objects[i] \/ objects'[i] = NoObject,
         \A i \in Ids : (rows'[i] = rows[i] /\ stored'[i] = stored[i]) \/ stored'[i] = {},
         ErasedGood', QuietGood(d)'
  PROVE  StoreInv'
  <1>1. StoreTypes'
    BY DEF StoreInv, StoreTypes
  <1>2. ASSUME NEW i \in Ids PROVE ObjectGood(i, objects[i])' /\ MessagesGood(i, rows[i], stored[i])'
    BY NoObjectType DEF StoreInv, ObjectGood, MessagesGood
  <1>3. \A v \in Visits : AskGood(visit[v])'
    BY DEF StoreInv, AskGood
  <1>4. ASSUME NEW e \in Removals \ {d} PROVE QuietGood(e)'
    <2>1. removal'[e] = removal[e] /\ QuietGood(e) /\ removal[e].id \in Ids
      BY DEF StoreInv, StoreTypes, Deletions
    <2>2. QED
      BY <2>1, NoObjectType DEF QuietGood, Under, Running
  <1>5. QED
    BY <1>1, <1>2, <1>3, <1>4 DEF StoreInv

LEMMA RemovalStepKeeps ==
  ASSUME StoreInv, NEW d \in Removals,
         RemoveObject(d) \/ DeleteRow(d) \/ DeleteFails(d) \/ AnswerRemoval(d)
  PROVE  StoreInv'
  <1> DEFINE i == removal[d].id
  <1>1. /\ removal[d] \in Deletions /\ i \in Ids /\ removal[d].owner \in Owners
        /\ removal[d].target \subseteq Visits /\ QuietGood(d)
    BY DEF StoreInv, StoreTypes, Deletions
  <1>2. {TRUE, FALSE} \subseteq BOOLEAN /\ TRUE # FALSE
    BY Zenon
  <1>3. {"delete", "answer", "done", "404"} \subseteq RemovalSteps
    BY DEF RemovalSteps
  <1>4. ASSUME RemoveObject(d) PROVE StoreInv'
    <2> DEFINE o == objects[i]
               hit == removal[d].hex /\ o # NoObject /\ AccessAllowed(o, removal[d].owner)
               calm == removal[d].hex /\ ~cooling /\ \A v \in Under(i) : ~Running(v)
               s == IF cooling THEN "answer" ELSE "delete"
               g == {v \in Under(i) : visit[v].step = "done" /\ visit[v].owner = removal[d].owner}
               r == [removal[d] EXCEPT !.step = s, !.found = hit, !.quiet = calm, !.target = g]
    <2>1. /\ removal' = [removal EXCEPT ![d] = r]
          /\ objects' = [objects EXCEPT ![i] = IF hit THEN NoObject ELSE @]
          /\ UNCHANGED <<visit, rows, stored, cooling, erased>>
      BY <1>4 DEF RemoveObject
    <2>2. hit \in BOOLEAN /\ calm \in BOOLEAN
      BY Zenon
    <2>3. calm = TRUE => ~cooling /\ (\A v \in Under(i) : ~Running(v)) /\ removal[d].hex
      BY Zenon
    <2>4. g \in SUBSET Visits /\ s \in RemovalSteps /\ (~cooling => s = "delete")
      BY <1>3 DEF Under
    <2>5. calm = TRUE => objects'[i].turns \cap g = {}
      <3>1. CASE hit
        BY <1>1, <2>1, <3>1, NoObjectType DEF StoreInv, StoreTypes
      <3>2. CASE ~hit /\ removal[d].hex
        <4>1. o = NoObject \/ ~AccessAllowed(o, removal[d].owner)
          BY <3>2
        <4>2. ObjectGood(i, o) /\ objects'[i] = o
          BY <1>1, <2>1, <3>2 DEF StoreInv, StoreTypes
        <4>3. QED
          BY <4>1, <4>2, NoObjectType DEF AccessAllowed, ObjectGood
      <3>3. QED
        BY <2>3, <3>1, <3>2
    <2>6. \A j \in Ids : objects'[j] = objects[j] \/ objects'[j] = NoObject
      BY <1>1, <2>1 DEF StoreInv, StoreTypes
    <2>7. objects' \in [Ids -> Objects]
      BY <1>1, <2>1, NoObjectType DEF StoreInv, StoreTypes
    <2>8. \A w \in g : visit[w].step = "done" /\ visit[w].id = i /\ visit[w].owner = removal[d].owner
      BY DEF Under
    <2> HIDE DEF hit, calm, g, s
    <2>9. r \in Deletions /\ r.id = i /\ r.owner = removal[d].owner /\ r.step = s
          /\ r.quiet = calm /\ r.target = g
      BY <1>1, <2>2, <2>4 DEF Deletions
    <2> HIDE DEF r
    <2>10. removal'[d] = r
      BY <2>1 DEF StoreInv, StoreTypes
    <2>11. QuietGood(d)'
      BY <2>1, <2>3, <2>4, <2>5, <2>8, <2>9, <2>10 DEF QuietGood, Under, Running
    <2>12. ErasedGood'
      BY <2>1, <2>6, NoObjectType DEF StoreInv, ErasedGood
    <2>13. QED
      BY <2>1, <2>6, <2>7, <2>9, <2>11, <2>12, RemovalKeeps DEF StoreInv, StoreTypes
  <1>5. ASSUME DeleteRow(d) PROVE StoreInv'
    <2> DEFINE hit == rows[i] = removal[d].owner
               f == removal[d].found \/ hit
               r == [removal[d] EXCEPT !.step = "answer", !.found = f]
    <2>1. /\ removal' = [removal EXCEPT ![d] = r] /\ removal[d].step = "delete"
          /\ UNCHANGED <<visit, objects, erased>> /\ cooling' = FALSE
          /\ \/ hit /\ rows' = [rows EXCEPT ![i] = Nobody] /\ stored' = [stored EXCEPT ![i] = {}]
             \/ ~hit /\ UNCHANGED <<rows, stored>>
      BY <1>5 DEF DeleteRow, DeleteMessages
    <2>2. f \in BOOLEAN
      BY Zenon
    <2>3. /\ \A j \in Ids : (rows'[j] = rows[j] /\ stored'[j] = stored[j]) \/ stored'[j] = {}
          /\ rows' \in [Ids -> Owners \cup {Nobody}] /\ stored' \in [Ids -> SUBSET Visits]
      BY <1>1, <2>1 DEF StoreInv, StoreTypes
    <2>4. ASSUME NEW w \in stored'[i], visit[w].owner = removal[d].owner PROVE FALSE
      <3>1. CASE hit
        BY <1>1, <2>1, <2>4, <3>1 DEF StoreInv, StoreTypes
      <3>2. CASE ~hit
        BY <1>1, <2>1, <2>4, <3>2 DEF StoreInv, MessagesGood
      <3>3. QED
        BY <3>1, <3>2
    <2> HIDE DEF hit, f
    <2>5. r \in Deletions /\ r.id = i /\ r.owner = removal[d].owner /\ r.step = "answer"
          /\ r.quiet = removal[d].quiet /\ r.target = removal[d].target
      BY <1>1, <1>3, <2>2 DEF Deletions
    <2> HIDE DEF r
    <2>6. removal'[d] = r
      BY <2>1 DEF StoreInv, StoreTypes
    <2>7. QuietGood(d)'
      BY <1>1, <2>1, <2>4, <2>5, <2>6 DEF QuietGood, Under, Running
    <2>8. ErasedGood'
      BY <2>1, <2>3 DEF StoreInv, ErasedGood
    <2>9. QED
      BY <1>2, <2>1, <2>3, <2>5, <2>7, <2>8, RemovalKeeps DEF StoreInv, StoreTypes
  <1>6. ASSUME DeleteFails(d) PROVE StoreInv'
    <2> DEFINE r == [removal[d] EXCEPT !.step = "answer", !.quiet = FALSE]
    <2>1. /\ removal' = [removal EXCEPT ![d] = r] /\ cooling' = TRUE
          /\ UNCHANGED <<visit, objects, rows, stored, erased>>
      BY <1>6 DEF DeleteFails
    <2>2. r \in Deletions /\ r.quiet = FALSE
      BY <1>1, <1>2, <1>3 DEF Deletions
    <2> HIDE DEF r
    <2>3. removal'[d] = r
      BY <2>1 DEF StoreInv, StoreTypes
    <2>4. QuietGood(d)'
      BY <1>2, <2>2, <2>3 DEF QuietGood
    <2>5. ErasedGood'
      BY <2>1 DEF StoreInv, ErasedGood
    <2>6. QED
      BY <1>2, <2>1, <2>2, <2>4, <2>5, RemovalKeeps DEF StoreInv, StoreTypes
  <1>7. ASSUME AnswerRemoval(d) PROVE StoreInv'
    <2> DEFINE s == IF removal[d].found THEN "done" ELSE "404"
               r == [removal[d] EXCEPT !.step = s]
    <2>1. /\ removal' = [removal EXCEPT ![d] = r] /\ removal[d].step = "answer"
          /\ UNCHANGED <<visit, objects, rows, stored, cooling>>
          /\ \/ removal[d].quiet /\ erased' = erased \cup removal[d].target
             \/ erased' = erased
      BY <1>7 DEF AnswerRemoval
    <2>2. s \in {"done", "404"}
      OBVIOUS
    <2> HIDE DEF s
    <2>3. r \in Deletions /\ r.step = s
      BY <1>1, <1>3, <2>2 DEF Deletions
    <2> HIDE DEF r
    <2>4. removal'[d] = r
      BY <2>1 DEF StoreInv, StoreTypes
    <2>5. QuietGood(d)'
      BY <2>2, <2>3, <2>4 DEF QuietGood
    <2>6. ErasedGood' /\ erased' \in SUBSET Visits
      <3>1. CASE erased' = erased
        BY <2>1, <3>1 DEF StoreInv, StoreTypes, ErasedGood
      <3>2. CASE removal[d].quiet /\ erased' = erased \cup removal[d].target
        <4>1. removal[d].quiet = TRUE
          <5>1. removal[d].quiet \in BOOLEAN
            BY <1>1 DEF Deletions
          <5>2. QED
            BY <3>2, <5>1, Zenon
        <4>2. /\ \A w \in removal[d].target : visit[w].step = "done" /\ visit[w].id = i
              /\ objects[i].turns \cap removal[d].target = {}
              /\ stored[i] \cap removal[d].target = {}
          BY <1>1, <2>1, <4>1 DEF QuietGood
        <4>3. ASSUME NEW j \in Ids
              PROVE  objects[j].turns \cap removal[d].target = {}
                     /\ stored[j] \cap removal[d].target = {}
          <5>1. ObjectGood(j, objects[j]) /\ MessagesGood(j, rows[j], stored[j])
            BY DEF StoreInv
          <5>2. QED
            BY <4>2, <5>1 DEF ObjectGood, MessagesGood
        <4>4. QED
          BY <1>1, <2>1, <3>2, <4>2, <4>3 DEF StoreInv, StoreTypes, ErasedGood
      <3>3. QED
        BY <2>1, <3>1, <3>2
    <2>7. QED
      BY <2>1, <2>3, <2>5, <2>6, RemovalKeeps DEF StoreInv, StoreTypes
  <1>8. QED
    BY <1>4, <1>5, <1>6, <1>7

LEMMA StoreStep == StoreInv /\ [StoreNext]_storeVars => StoreInv'
  <1> SUFFICES ASSUME StoreInv, [StoreNext]_storeVars PROVE StoreInv'
    OBVIOUS
  <1>1. CASE \/ \E i \in Ids : EvictIdle(i)
             \/ ReadHistory \/ CooldownEnds \/ UNCHANGED storeVars
    <2>1. /\ UNCHANGED <<visit, removal, rows, stored, erased>>
          /\ \A i \in Ids : objects'[i] = objects[i] \/ objects'[i] = NoObject
      BY <1>1 DEF EvictIdle, ReadHistory, CooldownEnds, storeVars, StoreInv, StoreTypes
    <2>2. objects' \in [Ids -> Objects]
      BY <1>1, NoObjectType DEF EvictIdle, ReadHistory, CooldownEnds, storeVars, StoreInv, StoreTypes
    <2>3. cooling' = cooling \/ cooling' = FALSE \/ cooling' \in BOOLEAN
      BY <1>1 DEF EvictIdle, ReadHistory, CooldownEnds, storeVars
    <2>4. FALSE \in BOOLEAN
      BY Zenon
    <2>5. StoreTypes'
      BY <2>1, <2>2, <2>3, <2>4 DEF StoreInv, StoreTypes
    <2>6. ASSUME NEW i \in Ids PROVE ObjectGood(i, objects[i])' /\ MessagesGood(i, rows[i], stored[i])'
      BY <2>1, NoObjectType DEF StoreInv, ObjectGood, MessagesGood
    <2>7. \A v \in Visits : AskGood(visit[v])'
      BY <2>1 DEF StoreInv, AskGood
    <2>8. ErasedGood'
      BY <2>1, NoObjectType DEF StoreInv, ErasedGood
    <2>9. ASSUME NEW d \in Removals PROVE QuietGood(d)'
      <3>1. QuietGood(d) /\ removal[d].id \in Ids
        BY DEF StoreInv, StoreTypes, Deletions
      <3>2. QED
        BY <2>1, <3>1, NoObjectType DEF QuietGood, Under, Running
    <2>10. QED
      BY <2>5, <2>6, <2>7, <2>8, <2>9 DEF StoreInv
  <1>2. QED
    BY <1>1, AskStepKeeps, RemovalStepKeeps DEF StoreNext

\* An ask reads, runs in and leaves behind only what belongs to its tenant, and a
\* deletion that no ask disturbs is final, through cooldowns, evictions and the
\* reuse of ids, at every interleaving of the queries.
THEOREM SessionsStayApart == StoreSpec => []StoreSafety
  <1>1. StoreInv => StoreSafety
    <2> SUFFICES ASSUME StoreInv PROVE StoreSafety
      OBVIOUS
    <2>1. StoreTypeOK
      BY DEF StoreInv, StoreTypes, StoreTypeOK, Asks, AskSteps, Deletions, RemovalSteps, Objects
    <2>2. OwnHistoryOnly /\ MessagesOfRowOwner
      BY DEF StoreInv, AskGood, MessagesGood, OwnHistoryOnly, MessagesOfRowOwner
    <2>3. ShownToOwner
      <3> SUFFICES ASSUME NEW i \in Ids, NEW o \in Owners, NEW w \in Shown(i, o)
                   PROVE  visit[w].owner = o
        BY DEF ShownToOwner
      <3>1. ObjectGood(i, objects[i]) /\ MessagesGood(i, rows[i], stored[i])
        BY DEF StoreInv
      <3>2. CASE w \in stored[i] /\ rows[i] = o
        BY <3>1, <3>2 DEF MessagesGood
      <3>3. CASE w \in objects[i].turns /\ AccessAllowed(objects[i], o)
        BY <3>1, <3>3, NoObjectType, SessionStoreAssumption DEF ObjectGood, AccessAllowed
      <3>4. QED
        BY <3>2, <3>3 DEF Shown
    <2>4. RunsInOwnObject
      <3> SUFFICES ASSUME NEW v \in Visits, visit[v].step \in {"run", "persist"},
                          objects[visit[v].id].made = visit[v].object
                   PROVE  objects[visit[v].id].owner = visit[v].owner
        BY DEF RunsInOwnObject
      <3>1. visit[v].object \in Visits /\ visit[visit[v].object].owner = visit[v].owner
        BY DEF StoreInv, AskGood
      <3>2. ObjectGood(visit[v].id, objects[visit[v].id])
        BY AskHere
      <3>3. QED
        BY <3>1, <3>2, NoObjectType, SessionStoreAssumption DEF ObjectGood
    <2>5. ErasedStaysErased
      BY DEF StoreInv, ErasedGood, ErasedStaysErased
    <2>6. QED
      BY <2>1, <2>2, <2>3, <2>4, <2>5 DEF StoreSafety
  <1>2. QED
    BY <1>1, StoreInitInv, StoreStep, PTL DEF StoreSpec

----------------------------------------------------------------------------
(* AnswerStream.                                                           *)

Writers == {"loop", "thread"}

WriterRecords == [step : {"rest", "user", "assistant", "measure", "cut"}, pair : Seq(MessageOf),
                  trims : BOOLEAN, kept : Seq(MessageOf)]

ThreadPlaces == {"none", "submitted", "running", "graph", "blank", "raised", "over",
                 "over_graph", "over_blank"}

StreamPlaces == {"new", "relaying", "showing", "streaming", "rating", "fallback", "recording",
                 "done"}

EventKinds == {"status", "token", "graph", "blank", "done", "error"}

StreamTyped ==
    /\ parity \in BOOLEAN
    /\ history \in Seq(MessageOf)
    /\ writing \in [Writers -> WriterRecords]
    /\ at \in [Streams \cup Replies -> StreamPlaces]
    /\ thread \in [Streams -> ThreadPlaces]
    /\ holder \in Streams \cup {NoStream}
    /\ events \in [Streams -> Seq(EventKinds)]
    /\ preLen \in [Streams -> Nat]
    /\ grown \in [Streams -> BOOLEAN]
    /\ text \in [Streams -> Texts \cup {NoText}]
    /\ shown \in [Streams -> SUBSET {"provider", "chunks", "model"}]
    /\ saved \in [Streams -> Texts \cup {NoText}]
    /\ sent \in [Streams -> Texts \cup {NoText, "error", "failed"}]
    /\ clears \in 0..MaxClears
    /\ clearedBy \in SUBSET Streams
    /\ overlapped \in BOOLEAN

\* The stream whose thread is between the turn and its result holds the turn, and the
\* thread that writes is one with a result.
TurnHeld ==
    /\ \A r \in Streams : (thread[r] \in {"running", "graph", "blank"}) = (holder = r)
    /\ writing["thread"].step # "rest" =>
          holder \in Streams /\ thread[holder] \in {"graph", "blank"}

\* A writer that does not rest has a question and its answer.
WritersHavePairs ==
    \A w \in Writers : writing[w].step # "rest" =>
        /\ Len(writing[w].pair) = 2
        /\ writing[w].pair[1].role = "user"
        /\ writing[w].pair[2].role = "assistant"
        /\ writing[w].pair[2].who = writing[w].pair[1].who

\* Every message there is: in the history, on its way there, or in a copy for the cut.
IsHeld(m) ==
    \/ \E i \in DOMAIN history : m = history[i]
    \/ \E w \in Writers : \E i \in DOMAIN writing[w].pair : m = writing[w].pair[i]
    \/ \E w \in Writers : \E i \in DOMAIN writing[w].kept : m = writing[w].kept[i]

NoneOf(r) == \A m \in MessageOf : IsHeld(m) => m.who # r

AllSay(r, t) ==
    \A m \in MessageOf : IsHeld(m) /\ m.who = r /\ m.role = "assistant" => m.text = t

\* Where the generator and the thread of a stream can be at the same time.
Places(r) ==
    /\ at[r] = "new" => thread[r] = "none" /\ text[r] = NoText
    /\ thread[r] # "none" /\ parity => at[r] \in {"relaying", "showing", "recording", "done"}
    /\ thread[r] # "none" /\ ~parity => at[r] \in {"fallback", "recording", "done"}
    /\ at[r] = "relaying" => /\ parity
                             /\ thread[r] \in {"submitted", "running", "graph", "blank", "over",
                                               "raised"}
    /\ at[r] = "showing" => parity /\ thread[r] = "over"
    /\ at[r] \in {"streaming", "rating"} => ~parity /\ thread[r] = "none"
    /\ at[r] = "streaming" => text[r] = NoText
    /\ at[r] = "rating" => text[r] = "model"
    /\ at[r] = "fallback" => ~parity /\ text[r] = NoText
    /\ at[r] = "recording" => /\ thread[r] \in {"none", "over", "over_graph", "over_blank"}
                              /\ thread[r] = "none" => text[r] = "model"
    /\ thread[r] = "over" => parity
    /\ thread[r] \in {"over_graph", "over_blank"} => ~parity
    /\ text[r] = "model" => thread[r] = "none"
    /\ saved[r] # NoText => /\ at[r] = "done" /\ sent[r] = saved[r]
                            /\ thread[r] \in {"none", "over", "over_graph", "over_blank"}

\* The events that wait after the end of a relayed run: its result, if it was not relayed
\* yet, and the end.
Awaits(r, t) ==
    LET n == Len(events[r]) IN
    /\ n >= 1 /\ events[r][n] = "done"
    /\ n = 1 => text[r] = t
    /\ n >= 2 => events[r][n - 1] = t
    /\ \A i \in 1..(n - 2) : events[r][i] \in {"status", "token"}

EventsSoFar(r) ==
    /\ thread[r] \in {"none", "submitted", "running", "graph", "blank"} =>
          /\ Len(events[r]) <= MaxEvents
          /\ \A i \in 1..Len(events[r]) : events[r][i] \in {"status", "token"}
    /\ thread[r] = "raised" => \A i \in 1..Len(events[r]) : events[r][i] \in {"status", "token", "error"}
    /\ Len(events[r]) <= MaxEvents + 2

\* All that the history has of a stream's answer is the text t, which is the one that its
\* thread ended with, that it relays, and that it sends and saves.
Says(r, t) ==
    /\ AllSay(r, t)
    /\ t \in {"graph", "blank", "model"}
    /\ thread[r] \in {"graph", "over_graph"} => t = "graph"
    /\ thread[r] \in {"blank", "over_blank"} => t = "blank"
    /\ thread[r] = "over" => t \in {"graph", "blank"}
    /\ thread[r] = "over" /\ at[r] = "relaying" => Awaits(r, t)
    /\ at[r] = "showing" => text[r] = t
    /\ at[r] = "recording" => text[r] = t \/ (t = "blank" /\ text[r] = "apology")
    /\ text[r] = "model" => t = "model"
    /\ saved[r] # NoText => saved[r] = t \/ (t = "blank" /\ saved[r] = "apology")

\* Nothing of a stream is recorded before its thread has a result or the loop records it.
NotYet(r) ==
    /\ thread[r] \in {"submitted", "running", "raised"} => NoneOf(r)
    /\ thread[r] = "none" /\ at[r] \in {"new", "streaming", "rating"} => NoneOf(r)

\* The history was not full when the stream began, and was not cleared under it.
Visible(r) == preLen[r] < 2 * MaxHistory /\ r \notin clearedBy

\* Then it is never shorter than it was, and longer once the thread has recorded the turn;
\* the stream sees that.
Floor(r) ==
    /\ at[r] \notin {"new", "done"} /\ Visible(r) =>
          /\ Len(history) >= preLen[r]
          /\ thread[r] \in {"graph", "blank"} /\ writing["thread"].step # "user" =>
                Len(history) > preLen[r]
          /\ thread[r] = "over" => Len(history) > preLen[r]
    /\ at[r] = "showing" /\ Visible(r) => grown[r]

RequestIsSound(r) ==
    /\ Places(r)
    /\ EventsSoFar(r)
    /\ \E t \in Texts : Says(r, t)
    /\ NotYet(r)
    /\ Floor(r)

\* Questions of a stream: one in the history, or one on its way to it.
Single(r) ==
    /\ \A i, j \in DOMAIN history :
          /\ history[i].who = r /\ history[i].role = "user"
          /\ history[j].who = r /\ history[j].role = "user"
          => i = j
    /\ \A w \in Writers : writing[w].step = "user" /\ writing[w].pair[1].who = r =>
          /\ \A i \in DOMAIN history : ~(history[i].who = r /\ history[i].role = "user")
          /\ \A v \in Writers \ {w} : ~(writing[v].step = "user" /\ writing[v].pair[1].who = r)

PairsTo(h, n) ==
    \A i \in 1..n : /\ h[2 * i - 1].role = "user" /\ h[2 * i].role = "assistant"
                    /\ h[2 * i].who = h[2 * i - 1].who

Whole(h) == \E n \in Nat : Len(h) = 2 * n /\ PairsTo(h, n)

\* A question without its answer ends the history.
Half(h, who) ==
    \E n \in Nat : /\ Len(h) = 2 * n + 1 /\ PairsTo(h, n)
                   /\ h[2 * n + 1].role = "user" /\ h[2 * n + 1].who = who

\* What the history looks like while no append of the loop overlapped one of a thread.
Shape ==
    /\ (\A w \in Writers : writing[w].step # "assistant") => Whole(history)
    /\ \A w \in Writers :
          /\ writing[w].step = "assistant" => Half(history, writing[w].pair[1].who)
          /\ writing[w].step = "cut" => /\ Len(history) > 2 * MaxHistory
                                        /\ writing[w].kept = Newest(history)
    /\ (\A w \in Writers : writing[w].step # "rest") => \E w \in Writers : writing[w].step = "user"

CutsKeepTurns ==
    \A w \in Writers : writing[w].step = "cut" => Len(writing[w].kept) = 2 * MaxHistory

StreamInvariant ==
    /\ StreamTyped
    /\ TurnHeld
    /\ WritersHavePairs
    /\ CutsKeepTurns
    /\ \A r \in Streams : RequestIsSound(r)
    /\ ~overlapped => Shape
    /\ ~overlapped => \A r \in Streams : Visible(r) => Single(r)

LEMMA Bounds == MaxHistory \in Nat \ {0} /\ MaxEvents \in Nat /\ MaxClears \in Nat
  BY StreamAssumption DEF StreamAssumption

\* Messages of the history, pairs and copies are messages.
LEMMA RestingTyped ==
    /\ Resting \in WriterRecords /\ Resting.step = "rest"
    /\ DOMAIN Resting.pair = {} /\ DOMAIN Resting.kept = {}
<1>1. <<>> \in Seq(MessageOf) /\ DOMAIN <<>> = {}
  OBVIOUS
<1> QED
  BY <1>1 DEF Resting, WriterRecords

LEMMA PairTyped ==
    ASSUME NEW r \in Streams \cup Replies, NEW t \in Texts
    PROVE  /\ Pair(r, t) \in Seq(MessageOf) /\ Len(Pair(r, t)) = 2
           /\ DOMAIN Pair(r, t) = {1, 2}
           /\ Pair(r, t)[1] = [who |-> r, role |-> "user", text |-> "question"]
           /\ Pair(r, t)[2] = [who |-> r, role |-> "assistant", text |-> t]
<1>1. /\ [who |-> r, role |-> "user", text |-> "question"] \in MessageOf
      /\ [who |-> r, role |-> "assistant", text |-> t] \in MessageOf
  BY DEF MessageOf
<1> QED
  BY <1>1 DEF Pair

\* What is left of a sequence from its m-th element on.
LEMMA RestOfSequence ==
    ASSUME NEW S, NEW h \in Seq(S), NEW m \in 1..Len(h)
    PROVE  /\ SubSeq(h, m, Len(h)) \in Seq(S)
           /\ Len(SubSeq(h, m, Len(h))) = Len(h) - m + 1
           /\ \A i \in 1..(Len(h) - m + 1) : SubSeq(h, m, Len(h))[i] = h[m + i - 1]
<1> DEFINE n == Len(h)
<1>1. n \in Nat /\ m \in Int /\ n \in Int /\ m <= n
  OBVIOUS
<1>2. \A i \in m..n : h[i] \in S
  OBVIOUS
<1> HIDE DEF n
<1>3. /\ SubSeq(h, m, n) \in Seq(S)
      /\ Len(SubSeq(h, m, n)) = IF m <= n THEN n - m + 1 ELSE 0
      /\ \A i \in 1 .. n - m + 1 : SubSeq(h, m, n)[i] = h[m + i - 1]
  BY <1>1, <1>2, SubSeqProperties
<1> QED
  BY <1>1, <1>3 DEF n

\* The newest turns of a longer history: what they are and how many.
LEMMA NewestKeeps ==
    ASSUME NEW h \in Seq(MessageOf), Len(h) > 2 * MaxHistory
    PROVE  /\ Newest(h) \in Seq(MessageOf)
           /\ Len(Newest(h)) = 2 * MaxHistory
           /\ DOMAIN Newest(h) = 1..(2 * MaxHistory)
           /\ Len(h) - 2 * MaxHistory \in Nat
           /\ \A i \in 1..(2 * MaxHistory) :
                 /\ Newest(h)[i] = h[Len(h) - 2 * MaxHistory + i]
                 /\ Len(h) - 2 * MaxHistory + i \in DOMAIN h
<1> DEFINE m == Len(h) - 2 * MaxHistory + 1
<1>1. m \in 1..Len(h) /\ Len(h) - m + 1 = 2 * MaxHistory
  BY Bounds
<1>2. Newest(h) = SubSeq(h, m, Len(h))
  BY DEF Newest
<1>3. \A i \in 1..(2 * MaxHistory) :
          m + i - 1 = Len(h) - 2 * MaxHistory + i /\ m + i - 1 \in DOMAIN h
  BY Bounds
<1> HIDE DEF m
<1>4. /\ SubSeq(h, m, Len(h)) \in Seq(MessageOf)
      /\ Len(SubSeq(h, m, Len(h))) = Len(h) - m + 1
      /\ \A i \in 1..(Len(h) - m + 1) : SubSeq(h, m, Len(h))[i] = h[m + i - 1]
  BY <1>1, RestOfSequence
<1>5. /\ Newest(h) \in Seq(MessageOf) /\ Len(Newest(h)) = 2 * MaxHistory
      /\ \A i \in 1..(2 * MaxHistory) : Newest(h)[i] = h[m + i - 1]
  BY <1>1, <1>2, <1>4
<1>6. DOMAIN Newest(h) = 1..(2 * MaxHistory) /\ Len(h) - 2 * MaxHistory \in Nat
  BY <1>5, Bounds
<1> QED
  BY <1>3, <1>5, <1>6

\* A cut of whole turns leaves whole turns.
LEMMA NewestOfWhole ==
    ASSUME NEW h \in Seq(MessageOf), Len(h) > 2 * MaxHistory, Whole(h)
    PROVE  Whole(Newest(h))
<1>1. PICK n \in Nat : Len(h) = 2 * n /\ PairsTo(h, n)
  BY DEF Whole
<1>2. MaxHistory \in Nat /\ n > MaxHistory
  BY <1>1, Bounds
<1>3. \A i \in 1..(2 * MaxHistory) : Newest(h)[i] = h[Len(h) - 2 * MaxHistory + i]
  BY NewestKeeps
<1>4. ASSUME NEW i \in 1..MaxHistory
      PROVE  /\ Newest(h)[2 * i - 1] = h[2 * (n - MaxHistory + i) - 1]
             /\ Newest(h)[2 * i] = h[2 * (n - MaxHistory + i)]
             /\ n - MaxHistory + i \in 1..n
  <2>1. 2 * i - 1 \in 1..(2 * MaxHistory) /\ 2 * i \in 1..(2 * MaxHistory)
    BY <1>2
  <2>2. /\ Len(h) - 2 * MaxHistory + (2 * i - 1) = 2 * (n - MaxHistory + i) - 1
        /\ Len(h) - 2 * MaxHistory + 2 * i = 2 * (n - MaxHistory + i)
    BY <1>1, <1>2
  <2>3. /\ Newest(h)[2 * i - 1] = h[Len(h) - 2 * MaxHistory + (2 * i - 1)]
        /\ Newest(h)[2 * i] = h[Len(h) - 2 * MaxHistory + 2 * i]
    BY <1>3, <2>1
  <2>4. n - MaxHistory + i \in 1..n
    BY <1>2
  <2> QED
    BY <2>2, <2>3, <2>4
<1>5. PairsTo(Newest(h), MaxHistory)
  BY <1>1, <1>4 DEF PairsTo
<1> QED
  BY <1>2, <1>5, NewestKeeps DEF Whole

LEMMA AppendToWhole ==
    ASSUME NEW h \in Seq(MessageOf), NEW m \in MessageOf, Whole(h), m.role = "user"
    PROVE  Half(Append(h, m), m.who)
<1>1. PICK n \in Nat : Len(h) = 2 * n /\ PairsTo(h, n)
  BY DEF Whole
<1>2. /\ Len(Append(h, m)) = 2 * n + 1 /\ Append(h, m)[2 * n + 1] = m
      /\ \A i \in 1..(2 * n) : Append(h, m)[i] = h[i]
  BY <1>1, AppendProperties
<1>3. \A i \in 1..n : 2 * i - 1 \in 1..(2 * n) /\ 2 * i \in 1..(2 * n)
  OBVIOUS
<1>4. PairsTo(Append(h, m), n)
  BY <1>1, <1>2, <1>3 DEF PairsTo
<1> QED
  BY <1>2, <1>4 DEF Half

LEMMA AppendToHalf ==
    ASSUME NEW h \in Seq(MessageOf), NEW m \in MessageOf, Half(h, m.who), m.role = "assistant"
    PROVE  Whole(Append(h, m))
<1>1. PICK n \in Nat : /\ Len(h) = 2 * n + 1 /\ PairsTo(h, n)
                       /\ h[2 * n + 1].role = "user" /\ h[2 * n + 1].who = m.who
  BY DEF Half
<1>2. /\ Len(Append(h, m)) = 2 * n + 2 /\ Append(h, m)[2 * n + 2] = m
      /\ \A i \in 1..(2 * n + 1) : Append(h, m)[i] = h[i]
  BY <1>1, AppendProperties
<1>3. ASSUME NEW i \in 1..(n + 1)
      PROVE  /\ Append(h, m)[2 * i - 1].role = "user" /\ Append(h, m)[2 * i].role = "assistant"
             /\ Append(h, m)[2 * i].who = Append(h, m)[2 * i - 1].who
  <2>1. CASE i = n + 1
    <3>1. 2 * i - 1 = 2 * n + 1 /\ 2 * i = 2 * n + 2 /\ 2 * n + 1 \in 1..(2 * n + 1)
      BY <2>1
    <3> QED
      BY <1>1, <1>2, <3>1
  <2>2. CASE i # n + 1
    <3>1. i \in 1..n /\ 2 * i - 1 \in 1..(2 * n + 1) /\ 2 * i \in 1..(2 * n + 1)
      BY <2>2
    <3> QED
      BY <1>1, <1>2, <3>1 DEF PairsTo
  <2> QED
    BY <2>1, <2>2
<1>4. PairsTo(Append(h, m), n + 1)
  BY <1>3 DEF PairsTo
<1>5. n + 1 \in Nat /\ 2 * n + 2 = 2 * (n + 1)
  OBVIOUS
<1> QED
  BY <1>2, <1>4, <1>5 DEF Whole

\* What is in the history and on its way there are messages.
LEMMA HeldAreMessages ==
    ASSUME StreamTyped
    PROVE  /\ \A i \in DOMAIN history : history[i] \in MessageOf /\ IsHeld(history[i])
           /\ \A w \in Writers : \A i \in DOMAIN writing[w].pair :
                 writing[w].pair[i] \in MessageOf /\ IsHeld(writing[w].pair[i])
           /\ \A w \in Writers : \A i \in DOMAIN writing[w].kept :
                 writing[w].kept[i] \in MessageOf /\ IsHeld(writing[w].kept[i])
<1>1. ASSUME NEW s \in Seq(MessageOf), NEW i \in DOMAIN s
      PROVE  s[i] \in MessageOf
  OBVIOUS
<1>2. history \in Seq(MessageOf)
  BY DEF StreamTyped
<1>3. \A w \in Writers : writing[w].pair \in Seq(MessageOf) /\ writing[w].kept \in Seq(MessageOf)
  BY DEF StreamTyped, WriterRecords
<1> QED
  BY <1>1, <1>2, <1>3 DEF IsHeld

LEMMA StreamStarts == StreamInit => StreamInvariant
<1> SUFFICES ASSUME StreamInit PROVE StreamInvariant
  OBVIOUS
<1> DEFINE full == [i \in 1..(2 * MaxHistory) |-> EarlierPair[2 - (i % 2)]]
<1>1. ASSUME NEW i \in Nat
      PROVE  i % 2 \in {0, 1} /\ (2 * i) % 2 = 0 /\ (2 * i + 1) % 2 = 1
  OBVIOUS
<1>2. /\ EarlierPair[1] \in MessageOf /\ EarlierPair[1].role = "user" /\ EarlierPair[1].who = "earlier"
      /\ EarlierPair[2] \in MessageOf /\ EarlierPair[2].role = "assistant"
      /\ EarlierPair[2].who = "earlier"
  BY DEF EarlierPair, Earlier, MessageOf
<1>3. \A i \in 1..(2 * MaxHistory) : full[i] \in MessageOf /\ full[i].who = "earlier"
  <2> SUFFICES ASSUME NEW i \in 1..(2 * MaxHistory)
               PROVE  full[i] \in MessageOf /\ full[i].who = "earlier"
    OBVIOUS
  <2>1. i \in Nat
    BY Bounds
  <2>2. 2 - (i % 2) = 1 \/ 2 - (i % 2) = 2
    BY <1>1, <2>1
  <2> QED
    BY <1>2, <2>2
<1>4. full \in Seq(MessageOf) /\ Len(full) = 2 * MaxHistory
  <2>1. 2 * MaxHistory \in Nat
    BY Bounds
  <2> HIDE DEF full
  <2>2. full \in [1..(2 * MaxHistory) -> MessageOf]
    BY <1>3 DEF full
  <2> QED
    BY <2>1, <2>2
<1>5. Whole(full)
  <2>1. ASSUME NEW i \in 1..MaxHistory
        PROVE  /\ full[2 * i - 1] = EarlierPair[1] /\ full[2 * i] = EarlierPair[2]
    <3>1. 2 * i - 1 \in 1..(2 * MaxHistory) /\ 2 * i \in 1..(2 * MaxHistory)
      BY Bounds
    <3>2. (2 * i) % 2 = 0 /\ (2 * i - 1) % 2 = 1
      <4>1. i - 1 \in Nat /\ 2 * (i - 1) + 1 = 2 * i - 1 /\ i \in Nat
        BY Bounds
      <4> QED
        BY <1>1, <4>1
    <3> QED
      BY <3>1, <3>2
  <2> HIDE DEF full
  <2>2. PairsTo(full, MaxHistory)
    BY <1>2, <2>1 DEF PairsTo
  <2> QED
    BY <1>4, <2>2, Bounds DEF Whole
<1>6. Whole(<<>>)
  <2>1. PairsTo(<<>>, 0)
    BY DEF PairsTo
  <2> QED
    BY <2>1 DEF Whole
<1> HIDE DEF full
<1>7. /\ history \in Seq(MessageOf) /\ Whole(history)
      /\ \A i \in DOMAIN history : history[i].who = "earlier"
  <2>1. CASE history = <<>>
    BY <1>6, <2>1
  <2>2. CASE history = full
    <3>1. DOMAIN history = 1..(2 * MaxHistory)
      BY <1>4, <2>2
    <3> QED
      BY <1>3, <1>4, <1>5, <2>2, <3>1
  <2> QED
    BY <2>1, <2>2 DEF StreamInit, full
<1>8. StreamTyped
  <2> USE DEF StreamInit
  <2>1. writing \in [Writers -> WriterRecords]
    BY RestingTyped DEF Writers
  <2>2. at \in [Streams \cup Replies -> StreamPlaces] /\ thread \in [Streams -> ThreadPlaces]
    BY DEF StreamPlaces, ThreadPlaces
  <2>3. events \in [Streams -> Seq(EventKinds)]
    BY EmptySeq
  <2>4. 0 \in 0..MaxClears
    BY Bounds
  <2>5. /\ preLen \in [Streams -> Nat] /\ grown \in [Streams -> BOOLEAN]
        /\ text \in [Streams -> Texts \cup {NoText}] /\ saved \in [Streams -> Texts \cup {NoText}]
        /\ sent \in [Streams -> Texts \cup {NoText, "error", "failed"}]
        /\ shown \in [Streams -> SUBSET {"provider", "chunks", "model"}]
    OBVIOUS
  <2> QED
    BY <1>7, <2>1, <2>2, <2>3, <2>4, <2>5 DEF StreamTyped
<1>9. /\ \A w \in Writers : writing[w] = Resting
      /\ \A w \in Writers : writing[w].step = "rest"
  BY RestingTyped DEF StreamInit, Writers
<1>10. \A m : IsHeld(m) => m.who = "earlier"
  BY <1>7, <1>9, RestingTyped DEF IsHeld
<1>11. \A r \in Streams : NoneOf(r)
  BY <1>10, StreamAssumption DEF NoneOf, StreamAssumption
<1>12. TurnHeld
  <2>1. NoStream \notin Streams
    BY StreamAssumption DEF StreamAssumption, NoStream
  <2> QED
    BY <1>9, <2>1 DEF TurnHeld, StreamInit, Writers
<1>13. ASSUME NEW r \in Streams
       PROVE  RequestIsSound(r)
  <2>1. /\ at[r] = "new" /\ thread[r] = "none" /\ text[r] = NoText /\ saved[r] = NoText
        /\ events[r] = <<>>
    BY DEF StreamInit
  <2>2. Len(events[r]) = 0
    BY <2>1
  <2>3. Says(r, "graph")
    BY <1>11, <2>1 DEF Says, AllSay, NoneOf, NoText
  <2>4. Places(r) /\ NotYet(r) /\ Floor(r)
    BY <1>11, <2>1 DEF Places, NotYet, Floor, NoText
  <2>5. EventsSoFar(r)
    BY <2>1, <2>2, Bounds DEF EventsSoFar
  <2> QED
    BY <2>3, <2>4, <2>5 DEF RequestIsSound, Texts
<1>14. Shape
  BY <1>7, <1>9 DEF Shape, Writers
<1>15. \A r \in Streams : Single(r)
  <2>1. \A r \in Streams : \A i \in DOMAIN history : history[i].who # r
    BY <1>7, StreamAssumption DEF StreamAssumption
  <2> QED
    BY <1>9, <2>1 DEF Single
<1> QED
  BY <1>8, <1>9, <1>12, <1>13, <1>14, <1>15 DEF StreamInvariant, WritersHavePairs, CutsKeepTurns

----------------------------------------------------------------------------
\* A stream of which nothing is held is recorded at most once.
LEMMA NoneIsSingle ==
    ASSUME StreamInvariant, NEW r, NoneOf(r)
    PROVE  Single(r)
<1>1. \A i \in DOMAIN history : history[i].who # r
  BY HeldAreMessages DEF NoneOf, StreamInvariant
<1>2. ASSUME NEW w \in Writers, writing[w].step = "user"
      PROVE  writing[w].pair[1].who # r
  <2>1. Len(writing[w].pair) = 2 /\ writing[w].pair \in Seq(MessageOf)
    BY <1>2 DEF StreamInvariant, WritersHavePairs, StreamTyped, WriterRecords
  <2>2. 1 \in DOMAIN writing[w].pair
    BY <2>1
  <2> QED
    BY <2>2, HeldAreMessages DEF NoneOf, StreamInvariant
<1> QED
  BY <1>1, <1>2 DEF Single

\* A step that writes nothing keeps what holds of the history and its writers.
LEMMA NothingWritten ==
    ASSUME StreamInvariant, UNCHANGED <<history, writing, overlapped>>,
           \A q \in Streams : Visible(q)' => Visible(q) \/ NoneOf(q)
    PROVE  /\ \A m : IsHeld(m)' <=> IsHeld(m)
           /\ WritersHavePairs' /\ CutsKeepTurns'
           /\ ~overlapped' => Shape'
           /\ ~overlapped' => \A q \in Streams : Visible(q)' => Single(q)'
<1>1. ~overlapped => \A q \in Streams : Visible(q)' => Single(q)
  BY NoneIsSingle DEF StreamInvariant
<1>2. \A m : IsHeld(m)' <=> IsHeld(m)
  BY DEF IsHeld
<1>3. WritersHavePairs' /\ CutsKeepTurns' /\ (~overlapped' => Shape')
  BY DEF StreamInvariant, WritersHavePairs, CutsKeepTurns, Shape
<1>4. \A q \in Streams : Single(q)' <=> Single(q)
  BY DEF Single
<1> QED
  BY <1>1, <1>2, <1>3, <1>4

\* The writer w, which rested, begins with the pair of r.
LEMMA WritingStarts ==
    ASSUME StreamInvariant, NEW w \in Writers, NEW r \in Streams \cup Replies, NEW t \in Texts,
           NEW trims \in BOOLEAN, writing[w].step = "rest", StartWriting(w, r, t, trims),
           UNCHANGED <<history, overlapped, preLen, clearedBy>>
    PROVE  /\ writing' \in [Writers -> WriterRecords]
           /\ writing'[w].step = "user"
           /\ \A v \in Writers \ {w} : writing'[v] = writing[v]
           /\ \A m : IsHeld(m)' =>
                 \/ IsHeld(m)
                 \/ m = [who |-> r, role |-> "user", text |-> "question"]
                 \/ m = [who |-> r, role |-> "assistant", text |-> t]
           /\ WritersHavePairs' /\ CutsKeepTurns'
           /\ ~overlapped' => Shape'
           /\ ~overlapped' => \A q \in Streams :
                  Visible(q)' /\ (q = r => NoneOf(r)) => Single(q)'
<1> DEFINE rec == [step |-> "user", pair |-> Pair(r, t), trims |-> trims, kept |-> <<>>]
<1>1. /\ Pair(r, t) \in Seq(MessageOf) /\ Len(Pair(r, t)) = 2
      /\ DOMAIN Pair(r, t) = {1, 2}
      /\ Pair(r, t)[1] = [who |-> r, role |-> "user", text |-> "question"]
      /\ Pair(r, t)[2] = [who |-> r, role |-> "assistant", text |-> t]
  BY PairTyped
<1>2. rec \in WriterRecords /\ rec.step = "user" /\ rec.pair = Pair(r, t) /\ rec.kept = <<>>
  BY <1>1, EmptySeq DEF WriterRecords
<1>3. writing' = [writing EXCEPT ![w] = rec] /\ writing \in [Writers -> WriterRecords]
  BY DEF StartWriting, StreamInvariant, StreamTyped
<1> HIDE DEF rec
<1>4. /\ writing' \in [Writers -> WriterRecords] /\ writing'[w] = rec
      /\ \A v \in Writers \ {w} : writing'[v] = writing[v]
  BY <1>2, <1>3
<1>5. ASSUME NEW m, IsHeld(m)'
      PROVE  \/ IsHeld(m)
             \/ m = [who |-> r, role |-> "user", text |-> "question"]
             \/ m = [who |-> r, role |-> "assistant", text |-> t]
  <2>1. CASE \E i \in DOMAIN history : m = history[i]
    BY <2>1 DEF IsHeld
  <2>2. ASSUME NEW v \in Writers, NEW i \in DOMAIN writing'[v].pair, m = writing'[v].pair[i]
        PROVE  \/ IsHeld(m)
               \/ m = [who |-> r, role |-> "user", text |-> "question"]
               \/ m = [who |-> r, role |-> "assistant", text |-> t]
    <3>1. CASE v = w
      BY <1>1, <1>2, <1>4, <2>2, <3>1
    <3>2. CASE v # w
      BY <1>4, <2>2, <3>2 DEF IsHeld
    <3> QED
      BY <3>1, <3>2
  <2>3. ASSUME NEW v \in Writers, NEW i \in DOMAIN writing'[v].kept, m = writing'[v].kept[i]
        PROVE  IsHeld(m)
    <3>1. CASE v = w
      <4>1. DOMAIN <<>> = {}
        OBVIOUS
      <4> QED
        BY <1>2, <1>4, <2>3, <3>1, <4>1
    <3>2. CASE v # w
      BY <1>4, <2>3, <3>2 DEF IsHeld
    <3> QED
      BY <3>1, <3>2
  <2>4. history' = history
    OBVIOUS
  <2> QED
    BY <1>5, <2>1, <2>2, <2>3, <2>4 DEF IsHeld
<1>6. WritersHavePairs' /\ CutsKeepTurns'
  BY <1>1, <1>2, <1>4 DEF StreamInvariant, WritersHavePairs, CutsKeepTurns
<1>7. ~overlapped' => Shape'
  <2> SUFFICES ASSUME ~overlapped PROVE Shape'
    OBVIOUS
  <2>1. Shape
    BY DEF StreamInvariant
  <2>2. \A v \in Writers : writing'[v].step \in {"assistant", "cut"} =>
            v # w /\ writing'[v] = writing[v]
    BY <1>2, <1>4
  <2>3. (\A v \in Writers : writing'[v].step # "assistant") =>
            (\A v \in Writers : writing[v].step # "assistant")
    BY <1>4
  <2> QED
    BY <1>2, <1>4, <2>1, <2>2, <2>3 DEF Shape
<1>8. ASSUME ~overlapped', NEW q \in Streams, Visible(q)', q = r => NoneOf(r)
      PROVE  Single(q)'
  <2>1. Single(q)
    BY <1>8 DEF StreamInvariant, Visible
  <2>2. CASE q # r
    <3>1. writing'[w].pair[1].who = r
      BY <1>1, <1>2, <1>4
    <3> QED
      BY <1>4, <2>1, <2>2, <3>1 DEF Single
  <2>3. CASE q = r
    <3>1. \A i \in DOMAIN history : history[i].who # r
      BY <1>8, <2>3, HeldAreMessages DEF NoneOf, StreamInvariant
    <3>2. ASSUME NEW v \in Writers \ {w}, writing[v].step = "user"
          PROVE  writing[v].pair[1].who # r
      <4>1. Len(writing[v].pair) = 2 /\ writing[v].pair \in Seq(MessageOf)
        BY <3>2 DEF StreamInvariant, WritersHavePairs, StreamTyped, WriterRecords
      <4>2. 1 \in DOMAIN writing[v].pair
        BY <4>1
      <4> QED
        BY <1>8, <2>3, <4>2, HeldAreMessages DEF NoneOf, StreamInvariant
    <3> QED
      BY <1>4, <2>3, <3>1, <3>2 DEF Single
  <2> QED
    BY <2>2, <2>3
<1> QED
  BY <1>2, <1>4, <1>5, <1>6, <1>7, <1>8

\* A step of one stream keeps what holds of the others.
LEMMA OthersSound ==
    ASSUME StreamInvariant, NEW r,
           UNCHANGED <<parity, history, clearedBy>>,
           \A q \in Streams \ {r} :
              /\ at'[q] = at[q] /\ thread'[q] = thread[q] /\ events'[q] = events[q]
              /\ preLen'[q] = preLen[q] /\ grown'[q] = grown[q] /\ text'[q] = text[q]
              /\ saved'[q] = saved[q] /\ sent'[q] = sent[q],
           \A m \in MessageOf : IsHeld(m)' => IsHeld(m) \/ m.who = r,
           \A q \in Streams \ {r} : thread[q] \in {"graph", "blank"} =>
              writing'["thread"].step = writing["thread"].step
    PROVE  \A q \in Streams \ {r} : RequestIsSound(q)'
<1> SUFFICES ASSUME NEW q \in Streams \ {r} PROVE RequestIsSound(q)'
  OBVIOUS
<1>1. RequestIsSound(q)
  BY DEF StreamInvariant
<1>2. /\ at'[q] = at[q] /\ thread'[q] = thread[q] /\ events'[q] = events[q]
      /\ preLen'[q] = preLen[q] /\ grown'[q] = grown[q] /\ text'[q] = text[q]
      /\ saved'[q] = saved[q] /\ sent'[q] = sent[q] /\ parity' = parity
  OBVIOUS
<1>3. Places(q)' /\ EventsSoFar(q)'
  <2>1. Places(q) /\ EventsSoFar(q)
    BY <1>1 DEF RequestIsSound
  <2>2. Places(q)'
    <3>1. parity \in BOOLEAN
      BY DEF StreamInvariant, StreamTyped
    <3> QED
      BY ONLY <1>2, <2>1, <3>1, SMT DEF Places
  <2>3. EventsSoFar(q)'
    BY <1>2, <2>1 DEF EventsSoFar
  <2> QED
    BY <2>2, <2>3
<1>4. NoneOf(q) => NoneOf(q)'
  BY DEF NoneOf
<1>5. NotYet(q)'
  BY <1>1, <1>2, <1>4 DEF RequestIsSound, NotYet
<1>6. \E t \in Texts : Says(q, t)'
  <2>1. PICK t \in Texts : Says(q, t)
    BY <1>1 DEF RequestIsSound
  <2>2. AllSay(q, t)'
    BY <2>1 DEF Says, AllSay
  <2>3. Awaits(q, t) => Awaits(q, t)'
    BY <1>2 DEF Awaits
  <2> QED
    BY <1>2, <2>1, <2>2, <2>3 DEF Says
<1>7. Floor(q)'
  BY <1>1, <1>2 DEF RequestIsSound, Floor, Visible
<1> QED
  BY <1>3, <1>5, <1>6, <1>7 DEF RequestIsSound

----------------------------------------------------------------------------
\* A step that writes nothing keeps what is said of a stream.
LEMMA NothingHeld ==
    ASSUME UNCHANGED <<history, writing>>, NEW q
    PROVE  /\ NoneOf(q) => NoneOf(q)'
           /\ \A t : AllSay(q, t) => AllSay(q, t)'
<1>1. \A m : IsHeld(m)' <=> IsHeld(m)
  BY DEF IsHeld
<1> QED
  BY <1>1 DEF NoneOf, AllSay

\* What is known of one stream.
LEMMA OneStream ==
    ASSUME StreamInvariant, NEW r \in Streams
    PROVE  /\ Places(r) /\ EventsSoFar(r) /\ NotYet(r) /\ Floor(r)
           /\ \E t \in Texts : Says(r, t)
           /\ parity \in BOOLEAN /\ history \in Seq(MessageOf) /\ Len(history) \in Nat
           /\ r \in Streams \cup Replies
           /\ thread[r] \in ThreadPlaces /\ at[r] \in StreamPlaces
           /\ events[r] \in Seq(EventKinds) /\ preLen[r] \in Nat /\ grown[r] \in BOOLEAN
           /\ text[r] \in Texts \cup {NoText} /\ saved[r] \in Texts \cup {NoText}
           /\ sent[r] \in Texts \cup {NoText, "error", "failed"}
<1>1. RequestIsSound(r)
  BY DEF StreamInvariant
<1>2. StreamTyped
  BY DEF StreamInvariant
<1> QED
  BY <1>1, <1>2 DEF RequestIsSound, StreamTyped

\* A step of one stream that writes nothing keeps the invariant if that stream stays sound.
LEMMA OneStreamMoves ==
    ASSUME StreamInvariant, NEW r \in Streams,
           UNCHANGED <<parity, history, writing, clearedBy, overlapped>>,
           \A q \in Streams \ {r} :
              /\ at'[q] = at[q] /\ thread'[q] = thread[q] /\ events'[q] = events[q]
              /\ preLen'[q] = preLen[q] /\ grown'[q] = grown[q] /\ text'[q] = text[q]
              /\ saved'[q] = saved[q] /\ sent'[q] = sent[q],
           preLen'[r] = preLen[r] \/ NoneOf(r),
           StreamTyped', TurnHeld', RequestIsSound(r)'
    PROVE  StreamInvariant'
<1>1. \A q \in Streams : Visible(q)' => Visible(q) \/ NoneOf(q)
  BY DEF Visible
<1>2. /\ \A m : IsHeld(m)' <=> IsHeld(m)
      /\ WritersHavePairs' /\ CutsKeepTurns'
      /\ ~overlapped' => Shape'
      /\ ~overlapped' => \A q \in Streams : Visible(q)' => Single(q)'
  BY <1>1, NothingWritten
<1>3. \A q \in Streams \ {r} : RequestIsSound(q)'
  BY <1>2, OthersSound
<1> QED
  BY <1>2, <1>3 DEF StreamInvariant

----------------------------------------------------------------------------
(* Each step of a stream that writes nothing.                              *)

LEMMA TakeTurnIsSound ==
    ASSUME StreamInvariant, NEW r \in Streams, TakeTurn(r)
    PROVE  StreamInvariant'
<1>1. /\ UNCHANGED <<parity, history, writing, at, events, preLen, grown, text, shown, saved,
                     sent, clears, clearedBy, overlapped>>
      /\ holder = NoStream /\ holder' = r
      /\ thread[r] = "submitted" /\ thread'[r] = "running"
      /\ \A q \in Streams \ {r} : thread'[q] = thread[q]
      /\ thread' \in [Streams -> ThreadPlaces]
  BY DEF TakeTurn, StreamInvariant, StreamTyped, ThreadPlaces
<1>2. StreamTyped'
  BY <1>1 DEF StreamInvariant, StreamTyped
<1>3. TurnHeld'
  <2>1. NoStream \notin Streams
    BY StreamAssumption DEF StreamAssumption, NoStream
  <2> QED
    BY <1>1, <2>1 DEF StreamInvariant, TurnHeld
<1>4. PICK t \in Texts : Says(r, t)
  BY OneStream
<1>5. Places(r)' /\ EventsSoFar(r)'
  BY <1>1, OneStream DEF Places, EventsSoFar
<1>6. Says(r, t)' /\ NotYet(r)'
  BY <1>1, <1>4, OneStream, NothingHeld DEF Says, NotYet
<1>7. Floor(r)'
  BY <1>1, OneStream DEF Floor, Visible
<1> QED
  BY <1>1, <1>2, <1>3, <1>5, <1>6, <1>7, OneStreamMoves DEF RequestIsSound

LEMMA EmitEventIsSound ==
    ASSUME StreamInvariant, NEW r \in Streams, NEW e \in {"status", "token"}, EmitEvent(r, e)
    PROVE  StreamInvariant'
<1>1. /\ UNCHANGED <<parity, history, writing, at, thread, holder, preLen, grown, text, shown,
                     saved, sent, clears, clearedBy, overlapped>>
      /\ thread[r] = "running" /\ Len(events[r]) < MaxEvents
      /\ events'[r] = Append(events[r], e)
      /\ \A q \in Streams \ {r} : events'[q] = events[q]
      /\ events' \in [Streams -> Seq(EventKinds)]
  <2>1. Append(events[r], e) \in Seq(EventKinds)
    BY OneStream DEF EventKinds
  <2> QED
    BY <2>1 DEF EmitEvent, StreamInvariant, StreamTyped
<1>2. StreamTyped' /\ TurnHeld'
  BY <1>1 DEF StreamInvariant, StreamTyped, TurnHeld
<1>3. PICK t \in Texts : Says(r, t)
  BY OneStream
<1>4. Places(r)'
  BY <1>1, OneStream DEF Places
<1>5. EventsSoFar(r)'
  <2>1. /\ Len(events'[r]) = Len(events[r]) + 1 /\ events'[r][Len(events[r]) + 1] = e
        /\ \A i \in 1..Len(events[r]) : events'[r][i] = events[r][i]
        /\ Len(events[r]) \in Nat
    BY <1>1, OneStream, AppendProperties
  <2>2. \A i \in 1..Len(events[r]) : events[r][i] \in {"status", "token"}
    BY <1>1, OneStream DEF EventsSoFar
  <2>3. thread'[r] = "running"
    BY <1>1
  <2>4. \A i \in 1..Len(events'[r]) : events'[r][i] \in {"status", "token"}
    BY <2>1, <2>2
  <2>5. Len(events'[r]) <= MaxEvents /\ Len(events'[r]) <= MaxEvents + 2
    BY <1>1, <2>1, Bounds
  <2> QED
    BY <2>3, <2>4, <2>5 DEF EventsSoFar
<1>6. Says(r, t)' /\ NotYet(r)'
  BY <1>1, <1>3, OneStream, NothingHeld DEF Says, NotYet
<1>7. Floor(r)'
  BY <1>1, OneStream DEF Floor, Visible
<1> QED
  BY <1>1, <1>2, <1>4, <1>5, <1>6, <1>7, OneStreamMoves DEF RequestIsSound

LEMMA GraphRaisesIsSound ==
    ASSUME StreamInvariant, NEW r \in Streams, GraphRaises(r)
    PROVE  StreamInvariant'
<1>1. /\ UNCHANGED <<parity, history, writing, at, preLen, grown, text, shown, saved, sent,
                     clears, clearedBy, overlapped>>
      /\ holder' = NoStream
      /\ thread[r] = "running" /\ thread'[r] = "raised"
      /\ events'[r] = Append(events[r], "error") \/ events'[r] = events[r]
      /\ \A q \in Streams \ {r} : thread'[q] = thread[q] /\ events'[q] = events[q]
      /\ thread' \in [Streams -> ThreadPlaces]
      /\ events' \in [Streams -> Seq(EventKinds)]
  <2>1. Append(events[r], "error") \in Seq(EventKinds)
    BY OneStream DEF EventKinds
  <2> QED
    BY <2>1 DEF GraphRaises, StreamInvariant, StreamTyped, ThreadPlaces
<1>2. StreamTyped'
  BY <1>1 DEF StreamInvariant, StreamTyped
<1>3. TurnHeld'
  <2>1. NoStream \notin Streams
    BY StreamAssumption DEF StreamAssumption, NoStream
  <2>2. holder = r /\ writing["thread"].step = "rest"
    BY <1>1 DEF StreamInvariant, TurnHeld
  <2>3. \A q \in Streams : thread'[q] \notin {"running", "graph", "blank"} /\ holder' # q
    <3>1. \A q \in Streams \ {r} : thread'[q] \notin {"running", "graph", "blank"}
      BY <1>1, <2>2 DEF StreamInvariant, TurnHeld
    <3> QED
      BY <1>1, <2>1, <3>1
  <2> QED
    BY <1>1, <2>2, <2>3 DEF TurnHeld
<1>4. PICK t \in Texts : Says(r, t)
  BY OneStream
<1>5. Places(r)'
  BY <1>1, OneStream DEF Places
<1>6. EventsSoFar(r)'
  <2>1. /\ \A i \in 1..Len(events[r]) : events[r][i] \in {"status", "token"}
        /\ Len(events[r]) <= MaxEvents /\ Len(events[r]) \in Nat
    BY <1>1, OneStream DEF EventsSoFar
  <2>2. /\ \A i \in 1..Len(events'[r]) : events'[r][i] \in {"status", "token", "error"}
        /\ Len(events'[r]) <= Len(events[r]) + 1 /\ Len(events'[r]) \in Nat
    <3>1. CASE events'[r] = Append(events[r], "error")
      <4>1. /\ Len(events'[r]) = Len(events[r]) + 1 /\ events'[r][Len(events[r]) + 1] = "error"
            /\ \A i \in 1..Len(events[r]) : events'[r][i] = events[r][i]
        BY <3>1, OneStream, AppendProperties DEF EventKinds
      <4> QED
        BY <2>1, <4>1
    <3>2. CASE events'[r] = events[r]
      BY <2>1, <3>2
    <3> QED
      BY <1>1, <3>1, <3>2
  <2>3. Len(events'[r]) <= MaxEvents + 2
    BY <2>1, <2>2, Bounds
  <2> QED
    BY <1>1, <2>2, <2>3 DEF EventsSoFar
<1>7. Says(r, t)' /\ NotYet(r)'
  BY <1>1, <1>4, OneStream, NothingHeld DEF Says, NotYet
<1>8. Floor(r)'
  BY <1>1, OneStream DEF Floor, Visible
<1> QED
  BY <1>1, <1>2, <1>3, <1>5, <1>6, <1>7, <1>8, OneStreamMoves DEF RequestIsSound

LEMMA PublishResultIsSound ==
    ASSUME StreamInvariant, NEW r \in Streams, PublishResult(r)
    PROVE  StreamInvariant'
<1> DEFINE said == events[r] \o <<thread[r], "done">>
<1>1. /\ thread[r] \in {"graph", "blank"} /\ writing["thread"].step = "rest"
      /\ UNCHANGED <<parity, history, writing, at, preLen, grown, text, shown, saved, sent,
                     clears, clearedBy, overlapped>>
      /\ holder' = NoStream
  BY DEF PublishResult
<1>2. /\ said \in Seq(EventKinds) /\ Len(said) = Len(events[r]) + 2
      /\ said[Len(events[r]) + 1] = thread[r] /\ said[Len(events[r]) + 2] = "done"
      /\ \A i \in 1..Len(events[r]) : said[i] = events[r][i]
  <2>1. <<thread[r], "done">> \in Seq(EventKinds) /\ Len(<<thread[r], "done">>) = 2
        /\ <<thread[r], "done">>[1] = thread[r] /\ <<thread[r], "done">>[2] = "done"
    BY <1>1 DEF EventKinds
  <2> DEFINE two == <<thread[r], "done">>
  <2> HIDE DEF two
  <2>2. events[r] \in Seq(EventKinds) /\ two \in Seq(EventKinds) /\ Len(two) = 2
        /\ two[1] = thread[r] /\ two[2] = "done"
    BY <2>1, OneStream DEF two
  <2>3. said = events[r] \o two
    BY DEF two
  <2>4. /\ events[r] \o two \in Seq(EventKinds) /\ Len(events[r] \o two) = Len(events[r]) + 2
        /\ (events[r] \o two)[Len(events[r]) + 1] = two[1]
        /\ (events[r] \o two)[Len(events[r]) + 2] = two[2]
        /\ \A i \in 1..Len(events[r]) : (events[r] \o two)[i] = events[r][i]
    <3> DEFINE old == events[r]
    <3> HIDE DEF old
    <3>1. old \in Seq(EventKinds) /\ Len(old) \in Nat
      BY <2>2 DEF old
    <3>2. /\ old \o two \in Seq(EventKinds) /\ Len(old \o two) = Len(old) + Len(two)
          /\ \A i \in 1..(Len(old) + Len(two)) :
                (old \o two)[i] = IF i <= Len(old) THEN old[i] ELSE two[i - Len(old)]
      BY <2>2, <3>1, ConcatProperties
    <3>3. /\ Len(old) + 1 - Len(old) = 1 /\ Len(old) + 2 - Len(old) = 2
          /\ Len(old) + 1 \in 1..(Len(old) + 2) /\ Len(old) + 2 \in 1..(Len(old) + 2)
          /\ ~(Len(old) + 1 <= Len(old)) /\ ~(Len(old) + 2 <= Len(old))
          /\ \A i \in 1..Len(old) : i \in 1..(Len(old) + 2) /\ i <= Len(old)
      BY <3>1
    <3> QED
      BY <2>2, <3>2, <3>3 DEF old
  <2> QED
    BY <2>2, <2>3, <2>4
<1> HIDE DEF said
<1>3. /\ IF Relays(r) THEN events'[r] = said /\ thread'[r] = "over"
         ELSE /\ events'[r] = events[r]
              /\ thread'[r] = IF thread[r] = "graph" THEN "over_graph" ELSE "over_blank"
      /\ \A q \in Streams \ {r} : thread'[q] = thread[q] /\ events'[q] = events[q]
      /\ thread' \in [Streams -> ThreadPlaces]
      /\ events' \in [Streams -> Seq(EventKinds)]
  <2>1. /\ thread' = [thread EXCEPT ![r] = IF Relays(r) THEN "over" ELSE Returned(thread[r])]
        /\ events' = [events EXCEPT ![r] = IF Relays(r) THEN said ELSE events[r]]
        /\ thread \in [Streams -> ThreadPlaces] /\ events \in [Streams -> Seq(EventKinds)]
    BY DEF PublishResult, said, StreamInvariant, StreamTyped
  <2>2. Returned(thread[r]) = IF thread[r] = "graph" THEN "over_graph" ELSE "over_blank"
    BY DEF Returned
  <2> QED
    BY <1>2, <2>1, <2>2, OneStream DEF ThreadPlaces
<1>4. StreamTyped'
  BY <1>1, <1>3 DEF StreamInvariant, StreamTyped
<1>5. TurnHeld'
  <2>1. NoStream \notin Streams
    BY StreamAssumption DEF StreamAssumption, NoStream
  <2>2. holder = r
    BY <1>1 DEF StreamInvariant, TurnHeld
  <2>3. thread'[r] \in {"over", "over_graph", "over_blank"}
    BY <1>3
  <2> QED
    <3>1. \A q \in Streams \ {r} : thread'[q] \notin {"graph", "blank", "running"}
      BY <1>3, <2>2 DEF StreamInvariant, TurnHeld
    <3>2. \A q \in Streams : thread'[q] \notin {"graph", "blank", "running"} /\ holder' # q
      BY <1>1, <2>1, <2>3, <3>1
    <3> QED
      BY <1>1, <3>2 DEF TurnHeld
<1>6. PICK t \in Texts : Says(r, t)
  BY OneStream
<1>7. /\ Len(events[r]) <= MaxEvents /\ Len(events[r]) \in Nat
      /\ \A i \in 1..Len(events[r]) : events[r][i] \in {"status", "token"}
      /\ thread[r] = t
  BY <1>1, <1>6, OneStream DEF EventsSoFar, Says
<1>8. at[r] # "new" /\ at[r] # "showing" /\ at[r] # "recording" /\ saved[r] = NoText
      /\ text[r] # "model"
  BY <1>1, OneStream DEF Places
<1>9. CASE Relays(r)
  <2>1. events'[r] = said /\ thread'[r] = "over" /\ parity
    BY <1>3, <1>9 DEF Relays
  <2>2. Places(r)'
    BY <1>1, <1>8, <2>1, OneStream DEF Places
  <2>3. Len(said) <= MaxEvents + 2
    BY <1>2, <1>7, Bounds
  <2>4. EventsSoFar(r)'
    BY <2>1, <2>3 DEF EventsSoFar
  <2>5. Awaits(r, t)'
    <3>1. Len(said) - 1 = Len(events[r]) + 1 /\ Len(said) - 2 = Len(events[r])
          /\ Len(said) >= 2 /\ Len(said) # 1
      BY <1>2, <1>7
    <3>2. \A i \in 1..(Len(said) - 2) : said[i] \in {"status", "token"}
      BY <1>2, <1>7, <3>1
    <3>3. said[Len(said)] = "done" /\ said[Len(said) - 1] = t
      BY <1>2, <1>7, <3>1
    <3> QED
      BY <2>1, <3>1, <3>2, <3>3 DEF Awaits
  <2>6. Says(r, t)' /\ NotYet(r)'
    BY <1>1, <1>6, <1>7, <1>8, <2>1, <2>5, OneStream, NothingHeld DEF Says, NotYet
  <2>7. Floor(r)'
    BY <1>1, <1>8, <2>1, OneStream DEF Floor, Visible
  <2> QED
    BY <1>1, <1>3, <1>4, <1>5, <2>2, <2>4, <2>6, <2>7, OneStreamMoves DEF RequestIsSound
<1>10. CASE ~Relays(r)
  <2>1. /\ events'[r] = events[r] /\ ~parity
        /\ thread'[r] = IF thread[r] = "graph" THEN "over_graph" ELSE "over_blank"
    BY <1>3, <1>10, OneStream DEF Relays, Places
  <2>2. Places(r)'
    BY <1>1, <1>8, <2>1, OneStream DEF Places
  <2>3. EventsSoFar(r)'
    BY <2>1, OneStream DEF EventsSoFar
  <2>4. Says(r, t)' /\ NotYet(r)'
    BY <1>1, <1>6, <1>7, <1>8, <2>1, OneStream, NothingHeld DEF Says, NotYet
  <2>5. Floor(r)'
    BY <1>1, <1>8, <2>1, OneStream DEF Floor, Visible
  <2> QED
    BY <1>1, <1>3, <1>4, <1>5, <2>2, <2>3, <2>4, <2>5, OneStreamMoves DEF RequestIsSound
<1> QED
  BY <1>9, <1>10

LEMMA EndGraphIsSound ==
    ASSUME StreamInvariant, NEW r \in Streams, NEW t \in {"graph", "blank"}, EndGraph(r, t)
    PROVE  StreamInvariant'
<1>1. /\ UNCHANGED <<parity, history, at, holder, events, preLen, grown, text, shown, saved, sent,
                     clears, clearedBy, overlapped>>
      /\ thread[r] = "running" /\ thread'[r] = t
      /\ StartWriting("thread", r, t, TRUE)
      /\ \A q \in Streams \ {r} : thread'[q] = thread[q]
      /\ thread' \in [Streams -> ThreadPlaces]
  BY DEF EndGraph, StreamInvariant, StreamTyped, ThreadPlaces
<1>2. /\ t \in Texts /\ r \in Streams \cup Replies /\ "thread" \in Writers /\ "loop" \in Writers
  BY DEF Texts, Writers
<1>3. holder = r /\ writing["thread"].step = "rest"
  BY <1>1 DEF StreamInvariant, TurnHeld
<1>4. NoneOf(r)
  BY <1>1, OneStream DEF NotYet
<1>5. /\ writing' \in [Writers -> WriterRecords]
      /\ writing'["thread"].step = "user"
      /\ \A m : IsHeld(m)' =>
            \/ IsHeld(m)
            \/ m = [who |-> r, role |-> "user", text |-> "question"]
            \/ m = [who |-> r, role |-> "assistant", text |-> t]
      /\ WritersHavePairs' /\ CutsKeepTurns'
      /\ ~overlapped' => Shape'
      /\ ~overlapped' => \A q \in Streams :
             Visible(q)' /\ (q = r => NoneOf(r)) => Single(q)'
  <2>1. /\ writing["thread"].step = "rest" /\ StartWriting("thread", r, t, TRUE)
        /\ UNCHANGED <<history, overlapped, preLen, clearedBy>> /\ TRUE \in BOOLEAN
    BY <1>1, <1>3
  <2> QED
    BY <1>2, <2>1, WritingStarts, Zenon
<1>6. StreamTyped'
  BY <1>1, <1>5 DEF StreamInvariant, StreamTyped
<1>7. TurnHeld'
  BY <1>1, <1>3 DEF StreamInvariant, TurnHeld
<1>8. \A q \in Streams \ {r} : RequestIsSound(q)'
  <2>1. \A q \in Streams \ {r} : thread[q] \notin {"graph", "blank"}
    BY <1>3 DEF StreamInvariant, TurnHeld
  <2>2. \A m \in MessageOf : IsHeld(m)' => IsHeld(m) \/ m.who = r
    BY <1>5
  <2> QED
    BY <1>1, <2>1, <2>2, OthersSound
<1>9. Places(r)' /\ EventsSoFar(r)'
  BY <1>1, OneStream DEF Places, EventsSoFar
<1>10. AllSay(r, t)'
  BY <1>4, <1>5 DEF AllSay, NoneOf
<1>11. at[r] # "showing" /\ at[r] # "recording" /\ saved[r] = NoText /\ text[r] # "model"
  BY <1>1, OneStream DEF Places
<1>12. Says(r, t)' /\ NotYet(r)'
  BY <1>1, <1>10, <1>11 DEF Says, NotYet
<1>13. Floor(r)'
  BY <1>1, <1>5, <1>11, OneStream DEF Floor, Visible
<1>14. RequestIsSound(r)'
  BY <1>2, <1>9, <1>12, <1>13 DEF RequestIsSound
<1> QED
  BY <1>4, <1>5, <1>6, <1>7, <1>8, <1>14 DEF StreamInvariant

\* An event was taken from the queue of a stream.
LEMMA EventTaken ==
    ASSUME StreamInvariant, NEW r \in Streams, events[r] # <<>>,
           events' = [events EXCEPT ![r] = Tail(@)], thread'[r] = thread[r]
    PROVE  /\ events' \in [Streams -> Seq(EventKinds)]
           /\ \A q \in Streams \ {r} : events'[q] = events[q]
           /\ Len(events[r]) \in Nat \ {0} /\ Head(events[r]) = events[r][1]
           /\ Len(events'[r]) = Len(events[r]) - 1
           /\ \A i \in 1..(Len(events[r]) - 1) : events'[r][i] = events[r][i + 1]
           /\ EventsSoFar(r)'
<1>1. events[r] \in Seq(EventKinds) /\ events \in [Streams -> Seq(EventKinds)]
  BY OneStream DEF StreamInvariant, StreamTyped
<1>2. /\ Len(events[r]) \in Nat \ {0} /\ Head(events[r]) = events[r][1]
      /\ Tail(events[r]) \in Seq(EventKinds) /\ Len(Tail(events[r])) = Len(events[r]) - 1
      /\ \A i \in 1..(Len(events[r]) - 1) : Tail(events[r])[i] = events[r][i + 1]
  BY <1>1, HeadTailProperties
<1>3. /\ events' \in [Streams -> Seq(EventKinds)] /\ events'[r] = Tail(events[r])
      /\ \A q \in Streams \ {r} : events'[q] = events[q]
  BY <1>1, <1>2
<1>4. EventsSoFar(r)'
  <2>1. \A i \in 1..(Len(events[r]) - 1) : i + 1 \in 1..Len(events[r])
    BY <1>2
  <2>2. EventsSoFar(r)
    BY OneStream
  <2>3. Len(events'[r]) = Len(events[r]) - 1
    BY <1>2, <1>3
  <2>4. Len(events[r]) <= MaxEvents => Len(events'[r]) <= MaxEvents
    BY <1>2, <2>3, Bounds
  <2>5. Len(events[r]) <= MaxEvents + 2 => Len(events'[r]) <= MaxEvents + 2
    BY <1>2, <2>3, Bounds
  <2>6. \A S : (\A i \in 1..Len(events[r]) : events[r][i] \in S) =>
                  (\A i \in 1..Len(events'[r]) : events'[r][i] \in S)
    BY <1>2, <1>3, <2>1, <2>3
  <2>7. thread'[r] = thread[r]
    OBVIOUS
  <2> HIDE <1>1, <1>2, <1>3
  <2> QED
    BY <2>2, <2>4, <2>5, <2>6, <2>7 DEF EventsSoFar
<1> QED
  BY <1>2, <1>3, <1>4

\* A stream that is under way ends with nothing saved.
LEMMA StreamEndsUnsaved ==
    ASSUME StreamInvariant, NEW r \in Streams, at[r] \notin {"new", "done"},
           UNCHANGED <<parity, history, writing, thread, holder, preLen, grown, text, shown,
                       saved, clears, clearedBy, overlapped>>,
           at' = [at EXCEPT ![r] = "done"],
           \/ sent' = sent
           \/ \E t \in {"error", "failed"} : sent' = [sent EXCEPT ![r] = t],
           \/ events' = events
           \/ events[r] # <<>> /\ events' = [events EXCEPT ![r] = Tail(@)]
    PROVE  StreamInvariant'
<1>1. /\ at'[r] = "done" /\ at' \in [Streams \cup Replies -> StreamPlaces]
      /\ \A q \in Streams \ {r} : at'[q] = at[q]
      /\ sent' \in [Streams -> Texts \cup {NoText, "error", "failed"}]
      /\ \A q \in Streams \ {r} : sent'[q] = sent[q]
  <2>1. /\ at \in [Streams \cup Replies -> StreamPlaces] /\ "done" \in StreamPlaces
        /\ sent \in [Streams -> Texts \cup {NoText, "error", "failed"}]
    BY DEF StreamInvariant, StreamTyped, StreamPlaces
  <2>2. /\ sent' \in [Streams -> Texts \cup {NoText, "error", "failed"}]
        /\ \A q \in Streams \ {r} : sent'[q] = sent[q]
    BY <2>1
  <2> QED
    BY <2>1, <2>2
<1>2. /\ events' \in [Streams -> Seq(EventKinds)]
      /\ \A q \in Streams \ {r} : events'[q] = events[q]
      /\ EventsSoFar(r)'
  <2>1. CASE events' = events
    <3>1. thread' = thread
      OBVIOUS
    <3> QED
      BY <2>1, <3>1, OneStream DEF EventsSoFar, StreamInvariant, StreamTyped
  <2>2. CASE events[r] # <<>> /\ events' = [events EXCEPT ![r] = Tail(@)]
    BY <2>2, EventTaken
  <2> QED
    BY <2>1, <2>2
<1>3. StreamTyped' /\ TurnHeld'
  BY <1>1, <1>2 DEF StreamInvariant, StreamTyped, TurnHeld
<1>4. PICK t \in Texts : Says(r, t)
  BY OneStream
<1>5. saved[r] = NoText
  BY OneStream DEF Places
<1>6. Places(r)'
  BY <1>1, <1>5, OneStream DEF Places
<1>7. Says(r, t)' /\ NotYet(r)'
  BY <1>1, <1>4, <1>5, OneStream, NothingHeld DEF Says, NotYet
<1>8. Floor(r)'
  BY <1>1 DEF Floor
<1> QED
  BY <1>1, <1>2, <1>3, <1>6, <1>7, <1>8, OneStreamMoves DEF RequestIsSound

LEMMA EndingsAreSound ==
    ASSUME StreamInvariant, NEW r \in Streams,
           \/ GiveUpWaiting(r) \/ RefuseRetrieval(r) \/ FallbackFails(r) \/ LeaveStream(r)
    PROVE  StreamInvariant'
<1>1. CASE GiveUpWaiting(r)
  BY <1>1, StreamEndsUnsaved DEF GiveUpWaiting, EndStream
<1>2. CASE RefuseRetrieval(r)
  BY <1>2, StreamEndsUnsaved DEF RefuseRetrieval, EndStream
<1>3. CASE FallbackFails(r)
  BY <1>3, StreamEndsUnsaved DEF FallbackFails, EndStream
<1>4. CASE LeaveStream(r)
  BY <1>4, StreamEndsUnsaved DEF LeaveStream
<1> QED
  BY <1>1, <1>2, <1>3, <1>4

LEMMA BeginStreamIsSound ==
    ASSUME StreamInvariant, NEW r \in Streams, BeginStream(r)
    PROVE  StreamInvariant'
<1>1. /\ UNCHANGED <<parity, history, writing, holder, events, grown, text, shown, saved, sent,
                     clears, clearedBy, overlapped>>
      /\ at[r] = "new" /\ at'[r] = IF parity THEN "relaying" ELSE "streaming"
      /\ thread'[r] = IF parity THEN "submitted" ELSE "none"
      /\ preLen'[r] = Len(history)
      /\ \A q \in Streams \ {r} : at'[q] = at[q] /\ thread'[q] = thread[q] /\ preLen'[q] = preLen[q]
      /\ at' \in [Streams \cup Replies -> StreamPlaces] /\ thread' \in [Streams -> ThreadPlaces]
      /\ preLen' \in [Streams -> Nat]
  BY OneStream DEF BeginStream, StreamInvariant, StreamTyped, StreamPlaces, ThreadPlaces
<1>2. thread[r] = "none" /\ text[r] = NoText /\ saved[r] = NoText /\ NoneOf(r)
  BY <1>1, OneStream DEF Places, NotYet
<1>3. StreamTyped' /\ TurnHeld'
  <2>1. StreamTyped'
    BY <1>1 DEF StreamInvariant, StreamTyped
  <2>2. thread'[r] \notin {"running", "graph", "blank"} /\ holder # r
    BY <1>1, <1>2 DEF StreamInvariant, TurnHeld
  <2>3. TurnHeld'
    BY <1>1, <2>2 DEF StreamInvariant, TurnHeld
  <2> QED
    BY <2>1, <2>3
<1>4. PICK t \in Texts : Says(r, t)
  BY OneStream
<1>5. Places(r)' /\ EventsSoFar(r)'
  BY <1>1, <1>2, OneStream DEF Places, EventsSoFar, NoText
<1>6. Says(r, t)' /\ NotYet(r)'
  BY <1>1, <1>2, <1>4, OneStream, NothingHeld DEF Says, NotYet, NoText
<1>7. Floor(r)'
  BY <1>1, OneStream DEF Floor
<1> QED
  BY <1>1, <1>2, <1>3, <1>5, <1>6, <1>7, OneStreamMoves DEF RequestIsSound

LEMMA RelayEventIsSound ==
    ASSUME StreamInvariant, NEW r \in Streams, RelayEvent(r)
    PROVE  StreamInvariant'
<1>1. /\ UNCHANGED <<parity, history, writing, at, thread, holder, preLen, grown, saved, sent,
                     clears, clearedBy, overlapped>>
      /\ at[r] = "relaying" /\ events[r] # <<>>
      /\ Head(events[r]) \in {"status", "token", "graph", "blank"}
      /\ events' = [events EXCEPT ![r] = Tail(@)]
      /\ shown' \in [Streams -> SUBSET {"provider", "chunks", "model"}]
      /\ text' \in [Streams -> Texts \cup {NoText}]
      /\ text'[r] = IF Head(events[r]) \in {"graph", "blank"} THEN Head(events[r]) ELSE text[r]
      /\ \A q \in Streams \ {r} : text'[q] = text[q]
  BY DEF RelayEvent, StreamInvariant, StreamTyped, Texts
<1>2. /\ events' \in [Streams -> Seq(EventKinds)]
      /\ \A q \in Streams \ {r} : events'[q] = events[q]
      /\ Len(events[r]) \in Nat \ {0} /\ Head(events[r]) = events[r][1]
      /\ Len(events'[r]) = Len(events[r]) - 1
      /\ \A i \in 1..(Len(events[r]) - 1) : events'[r][i] = events[r][i + 1]
      /\ EventsSoFar(r)'
  BY <1>1, EventTaken
<1>3. StreamTyped' /\ TurnHeld'
  BY <1>1, <1>2 DEF StreamInvariant, StreamTyped, TurnHeld
<1>4. PICK t \in Texts : Says(r, t)
  BY OneStream
<1>5. parity /\ saved[r] = NoText /\ thread[r] # "none" /\ text[r] # "model"
  BY <1>1, OneStream DEF Places
<1>6. Places(r)'
  BY <1>1, <1>5, OneStream DEF Places
<1>7. thread[r] = "over" => Awaits(r, t)'
  <2> SUFFICES ASSUME thread[r] = "over" PROVE Awaits(r, t)'
    OBVIOUS
  <2>1. Awaits(r, t) /\ t \in {"graph", "blank"}
    BY <1>1, <1>4 DEF Says
  <2>2. Len(events[r]) >= 2
    BY <1>1, <1>2, <2>1 DEF Awaits
  <2>3. events'[r][Len(events'[r])] = "done"
    BY <1>2, <2>1, <2>2 DEF Awaits
  <2>4. Len(events'[r]) >= 1
    BY <1>2, <2>2
  <2>5. Len(events'[r]) = 1 => text'[r] = t
    BY <1>1, <1>2, <2>1, <2>2 DEF Awaits
  <2>6. Len(events'[r]) >= 2 => events'[r][Len(events'[r]) - 1] = t
    <3> SUFFICES ASSUME Len(events'[r]) >= 2 PROVE events'[r][Len(events'[r]) - 1] = t
      OBVIOUS
    <3>1. Len(events'[r]) - 1 \in 1..(Len(events[r]) - 1)
          /\ Len(events'[r]) - 1 + 1 = Len(events[r]) - 1
      BY <1>2
    <3> QED
      BY <1>2, <2>1, <2>2, <3>1 DEF Awaits
  <2>7. \A i \in 1..(Len(events'[r]) - 2) : events'[r][i] \in {"status", "token"}
    <3>1. \A i \in 1..(Len(events'[r]) - 2) :
              i \in 1..(Len(events[r]) - 1) /\ i + 1 \in 1..(Len(events[r]) - 2)
      BY <1>2
    <3> QED
      BY <1>2, <2>1, <3>1 DEF Awaits
  <2> QED
    BY <2>3, <2>4, <2>5, <2>6, <2>7 DEF Awaits
<1>8. text'[r] # "model"
  BY <1>1, <1>5
<1>9. Says(r, t)' /\ NotYet(r)'
  BY <1>1, <1>4, <1>5, <1>7, <1>8, OneStream, NothingHeld DEF Says, NotYet
<1>10. Floor(r)'
  BY <1>1, OneStream DEF Floor, Visible
<1> QED
  BY <1>1, <1>2, <1>3, <1>6, <1>9, <1>10, OneStreamMoves DEF RequestIsSound

LEMMA EndOfRunIsSound ==
    ASSUME StreamInvariant, NEW r \in Streams, EndOfRun(r)
    PROVE  StreamInvariant'
<1>1. /\ UNCHANGED <<parity, history, writing, thread, holder, preLen, text, shown, saved,
                     clears, clearedBy, overlapped>>
      /\ at[r] = "relaying" /\ events[r] # <<>>
      /\ events' = [events EXCEPT ![r] = Tail(@)]
  BY DEF EndOfRun
<1>2. CASE Head(events[r]) = "error" /\ EndStream(r, "error") /\ UNCHANGED grown
  BY <1>1, <1>2, StreamEndsUnsaved DEF EndStream
<1>3. CASE /\ Head(events[r]) = "done" /\ UNCHANGED sent
           /\ grown' = [grown EXCEPT ![r] = HasGrown(r)] /\ at' = [at EXCEPT ![r] = "showing"]
  <2>1. /\ at'[r] = "showing" /\ grown'[r] = HasGrown(r)
        /\ \A q \in Streams \ {r} : at'[q] = at[q] /\ grown'[q] = grown[q]
        /\ at' \in [Streams \cup Replies -> StreamPlaces] /\ grown' \in [Streams -> BOOLEAN]
    <3>1. HasGrown(r) \in BOOLEAN
      BY DEF HasGrown
    <3> QED
      BY <1>3, <3>1, OneStream DEF StreamInvariant, StreamTyped, StreamPlaces
  <2>2. /\ events' \in [Streams -> Seq(EventKinds)]
        /\ \A q \in Streams \ {r} : events'[q] = events[q]
        /\ Len(events[r]) \in Nat \ {0} /\ Head(events[r]) = events[r][1]
        /\ EventsSoFar(r)'
    BY <1>1, EventTaken
  <2>3. StreamTyped' /\ TurnHeld'
    BY <1>1, <1>3, <2>1, <2>2 DEF StreamInvariant, StreamTyped, TurnHeld
  <2>4. PICK t \in Texts : Says(r, t)
    BY OneStream
  <2>5. events[r][1] = "done" /\ 1 \in 1..Len(events[r])
    BY <1>3, <2>2
  <2>6. thread[r] = "over"
    BY <1>1, <2>5, OneStream DEF Places, EventsSoFar
  <2>7. Awaits(r, t) /\ t \in {"graph", "blank"}
    BY <1>1, <2>4, <2>6 DEF Says
  <2>8. Len(events[r]) = 1
    <3>1. ASSUME Len(events[r]) = 2 PROVE FALSE
      <4>1. events[r][2 - 1] = t
        BY <2>7, <3>1 DEF Awaits
      <4> QED
        BY <2>5, <2>7, <4>1
    <3>2. ASSUME Len(events[r]) > 2 PROVE FALSE
      <4>1. 1 \in 1..(Len(events[r]) - 2)
        BY <2>2, <3>2
      <4> QED
        BY <2>5, <2>7, <4>1 DEF Awaits
    <3>3. Len(events[r]) \in Nat \ {0} /\ Len(events[r]) # 2 /\ ~(Len(events[r]) > 2)
      BY <2>2, <3>1, <3>2
    <3> DEFINE n == Len(events[r])
    <3>4. n \in Nat \ {0} /\ n # 2 /\ ~(n > 2)
      BY <3>3
    <3> HIDE DEF n
    <3>5. n = 1
      BY <3>4
    <3> QED
      BY <3>5 DEF n
  <2>9. text[r] = t
    BY <2>7, <2>8 DEF Awaits
  <2>10. parity /\ saved[r] = NoText
    BY <1>1, OneStream DEF Places
  <2>11. Places(r)'
    BY <1>1, <2>1, <2>6, <2>7, <2>9, <2>10, OneStream DEF Places
  <2>12. AllSay(r, t)'
    BY <1>1, <2>4, NothingHeld DEF Says
  <2>13. Says(r, t)' /\ NotYet(r)'
    BY <1>1, <2>1, <2>4, <2>6, <2>7, <2>9, <2>10, <2>12 DEF Says, NotYet
  <2>14. Floor(r)'
    BY <1>1, <2>1, <2>6, OneStream DEF Floor, Visible, HasGrown
  <2> QED
    BY <1>1, <1>3, <2>1, <2>2, <2>3, <2>11, <2>13, <2>14, OneStreamMoves DEF RequestIsSound
<1> QED
  BY <1>2, <1>3 DEF EndOfRun

LEMMA StreamTokensIsSound ==
    ASSUME StreamInvariant, NEW r \in Streams, StreamTokens(r)
    PROVE  StreamInvariant'
<1>1. /\ UNCHANGED <<parity, history, writing, thread, holder, events, preLen, grown, saved, sent,
                     clears, clearedBy, overlapped>>
      /\ at[r] = "streaming" /\ at'[r] = "rating" /\ text'[r] = "model"
      /\ \A q \in Streams \ {r} : at'[q] = at[q] /\ text'[q] = text[q]
      /\ at' \in [Streams \cup Replies -> StreamPlaces]
      /\ text' \in [Streams -> Texts \cup {NoText}]
      /\ shown' \in [Streams -> SUBSET {"provider", "chunks", "model"}]
  BY OneStream DEF StreamTokens, StreamInvariant, StreamTyped, StreamPlaces, Texts
<1>2. thread[r] = "none" /\ ~parity /\ saved[r] = NoText /\ NoneOf(r)
  BY <1>1, OneStream DEF Places, NotYet
<1>3. StreamTyped' /\ TurnHeld'
  BY <1>1 DEF StreamInvariant, StreamTyped, TurnHeld
<1>4. NoneOf(r)' /\ AllSay(r, "model")'
  BY <1>1, <1>2, NothingHeld DEF NoneOf, AllSay
<1>5. Places(r)' /\ EventsSoFar(r)'
  BY <1>1, <1>2, OneStream DEF Places, EventsSoFar
<1>6. Says(r, "model")' /\ NotYet(r)'
  BY <1>1, <1>2, <1>4 DEF Says, NotYet
<1>7. Floor(r)'
  BY <1>1, OneStream DEF Floor, Visible
<1> QED
  BY <1>1, <1>3, <1>5, <1>6, <1>7, OneStreamMoves DEF RequestIsSound, Texts

LEMMA FallBackIsSound ==
    ASSUME StreamInvariant, NEW r \in Streams, FallBack(r)
    PROVE  StreamInvariant'
<1>1. /\ UNCHANGED <<parity, history, writing, holder, events, preLen, grown, text, shown, saved,
                     sent, clears, clearedBy, overlapped>>
      /\ at[r] = "streaming" /\ at'[r] = "fallback" /\ thread'[r] = "submitted"
      /\ \A q \in Streams \ {r} : at'[q] = at[q] /\ thread'[q] = thread[q]
      /\ at' \in [Streams \cup Replies -> StreamPlaces]
      /\ thread' \in [Streams -> ThreadPlaces]
  BY OneStream DEF FallBack, StreamInvariant, StreamTyped, StreamPlaces, ThreadPlaces
<1>2. thread[r] = "none" /\ ~parity /\ text[r] = NoText /\ saved[r] = NoText /\ NoneOf(r)
  BY <1>1, OneStream DEF Places, NotYet
<1>3. StreamTyped'
  BY <1>1 DEF StreamInvariant, StreamTyped
<1>4. TurnHeld'
  <2>1. holder # r
    BY <1>2 DEF StreamInvariant, TurnHeld
  <2> QED
    BY <1>1, <2>1 DEF StreamInvariant, TurnHeld
<1>5. PICK t \in Texts : Says(r, t)
  BY OneStream
<1>6. Places(r)' /\ EventsSoFar(r)'
  BY <1>1, <1>2, OneStream DEF Places, EventsSoFar, NoText
<1>7. Says(r, t)' /\ NotYet(r)'
  BY <1>1, <1>2, <1>5, NothingHeld DEF Says, NotYet, NoText
<1>8. Floor(r)'
  BY <1>1, OneStream DEF Floor, Visible
<1> QED
  BY <1>1, <1>3, <1>4, <1>6, <1>7, <1>8, OneStreamMoves DEF RequestIsSound

LEMMA FallbackAnswersIsSound ==
    ASSUME StreamInvariant, NEW r \in Streams, FallbackAnswers(r)
    PROVE  StreamInvariant'
<1>1. /\ UNCHANGED <<parity, history, writing, thread, holder, events, preLen, grown, shown, saved,
                     sent, clears, clearedBy, overlapped>>
      /\ at[r] = "fallback" /\ at'[r] = "recording" /\ thread[r] \in {"over_graph", "over_blank"}
      /\ text'[r] = IF thread[r] = "over_blank" THEN "apology" ELSE "graph"
      /\ \A q \in Streams \ {r} : at'[q] = at[q] /\ text'[q] = text[q]
      /\ at' \in [Streams \cup Replies -> StreamPlaces]
      /\ text' \in [Streams -> Texts \cup {NoText}]
  BY OneStream DEF FallbackAnswers, StreamInvariant, StreamTyped, StreamPlaces, Texts
<1>2. ~parity /\ saved[r] = NoText
  BY <1>1, OneStream DEF Places
<1>3. StreamTyped' /\ TurnHeld'
  BY <1>1 DEF StreamInvariant, StreamTyped, TurnHeld
<1>4. PICK t \in Texts : Says(r, t)
  BY OneStream
<1>5. Places(r)' /\ EventsSoFar(r)'
  BY <1>1, <1>2, OneStream DEF Places, EventsSoFar
<1>6. Says(r, t)' /\ NotYet(r)'
  BY <1>1, <1>2, <1>4, NothingHeld DEF Says, NotYet
<1>7. Floor(r)'
  BY <1>1, OneStream DEF Floor, Visible
<1> QED
  BY <1>1, <1>3, <1>5, <1>6, <1>7, OneStreamMoves DEF RequestIsSound

LEMMA PersistAnswerIsSound ==
    ASSUME StreamInvariant, NEW r \in Streams, NEW known \in BOOLEAN, PersistAnswer(r, known)
    PROVE  StreamInvariant'
<1>1. /\ UNCHANGED <<parity, history, writing, thread, holder, events, preLen, grown, text, shown,
                     clears, clearedBy, overlapped>>
      /\ at[r] = "recording" /\ at'[r] = "done" /\ sent'[r] = text[r]
      /\ saved'[r] = IF known THEN text[r] ELSE saved[r]
      /\ \A q \in Streams \ {r} : at'[q] = at[q] /\ saved'[q] = saved[q] /\ sent'[q] = sent[q]
      /\ at' \in [Streams \cup Replies -> StreamPlaces]
      /\ saved' \in [Streams -> Texts \cup {NoText}]
      /\ sent' \in [Streams -> Texts \cup {NoText, "error", "failed"}]
  BY OneStream DEF PersistAnswer, SavedText, EndStream, StreamInvariant, StreamTyped, StreamPlaces
<1>2. saved[r] = NoText /\ thread[r] \in {"none", "over", "over_graph", "over_blank"}
  BY <1>1, OneStream DEF Places
<1>3. StreamTyped' /\ TurnHeld'
  BY <1>1 DEF StreamInvariant, StreamTyped, TurnHeld
<1>4. PICK t \in Texts : Says(r, t)
  BY OneStream
<1>5. Places(r)' /\ EventsSoFar(r)'
  BY <1>1, <1>2, OneStream DEF Places, EventsSoFar
<1>6. Says(r, t)' /\ NotYet(r)'
  BY <1>1, <1>2, <1>4, OneStream, NothingHeld DEF Says, NotYet
<1>7. Floor(r)'
  BY <1>1 DEF Floor
<1> QED
  BY <1>1, <1>3, <1>5, <1>6, <1>7, OneStreamMoves DEF RequestIsSound

----------------------------------------------------------------------------
(* The steps of the loop that begin to write, the writers, and the         *)
(* clearing.                                                               *)

LEMMA ShowAnswerIsSound ==
    ASSUME StreamInvariant, NEW r \in Streams, ShowAnswer(r)
    PROVE  StreamInvariant'
<1>1. /\ UNCHANGED <<parity, history, thread, holder, events, preLen, grown, text, saved, sent,
                     clears, clearedBy, overlapped>>
      /\ at[r] = "showing" /\ at'[r] = "recording" /\ writing["loop"].step = "rest"
      /\ IF grown[r] THEN UNCHANGED writing ELSE StartWriting("loop", r, text[r], TRUE)
      /\ \A q \in Streams \ {r} : at'[q] = at[q]
      /\ at' \in [Streams \cup Replies -> StreamPlaces]
      /\ shown' \in [Streams -> SUBSET {"provider", "chunks", "model"}]
  BY OneStream DEF ShowAnswer, LoopIsFree, StreamInvariant, StreamTyped, StreamPlaces
<1>2. parity /\ thread[r] = "over" /\ saved[r] = NoText
  BY <1>1, OneStream DEF Places
<1>3. PICK t \in Texts : Says(r, t)
  BY OneStream
<1>4. text[r] = t /\ t \in {"graph", "blank"} /\ AllSay(r, t)
  BY <1>1, <1>2, <1>3 DEF Says
<1>5. Places(r)' /\ EventsSoFar(r)'
  BY <1>1, <1>2, <1>4, OneStream DEF Places, EventsSoFar
<1>6. Floor(r)'
  <2>1. Visible(r)' => Visible(r)
    BY <1>1 DEF Visible
  <2> QED
    BY <1>1, <1>2, <2>1, OneStream DEF Floor
<1>7. AllSay(r, t)' => Says(r, t)' /\ NotYet(r)'
  BY <1>1, <1>2, <1>3, <1>4 DEF Says, NotYet
<1>8. CASE grown[r]
  <2>1. StreamTyped' /\ TurnHeld'
    BY <1>1, <1>8 DEF StreamInvariant, StreamTyped, TurnHeld
  <2>2. AllSay(r, t)'
    BY <1>1, <1>4, <1>8, NothingHeld
  <2> QED
    BY <1>1, <1>5, <1>6, <1>7, <1>8, <2>1, <2>2, OneStreamMoves DEF RequestIsSound
<1>9. CASE ~grown[r]
  <2>1. /\ StartWriting("loop", r, t, TRUE) /\ "loop" \in Writers /\ r \in Streams \cup Replies
        /\ writing["loop"].step = "rest" /\ UNCHANGED <<history, overlapped, preLen, clearedBy>>
        /\ t \in Texts
    BY <1>1, <1>4, <1>9 DEF Writers, Texts
  <2>2. /\ writing' \in [Writers -> WriterRecords]
        /\ \A v \in Writers \ {"loop"} : writing'[v] = writing[v]
        /\ \A m : IsHeld(m)' =>
              \/ IsHeld(m)
              \/ m = [who |-> r, role |-> "user", text |-> "question"]
              \/ m = [who |-> r, role |-> "assistant", text |-> t]
        /\ WritersHavePairs' /\ CutsKeepTurns'
        /\ ~overlapped' => Shape'
        /\ ~overlapped' => \A q \in Streams :
               Visible(q)' /\ (q = r => NoneOf(r)) => Single(q)'
    BY <2>1, WritingStarts
  <2>3. ~Visible(r)'
    BY <1>1, <1>9, OneStream DEF Floor, Visible
  <2>4. writing'["thread"] = writing["thread"]
    BY <2>2 DEF Writers
  <2>5. StreamTyped' /\ TurnHeld'
    BY <1>1, <2>2, <2>4 DEF StreamInvariant, StreamTyped, TurnHeld
  <2>6. AllSay(r, t)'
    BY <1>4, <2>2 DEF AllSay
  <2>7. \A q \in Streams \ {r} : RequestIsSound(q)'
    <3>1. \A m \in MessageOf : IsHeld(m)' => IsHeld(m) \/ m.who = r
      BY <2>2
    <3> QED
      BY <1>1, <2>4, <3>1, OthersSound
  <2> QED
    BY <1>5, <1>6, <1>7, <2>2, <2>3, <2>5, <2>6, <2>7 DEF StreamInvariant, RequestIsSound
<1> QED
  BY <1>8, <1>9, OneStream

LEMMA RecordStreamIsSound ==
    ASSUME StreamInvariant, NEW r \in Streams, RecordStream(r)
    PROVE  StreamInvariant'
<1>1. /\ UNCHANGED <<parity, history, thread, holder, events, preLen, grown, text, shown, saved,
                     sent, clears, clearedBy, overlapped>>
      /\ at[r] = "rating" /\ at'[r] = "recording" /\ writing["loop"].step = "rest"
      /\ StartWriting("loop", r, text[r], TRUE)
      /\ \A q \in Streams \ {r} : at'[q] = at[q]
      /\ at' \in [Streams \cup Replies -> StreamPlaces]
  BY OneStream DEF RecordStream, LoopIsFree, StreamInvariant, StreamTyped, StreamPlaces
<1>2. ~parity /\ thread[r] = "none" /\ saved[r] = NoText /\ text[r] = "model" /\ NoneOf(r)
  BY <1>1, OneStream DEF Places, NotYet
<1>3. /\ StartWriting("loop", r, "model", TRUE) /\ "loop" \in Writers
      /\ r \in Streams \cup Replies /\ "model" \in Texts
  BY <1>1, <1>2 DEF Writers, Texts
<1>4. /\ writing' \in [Writers -> WriterRecords]
      /\ \A v \in Writers \ {"loop"} : writing'[v] = writing[v]
      /\ \A m : IsHeld(m)' =>
            \/ IsHeld(m)
            \/ m = [who |-> r, role |-> "user", text |-> "question"]
            \/ m = [who |-> r, role |-> "assistant", text |-> "model"]
      /\ WritersHavePairs' /\ CutsKeepTurns'
      /\ ~overlapped' => Shape'
      /\ ~overlapped' => \A q \in Streams :
             Visible(q)' /\ (q = r => NoneOf(r)) => Single(q)'
  <2>1. /\ writing["loop"].step = "rest"
        /\ UNCHANGED <<history, overlapped, preLen, clearedBy>> /\ TRUE \in BOOLEAN
    BY <1>1
  <2> QED
    BY <1>3, <2>1, WritingStarts, Zenon
<1>5. writing'["thread"] = writing["thread"]
  BY <1>4 DEF Writers
<1>6. StreamTyped' /\ TurnHeld'
  BY <1>1, <1>4, <1>5 DEF StreamInvariant, StreamTyped, TurnHeld
<1>7. AllSay(r, "model")'
  BY <1>2, <1>4 DEF AllSay, NoneOf
<1>8. Places(r)' /\ EventsSoFar(r)'
  BY <1>1, <1>2, OneStream DEF Places, EventsSoFar
<1>9. Says(r, "model")' /\ NotYet(r)'
  BY <1>1, <1>2, <1>7 DEF Says, NotYet
<1>10. Floor(r)'
  BY <1>1, <1>2, OneStream DEF Floor, Visible
<1>11. \A q \in Streams \ {r} : RequestIsSound(q)'
  <2>1. \A m \in MessageOf : IsHeld(m)' => IsHeld(m) \/ m.who = r
    BY <1>4
  <2> QED
    BY <1>1, <1>5, <2>1, OthersSound
<1> QED
  BY <1>2, <1>3, <1>4, <1>6, <1>8, <1>9, <1>10, <1>11 DEF StreamInvariant, RequestIsSound

LEMMA RecordReplyIsSound ==
    ASSUME StreamInvariant, NEW a \in Replies, NEW cached \in BOOLEAN, RecordReply(a, cached)
    PROVE  StreamInvariant'
<1>1. /\ UNCHANGED <<parity, history, thread, holder, events, preLen, grown, text, shown, saved,
                     sent, clears, clearedBy, overlapped>>
      /\ writing["loop"].step = "rest" /\ StartWriting("loop", a, "reply", cached)
      /\ \A q \in Streams : at'[q] = at[q]
      /\ at' \in [Streams \cup Replies -> StreamPlaces]
  BY StreamAssumption
  DEF StreamAssumption, RecordReply, LoopIsFree, StreamInvariant, StreamTyped, StreamPlaces
<1>2. /\ "loop" \in Writers /\ a \in Streams \cup Replies /\ "reply" \in Texts /\ a \notin Streams
  BY StreamAssumption DEF StreamAssumption, Writers, Texts
<1>3. /\ writing' \in [Writers -> WriterRecords]
      /\ \A v \in Writers \ {"loop"} : writing'[v] = writing[v]
      /\ \A m : IsHeld(m)' =>
            \/ IsHeld(m)
            \/ m = [who |-> a, role |-> "user", text |-> "question"]
            \/ m = [who |-> a, role |-> "assistant", text |-> "reply"]
      /\ WritersHavePairs' /\ CutsKeepTurns'
      /\ ~overlapped' => Shape'
      /\ ~overlapped' => \A q \in Streams :
             Visible(q)' /\ (q = a => NoneOf(a)) => Single(q)'
  BY <1>1, <1>2, WritingStarts
<1>4. writing'["thread"] = writing["thread"]
  BY <1>3 DEF Writers
<1>5. StreamTyped' /\ TurnHeld'
  BY <1>1, <1>3, <1>4 DEF StreamInvariant, StreamTyped, TurnHeld
<1>6. \A q \in Streams \ {a} : RequestIsSound(q)'
  <2>1. \A m \in MessageOf : IsHeld(m)' => IsHeld(m) \/ m.who = a
    BY <1>3
  <2> QED
    BY <1>1, <1>4, <2>1, OthersSound
<1> QED
  BY <1>2, <1>3, <1>5, <1>6 DEF StreamInvariant

LEMMA ClearHistoryIsSound ==
    ASSUME StreamInvariant, ClearHistory
    PROVE  StreamInvariant'
<1>1. /\ UNCHANGED <<parity, writing, at, thread, holder, events, preLen, grown, text, shown,
                     saved, sent, overlapped>>
      /\ writing["loop"].step = "rest" /\ holder = NoStream /\ history' = <<>>
      /\ clears < MaxClears /\ clears' = clears + 1
      /\ clearedBy' = clearedBy \cup {q \in Streams : at[q] \notin {"new", "done"}}
  BY DEF ClearHistory, LoopIsFree
<1>2. \A w \in Writers : writing[w].step = "rest"
  <2>1. NoStream \notin Streams
    BY StreamAssumption DEF StreamAssumption, NoStream
  <2> QED
    BY <1>1, <2>1 DEF StreamInvariant, TurnHeld, Writers
<1>3. StreamTyped'
  <2>1. clears + 1 \in 0..MaxClears
    BY <1>1, Bounds DEF StreamInvariant, StreamTyped
  <2>2. <<>> \in Seq(MessageOf)
    OBVIOUS
  <2> QED
    BY <1>1, <2>1, <2>2 DEF StreamInvariant, StreamTyped
<1>4. DOMAIN history' = {} /\ Len(history') = 0
  BY <1>1
<1>5. \A m : IsHeld(m)' => IsHeld(m)
  BY <1>1, <1>4 DEF IsHeld
<1>6. ASSUME NEW q \in Streams
      PROVE  RequestIsSound(q)'
  <2>1. Places(q)' /\ EventsSoFar(q)'
    BY <1>1, OneStream DEF Places, EventsSoFar
  <2>2. PICK t \in Texts : Says(q, t)
    BY OneStream
  <2>3. AllSay(q, t)' /\ (NoneOf(q) => NoneOf(q)')
    BY <1>5, <2>2 DEF Says, AllSay, NoneOf
  <2>4. Awaits(q, t) => Awaits(q, t)'
    BY <1>1 DEF Awaits
  <2>5. Says(q, t)' /\ NotYet(q)'
    BY <1>1, <2>2, <2>3, <2>4, OneStream DEF Says, NotYet
  <2>6. at[q] \notin {"new", "done"} => ~Visible(q)'
    BY <1>1 DEF Visible
  <2>7. Floor(q)'
    BY <1>1, <2>6 DEF Floor
  <2> QED
    BY <2>1, <2>5, <2>7 DEF RequestIsSound
<1>7. Whole(<<>>)
  <2>1. PairsTo(<<>>, 0)
    BY DEF PairsTo
  <2> QED
    BY <2>1 DEF Whole
<1>8. Shape'
  <2>1. Whole(history)'
    BY <1>1, <1>7 DEF Whole, PairsTo
  <2> QED
    BY <1>1, <1>2, <2>1 DEF Shape, Writers
<1>9. \A q \in Streams : Single(q)'
  BY <1>1, <1>2, <1>4 DEF Single
<1> QED
  BY <1>1, <1>3, <1>6, <1>8, <1>9
  DEF StreamInvariant, TurnHeld, WritersHavePairs, CutsKeepTurns

\* A step of the writer w that adds no message which was not on its way, and cuts no more
\* than the session keeps, keeps what is said of the streams.
LEMMA StreamsStaySound ==
    ASSUME StreamInvariant,
           UNCHANGED <<parity, at, thread, holder, events, preLen, grown, text, shown, saved, sent,
                       clears, clearedBy>>,
           \A m : IsHeld(m)' => IsHeld(m),
           history' \in Seq(MessageOf),
           Len(history') >= Len(history) \/ Len(history') >= 2 * MaxHistory,
           writing["thread"].step = "user" /\ writing'["thread"].step # "user" =>
                Len(history') > Len(history)
    PROVE  \A q \in Streams : RequestIsSound(q)'
<1> SUFFICES ASSUME NEW q \in Streams PROVE RequestIsSound(q)'
  OBVIOUS
<1>1. Places(q)' /\ EventsSoFar(q)'
  BY OneStream DEF Places, EventsSoFar
<1>2. PICK t \in Texts : Says(q, t)
  BY OneStream
<1>3. AllSay(q, t)' /\ (NoneOf(q) => NoneOf(q)')
  BY <1>2 DEF Says, AllSay, NoneOf
<1>4. Awaits(q, t) => Awaits(q, t)'
  BY DEF Awaits
<1>5. Says(q, t)' /\ NotYet(q)'
  BY <1>2, <1>3, <1>4, OneStream DEF Says, NotYet
<1>6. Floor(q)'
  <2>1. Visible(q)' => Visible(q)
    BY DEF Visible
  <2>2. Len(history) \in Nat /\ Len(history') \in Nat /\ preLen[q] \in Nat
    BY OneStream
  <2>3. Visible(q) => preLen[q] < 2 * MaxHistory
    BY DEF Visible
  <2>4. ASSUME Visible(q), Len(history) >= preLen[q] PROVE Len(history') >= preLen[q]
    BY <2>2, <2>3, <2>4, Bounds
  <2>5. ASSUME Visible(q), Len(history) > preLen[q] PROVE Len(history') > preLen[q]
    BY <2>2, <2>3, <2>5, Bounds
  <2>6. ASSUME writing["thread"].step = "user" /\ writing'["thread"].step # "user",
               Len(history) >= preLen[q]
        PROVE  Len(history') > preLen[q]
    BY <2>2, <2>6
  <2> QED
    BY <2>1, <2>4, <2>5, <2>6, OneStream DEF Floor
<1> QED
  BY <1>1, <1>2, <1>5, <1>6 DEF RequestIsSound

\* An append that overlaps no other writer.
LEMMA AloneUnlessOverlapped ==
    ASSUME StreamInvariant, NEW w \in Writers, writing[w].step # "rest",
           overlapped' = (overlapped \/ \A v \in DOMAIN writing : writing[v].step # "rest"),
           ~overlapped'
    PROVE  ~overlapped /\ \A v \in Writers \ {w} : writing[v].step = "rest"
<1>1. DOMAIN writing = Writers /\ overlapped \in BOOLEAN
  BY DEF StreamInvariant, StreamTyped
<1>2. ~overlapped /\ \E v \in Writers : writing[v].step = "rest"
  BY <1>1
<1>3. \A u, v \in Writers : u # w /\ v # w => u = v
  BY DEF Writers
<1> QED
  BY <1>2, <1>3

LEMMA AppendMessageIsSound ==
    ASSUME StreamInvariant, NEW w \in Writers, AppendMessage(w),
           UNCHANGED <<parity, at, thread, holder, events, preLen, grown, text, shown, saved, sent,
                       clears, clearedBy>>
    PROVE  StreamInvariant'
<1> DEFINE m == writing[w].pair[IF writing[w].step = "user" THEN 1 ELSE 2]
           rec == writing'[w]
<1>1. /\ writing[w] \in WriterRecords /\ writing[w].step \in {"user", "assistant"}
      /\ writing[w].pair \in Seq(MessageOf) /\ writing[w].kept \in Seq(MessageOf)
      /\ Len(writing[w].pair) = 2 /\ DOMAIN writing[w].pair = 1..2
      /\ writing[w].pair[1].role = "user" /\ writing[w].pair[2].role = "assistant"
      /\ writing[w].pair[2].who = writing[w].pair[1].who
  <2>1. /\ writing[w] \in WriterRecords /\ writing[w].step \in {"user", "assistant"}
        /\ writing[w].pair \in Seq(MessageOf) /\ writing[w].kept \in Seq(MessageOf)
    BY DEF StreamInvariant, StreamTyped, WriterRecords, AppendMessage
  <2>2. /\ Len(writing[w].pair) = 2
        /\ writing[w].pair[1].role = "user" /\ writing[w].pair[2].role = "assistant"
        /\ writing[w].pair[2].who = writing[w].pair[1].who
    BY <2>1 DEF StreamInvariant, WritersHavePairs
  <2> QED
    BY <2>1, <2>2
<1>2. /\ m \in MessageOf /\ IsHeld(m)
      /\ writing[w].step = "user" => m = writing[w].pair[1]
      /\ writing[w].step = "assistant" => m = writing[w].pair[2]
  BY <1>1, HeldAreMessages DEF StreamInvariant
<1>3. /\ history' = Append(history, m)
      /\ overlapped' = (overlapped \/ \A v \in DOMAIN writing : writing[v].step # "rest")
      /\ writing' = [writing EXCEPT ![w] =
            IF writing[w].step = "user" THEN [writing[w] EXCEPT !.step = "assistant"]
            ELSE IF writing[w].trims THEN [writing[w] EXCEPT !.step = "measure"]
            ELSE Resting]
  BY DEF AppendMessage
<1>4. /\ writing' \in [Writers -> WriterRecords] /\ rec \in WriterRecords
      /\ \A v \in Writers \ {w} : writing'[v] = writing[v]
      /\ \/ writing[w].step = "user" /\ rec.step = "assistant"
         \/ writing[w].step = "assistant" /\ rec.step \in {"measure", "rest"}
      /\ \/ rec.pair = writing[w].pair /\ rec.kept = writing[w].kept
         \/ rec.step = "rest" /\ DOMAIN rec.pair = {} /\ DOMAIN rec.kept = {}
  <2> DEFINE next == IF writing[w].step = "user" THEN [writing[w] EXCEPT !.step = "assistant"]
                     ELSE IF writing[w].trims THEN [writing[w] EXCEPT !.step = "measure"]
                     ELSE Resting
  <2>1. /\ next \in WriterRecords
        /\ \/ writing[w].step = "user" /\ next.step = "assistant"
           \/ writing[w].step = "assistant" /\ next.step \in {"measure", "rest"}
        /\ \/ next.pair = writing[w].pair /\ next.kept = writing[w].kept
           \/ next.step = "rest" /\ DOMAIN next.pair = {} /\ DOMAIN next.kept = {}
    <3>1. CASE writing[w].step = "user"
      BY <1>1, <3>1 DEF WriterRecords
    <3>2. CASE writing[w].step = "assistant" /\ writing[w].trims
      BY <1>1, <3>2 DEF WriterRecords
    <3>3. CASE writing[w].step = "assistant" /\ ~writing[w].trims
      BY <3>3, RestingTyped
    <3>4. writing[w].trims \in BOOLEAN
      BY <1>1 DEF WriterRecords
    <3> QED
      BY <1>1, <3>1, <3>2, <3>3, <3>4
  <2>2. writing' = [writing EXCEPT ![w] = next] /\ writing \in [Writers -> WriterRecords]
    BY <1>3 DEF StreamInvariant, StreamTyped
  <2> HIDE DEF next
  <2> QED
    BY <2>1, <2>2
<1> HIDE DEF m, rec
<1>5. /\ history \in Seq(MessageOf) /\ history' \in Seq(MessageOf) /\ Len(history) \in Nat
      /\ Len(history') = Len(history) + 1 /\ history'[Len(history) + 1] = m
      /\ \A i \in 1..Len(history) : history'[i] = history[i]
      /\ DOMAIN history = 1..Len(history) /\ DOMAIN history' = 1..(Len(history) + 1)
  <2>1. history \in Seq(MessageOf)
    BY DEF StreamInvariant, StreamTyped
  <2> QED
    BY <1>2, <1>3, <2>1, AppendProperties
<1>6. \A x : IsHeld(x)' => IsHeld(x)
  <2> SUFFICES ASSUME NEW x, IsHeld(x)' PROVE IsHeld(x)
    OBVIOUS
  <2>1. CASE \E i \in DOMAIN history' : x = history'[i]
    <3>1. PICK i \in DOMAIN history' : x = history'[i]
      BY <2>1
    <3>2. CASE i = Len(history) + 1
      BY <1>2, <1>5, <3>1, <3>2
    <3>3. CASE i # Len(history) + 1
      <4>1. i \in DOMAIN history /\ history'[i] = history[i]
        BY <1>5, <3>3
      <4> QED
        BY <3>1, <4>1 DEF IsHeld
    <3> QED
      BY <3>2, <3>3
  <2>2. ASSUME NEW v \in Writers, NEW i \in DOMAIN writing'[v].pair, x = writing'[v].pair[i]
        PROVE  IsHeld(x)
    <3>1. i \in DOMAIN writing[v].pair /\ writing'[v].pair[i] = writing[v].pair[i]
      BY <1>4, <2>2 DEF rec
    <3> QED
      BY <2>2, <3>1 DEF IsHeld
  <2>3. ASSUME NEW v \in Writers, NEW i \in DOMAIN writing'[v].kept, x = writing'[v].kept[i]
        PROVE  IsHeld(x)
    <3>1. i \in DOMAIN writing[v].kept /\ writing'[v].kept[i] = writing[v].kept[i]
      BY <1>4, <2>3 DEF rec
    <3> QED
      BY <2>3, <3>1 DEF IsHeld
  <2> QED
    BY <2>1, <2>2, <2>3 DEF IsHeld
<1>7. StreamTyped'
  <2>1. overlapped' \in BOOLEAN
    BY <1>3 DEF StreamInvariant, StreamTyped
  <2> QED
    BY <1>4, <1>5, <2>1 DEF StreamInvariant, StreamTyped
<1>8. TurnHeld'
  <2>1. writing'["thread"].step # "rest" => writing["thread"].step # "rest"
    BY <1>1, <1>4 DEF Writers
  <2> QED
    BY <2>1 DEF StreamInvariant, TurnHeld
<1>9. WritersHavePairs' /\ CutsKeepTurns'
  <2>1. \A v \in Writers : writing'[v].step # "rest" =>
            writing[v].step # "rest" /\ writing'[v].pair = writing[v].pair
    BY <1>1, <1>4 DEF rec
  <2>2. \A v \in Writers : writing'[v].step = "cut" => writing'[v] = writing[v]
    BY <1>4 DEF rec
  <2> QED
    BY <2>1, <2>2 DEF StreamInvariant, WritersHavePairs, CutsKeepTurns
<1>10. \A q \in Streams : RequestIsSound(q)'
  <2>1. Len(history') >= Len(history) /\ Len(history') > Len(history)
    BY <1>5
  <2> QED
    BY <1>5, <1>6, <2>1, StreamsStaySound
<1>11. ASSUME ~overlapped'
       PROVE  Shape'
  <2>1. ~overlapped /\ \A v \in Writers \ {w} : writing[v].step = "rest"
    BY <1>1, <1>3, <1>11, AloneUnlessOverlapped
  <2>2. Shape
    BY <2>1 DEF StreamInvariant
  <2>3. \A v \in Writers \ {w} : writing'[v].step = "rest"
    BY <1>4, <2>1
  <2>4. \E v \in Writers : v # w /\ writing'[v].step = "rest"
    BY <2>3 DEF Writers
  <2>5. CASE writing[w].step = "user"
    <3>1. \A v \in Writers : writing[v].step # "assistant"
      BY <2>1, <2>5
    <3>2. Whole(history) /\ m.role = "user" /\ m.who = writing[w].pair[1].who
      BY <1>1, <1>2, <2>2, <2>5, <3>1 DEF Shape
    <3>3. Half(history', writing[w].pair[1].who)
      BY <1>2, <1>3, <1>5, <3>2, AppendToWhole DEF m
    <3>4. writing'[w].step = "assistant" /\ writing'[w].pair = writing[w].pair
      BY <1>4, <2>5 DEF rec
    <3> QED
      BY <2>3, <2>4, <3>3, <3>4 DEF Shape
  <2>6. CASE writing[w].step = "assistant"
    <3>1. Half(history, m.who) /\ m.role = "assistant"
      BY <1>1, <1>2, <2>2, <2>6 DEF Shape
    <3>2. Whole(history')
      BY <1>2, <1>3, <1>5, <3>1, AppendToHalf DEF m
    <3>3. writing'[w].step \in {"measure", "rest"}
      BY <1>4, <2>6 DEF rec
    <3> QED
      BY <2>3, <2>4, <3>2, <3>3 DEF Shape
  <2> QED
    BY <1>1, <2>5, <2>6
<1>12. ASSUME ~overlapped', NEW q \in Streams, Visible(q)'
       PROVE  Single(q)'
  <2>1. ~overlapped /\ \A v \in Writers \ {w} : writing[v].step = "rest"
    BY <1>1, <1>3, <1>12, AloneUnlessOverlapped
  <2>2. Single(q)
    BY <1>12, <2>1 DEF StreamInvariant, Visible
  <2>3. \A v \in Writers : writing'[v].step # "user"
    BY <1>4, <2>1 DEF rec
  <2>4. ASSUME NEW i \in DOMAIN history', NEW j \in DOMAIN history',
               history'[i].who = q /\ history'[i].role = "user",
               history'[j].who = q /\ history'[j].role = "user", i # Len(history) + 1
        PROVE  i = j
    <3>1. i \in DOMAIN history /\ history'[i] = history[i]
      BY <1>5, <2>4
    <3>2. CASE j = Len(history) + 1
      <4>1. m.who = q /\ m.role = "user"
        BY <1>5, <2>4, <3>2
      <4>2. writing[w].step = "user" /\ writing[w].pair[1].who = q
        BY <1>1, <1>2, <4>1
      <4> QED
        BY <2>2, <2>4, <3>1, <4>2 DEF Single
    <3>3. CASE j # Len(history) + 1
      <4>1. j \in DOMAIN history /\ history'[j] = history[j]
        BY <1>5, <3>3
      <4> QED
        BY <2>2, <2>4, <3>1, <4>1 DEF Single
    <3> QED
      BY <3>2, <3>3
  <2>5. \A i, j \in DOMAIN history' :
          /\ history'[i].who = q /\ history'[i].role = "user"
          /\ history'[j].who = q /\ history'[j].role = "user"
          => i = j
    BY <2>4
  <2> QED
    BY <2>3, <2>5 DEF Single
<1> QED
  BY <1>7, <1>8, <1>9, <1>10, <1>11, <1>12 DEF StreamInvariant

LEMMA MeasureIsSound ==
    ASSUME StreamInvariant, NEW w \in Writers, Measure(w),
           UNCHANGED <<parity, at, thread, holder, events, preLen, grown, text, shown, saved, sent,
                       clears, clearedBy>>
    PROVE  StreamInvariant'
<1> DEFINE rec == writing'[w]
<1>1. /\ writing[w] \in WriterRecords /\ writing[w].step = "measure"
      /\ history \in Seq(MessageOf) /\ Len(history) \in Nat /\ history' = history
      /\ overlapped' = (overlapped \/ \A v \in DOMAIN writing : writing[v].step # "rest")
  BY OneStream DEF StreamInvariant, StreamTyped, Measure
<1>2. /\ writing' \in [Writers -> WriterRecords]
      /\ \A v \in Writers \ {w} : writing'[v] = writing[v]
      /\ \/ /\ Len(history) > 2 * MaxHistory
            /\ rec.step = "cut" /\ rec.pair = writing[w].pair /\ rec.kept = Newest(history)
         \/ rec.step = "rest" /\ DOMAIN rec.pair = {} /\ DOMAIN rec.kept = {}
  <2> DEFINE next == IF Len(history) > 2 * MaxHistory
                     THEN [writing[w] EXCEPT !.step = "cut", !.kept = Newest(history)]
                     ELSE Resting
  <2>1. /\ next \in WriterRecords
        /\ \/ /\ Len(history) > 2 * MaxHistory
              /\ next.step = "cut" /\ next.pair = writing[w].pair /\ next.kept = Newest(history)
           \/ next.step = "rest" /\ DOMAIN next.pair = {} /\ DOMAIN next.kept = {}
    <3>1. CASE Len(history) > 2 * MaxHistory
      <4>1. Newest(history) \in Seq(MessageOf)
        BY <1>1, <3>1, NewestKeeps
      <4> QED
        BY <1>1, <3>1, <4>1 DEF WriterRecords
    <3>2. CASE ~(Len(history) > 2 * MaxHistory)
      BY <3>2, RestingTyped
    <3> QED
      BY <3>1, <3>2
  <2>2. writing' = [writing EXCEPT ![w] = next] /\ writing \in [Writers -> WriterRecords]
    BY DEF Measure, StreamInvariant, StreamTyped
  <2> HIDE DEF next
  <2> QED
    BY <2>1, <2>2
<1> HIDE DEF rec
<1>3. \A x : IsHeld(x)' => IsHeld(x)
  <2> SUFFICES ASSUME NEW x, IsHeld(x)' PROVE IsHeld(x)
    OBVIOUS
  <2>1. CASE \E i \in DOMAIN history' : x = history'[i]
    BY <1>1, <2>1 DEF IsHeld
  <2>2. ASSUME NEW v \in Writers, NEW i \in DOMAIN writing'[v].pair, x = writing'[v].pair[i]
        PROVE  IsHeld(x)
    <3>1. i \in DOMAIN writing[v].pair /\ writing'[v].pair[i] = writing[v].pair[i]
      BY <1>2, <2>2 DEF rec
    <3> QED
      BY <2>2, <3>1 DEF IsHeld
  <2>3. ASSUME NEW v \in Writers, NEW i \in DOMAIN writing'[v].kept, x = writing'[v].kept[i]
        PROVE  IsHeld(x)
    <3>1. CASE v # w
      BY <1>2, <2>3, <3>1 DEF IsHeld
    <3>2. CASE v = w
      <4>1. Len(history) > 2 * MaxHistory /\ writing'[v].kept = Newest(history)
        BY <1>2, <2>3, <3>2 DEF rec
      <4>2. /\ i \in 1..(2 * MaxHistory) /\ x = history[Len(history) - 2 * MaxHistory + i]
            /\ Len(history) - 2 * MaxHistory + i \in DOMAIN history
        BY <1>1, <2>3, <4>1, NewestKeeps
      <4> QED
        BY <4>2 DEF IsHeld
    <3> QED
      BY <3>1, <3>2
  <2> QED
    BY <2>1, <2>2, <2>3 DEF IsHeld
<1>4. StreamTyped'
  <2>1. overlapped' \in BOOLEAN
    BY <1>1 DEF StreamInvariant, StreamTyped
  <2> QED
    BY <1>1, <1>2, <2>1 DEF StreamInvariant, StreamTyped
<1>5. TurnHeld'
  <2>1. writing'["thread"].step # "rest" => writing["thread"].step # "rest"
    BY <1>1, <1>2 DEF Writers
  <2> QED
    BY <2>1 DEF StreamInvariant, TurnHeld
<1>6. WritersHavePairs' /\ CutsKeepTurns'
  <2>1. \A v \in Writers : writing'[v].step # "rest" =>
            writing[v].step # "rest" /\ writing'[v].pair = writing[v].pair
    BY <1>1, <1>2 DEF rec
  <2>2. rec.step = "cut" => Len(rec.kept) = 2 * MaxHistory
    BY <1>1, <1>2, NewestKeeps
  <2>3. WritersHavePairs'
    BY <2>1 DEF StreamInvariant, WritersHavePairs
  <2>4. CutsKeepTurns'
    BY <1>2, <2>2 DEF StreamInvariant, CutsKeepTurns, rec
  <2> QED
    BY <2>3, <2>4
<1>7. \A q \in Streams : RequestIsSound(q)'
  <2>1. writing["thread"].step = "user" => writing'["thread"].step = "user"
    BY <1>1, <1>2 DEF Writers
  <2>2. Len(history') >= Len(history)
    BY <1>1
  <2> QED
    BY <1>1, <1>3, <2>1, <2>2, StreamsStaySound
<1>8. ASSUME ~overlapped'
      PROVE  Shape'
  <2>1. ~overlapped /\ \A v \in Writers \ {w} : writing[v].step = "rest"
    BY <1>1, <1>8, AloneUnlessOverlapped
  <2>2. Whole(history)
    <3>1. \A v \in Writers : writing[v].step # "assistant"
      BY <1>1, <2>1
    <3> QED
      BY <2>1, <3>1 DEF StreamInvariant, Shape
  <2>3. \A v \in Writers \ {w} : writing'[v].step = "rest"
    BY <1>2, <2>1
  <2>4. \E v \in Writers : v # w /\ writing'[v].step = "rest"
    BY <2>3 DEF Writers
  <2>5. /\ writing'[w].step # "assistant"
        /\ writing'[w].step = "cut" => /\ Len(history) > 2 * MaxHistory
                                       /\ writing'[w].kept = Newest(history)
    BY <1>2 DEF rec
  <2> QED
    BY <1>1, <2>2, <2>3, <2>4, <2>5 DEF Shape
<1>9. ASSUME ~overlapped', NEW q \in Streams, Visible(q)'
      PROVE  Single(q)'
  <2>1. ~overlapped
    BY <1>1, <1>9 DEF StreamInvariant, StreamTyped
  <2>2. Single(q)
    BY <1>9, <2>1 DEF StreamInvariant, Visible
  <2>3. \A v \in Writers : writing'[v].step = "user" => v # w /\ writing'[v] = writing[v]
    BY <1>2 DEF rec
  <2> QED
    BY <1>1, <2>2, <2>3 DEF Single
<1> QED
  BY <1>4, <1>5, <1>6, <1>7, <1>8, <1>9 DEF StreamInvariant

LEMMA CutHistoryIsSound ==
    ASSUME StreamInvariant, NEW w \in Writers, CutHistory(w),
           UNCHANGED <<parity, at, thread, holder, events, preLen, grown, text, shown, saved, sent,
                       clears, clearedBy>>
    PROVE  StreamInvariant'
<1>1. /\ writing[w] \in WriterRecords /\ writing[w].step = "cut"
      /\ history \in Seq(MessageOf) /\ Len(history) \in Nat
      /\ history' = writing[w].kept /\ history' \in Seq(MessageOf)
      /\ Len(history') = 2 * MaxHistory
      /\ overlapped' = overlapped
  BY DEF StreamInvariant, StreamTyped, CutHistory, WriterRecords, CutsKeepTurns
<1>2. /\ writing' \in [Writers -> WriterRecords]
      /\ \A v \in Writers \ {w} : writing'[v] = writing[v]
      /\ writing'[w] = Resting /\ writing'[w].step = "rest"
      /\ DOMAIN writing'[w].pair = {} /\ DOMAIN writing'[w].kept = {}
  <2>1. writing' = [writing EXCEPT ![w] = Resting] /\ writing \in [Writers -> WriterRecords]
    BY DEF CutHistory, StreamInvariant, StreamTyped
  <2> QED
    BY <2>1, RestingTyped
<1>3. \A x : IsHeld(x)' => IsHeld(x)
  <2> SUFFICES ASSUME NEW x, IsHeld(x)' PROVE IsHeld(x)
    OBVIOUS
  <2>1. CASE \E i \in DOMAIN history' : x = history'[i]
    BY <1>1, <2>1 DEF IsHeld
  <2>2. ASSUME NEW v \in Writers, NEW i \in DOMAIN writing'[v].pair, x = writing'[v].pair[i]
        PROVE  IsHeld(x)
    BY <1>2, <2>2 DEF IsHeld
  <2>3. ASSUME NEW v \in Writers, NEW i \in DOMAIN writing'[v].kept, x = writing'[v].kept[i]
        PROVE  IsHeld(x)
    BY <1>2, <2>3 DEF IsHeld
  <2> QED
    BY <2>1, <2>2, <2>3 DEF IsHeld
<1>4. StreamTyped'
  BY <1>1, <1>2 DEF StreamInvariant, StreamTyped
<1>5. TurnHeld'
  <2>1. writing'["thread"].step # "rest" => writing["thread"].step # "rest"
    BY <1>1, <1>2 DEF Writers
  <2> QED
    BY <2>1 DEF StreamInvariant, TurnHeld
<1>6. WritersHavePairs' /\ CutsKeepTurns'
  <2>1. \A v \in Writers : writing'[v].step # "rest" => writing'[v] = writing[v]
    BY <1>2
  <2> QED
    BY <2>1 DEF StreamInvariant, WritersHavePairs, CutsKeepTurns
<1>7. \A q \in Streams : RequestIsSound(q)'
  <2>1. writing["thread"].step = "user" => writing'["thread"].step = "user"
    BY <1>1, <1>2 DEF Writers
  <2>2. Len(history') >= 2 * MaxHistory
    BY <1>1, Bounds
  <2> QED
    BY <1>1, <1>3, <2>1, <2>2, StreamsStaySound
<1>8. ASSUME ~overlapped'
      PROVE  Shape' /\ \A q \in Streams : Visible(q)' => Single(q)'
  <2>1. Shape
    BY <1>1, <1>8 DEF StreamInvariant
  <2>2. Len(history) > 2 * MaxHistory /\ history' = Newest(history)
    BY <1>1, <2>1 DEF Shape
  <2>3. \A v \in Writers \ {w} : writing[v].step \in {"rest", "user"}
    <3>1. \A u, v \in Writers : u # w /\ v # w => u = v
      BY DEF Writers
    <3>2. ASSUME NEW v \in Writers \ {w}, writing[v].step # "rest"
          PROVE  writing[v].step = "user"
      <4>1. \A u \in Writers : writing[u].step # "rest"
        BY <1>1, <3>1, <3>2
      <4>2. PICK u \in Writers : writing[u].step = "user"
        BY <2>1, <4>1 DEF Shape
      <4> QED
        BY <1>1, <3>1, <4>2
    <3> QED
      BY <3>2
  <2>4. Whole(history)
    <3>1. \A v \in Writers : writing[v].step # "assistant"
      BY <1>1, <2>3
    <3> QED
      BY <2>1, <3>1 DEF Shape
  <2>5. Whole(history')
    BY <1>1, <2>2, <2>4, NewestOfWhole
  <2>6. Shape'
    BY <1>2, <2>3, <2>5 DEF Shape
  <2>7. ASSUME NEW q \in Streams, Visible(q)'
        PROVE  Single(q)'
    <3>1. Single(q)
      BY <1>1, <1>8, <2>7 DEF StreamInvariant, Visible
    <3> DEFINE from(i) == Len(history) - 2 * MaxHistory + i
    <3>2. \A i \in DOMAIN history' : history'[i] = history[from(i)] /\ from(i) \in DOMAIN history
      BY <1>1, <2>2, NewestKeeps
    <3>3. \A i, j \in DOMAIN history' : from(i) = from(j) => i = j
      <4>1. DOMAIN history' = 1..(2 * MaxHistory)
        BY <1>1
      <4> QED
        BY <1>1, <4>1, Bounds
    <3> HIDE DEF from
    <3>4. \A v \in Writers : writing'[v].step = "user" => v # w /\ writing'[v] = writing[v]
      BY <1>2
    <3>5. \A i, j \in DOMAIN history' :
              /\ history'[i].who = q /\ history'[i].role = "user"
              /\ history'[j].who = q /\ history'[j].role = "user"
              => i = j
      BY <3>1, <3>2, <3>3 DEF Single
    <3>6. \A v \in Writers : writing'[v].step = "user" /\ writing'[v].pair[1].who = q =>
              /\ \A i \in DOMAIN history' : ~(history'[i].who = q /\ history'[i].role = "user")
              /\ \A u \in Writers \ {v} :
                    ~(writing'[u].step = "user" /\ writing'[u].pair[1].who = q)
      BY <3>1, <3>2, <3>4 DEF Single
    <3> QED
      BY <3>5, <3>6 DEF Single
  <2> QED
    BY <2>6, <2>7
<1> QED
  BY <1>4, <1>5, <1>6, <1>7, <1>8 DEF StreamInvariant

----------------------------------------------------------------------------
LEMMA StreamInvariantHolds == StreamInvariant /\ [StreamNext]_streamVars => StreamInvariant'
<1> SUFFICES ASSUME StreamInvariant, [StreamNext]_streamVars PROVE StreamInvariant'
  OBVIOUS
<1>1. ASSUME NEW w \in {"loop", "thread"}, WriteHistory(w) PROVE StreamInvariant'
  BY <1>1, AppendMessageIsSound, MeasureIsSound, CutHistoryIsSound DEF WriteHistory, Writers
<1>2. CASE ClearHistory
  BY <1>2, ClearHistoryIsSound
<1>3. ASSUME NEW r \in Streams, ThreadStep(r) PROVE StreamInvariant'
  BY <1>3, TakeTurnIsSound, EmitEventIsSound, EndGraphIsSound, PublishResultIsSound,
     GraphRaisesIsSound DEF ThreadStep
<1>4. ASSUME NEW r \in Streams, GeneratorStep(r) PROVE StreamInvariant'
  BY <1>4, BeginStreamIsSound, RelayEventIsSound, EndOfRunIsSound, EndingsAreSound,
     ShowAnswerIsSound, StreamTokensIsSound, RecordStreamIsSound, FallBackIsSound,
     FallbackAnswersIsSound, PersistAnswerIsSound DEF GeneratorStep
<1>5. ASSUME NEW a \in Replies, NEW cached \in BOOLEAN, RecordReply(a, cached)
      PROVE  StreamInvariant'
  BY <1>5, RecordReplyIsSound
<1>6. CASE UNCHANGED streamVars
  <2>1. \A m : IsHeld(m)' <=> IsHeld(m)
    BY <1>6 DEF IsHeld, streamVars
  <2>2. \A q \in Streams : RequestIsSound(q)'
    <3>1. Len(history') >= Len(history) /\ history' \in Seq(MessageOf)
      BY <1>6 DEF StreamInvariant, StreamTyped, streamVars
    <3> QED
      BY <1>6, <2>1, <3>1, StreamsStaySound DEF streamVars
  <2>3. StreamTyped' /\ TurnHeld' /\ WritersHavePairs' /\ CutsKeepTurns'
    BY <1>6 DEF StreamInvariant, StreamTyped, TurnHeld, WritersHavePairs, CutsKeepTurns, streamVars
  <2>4. ~overlapped' => Shape'
    BY <1>6 DEF StreamInvariant, Shape, streamVars
  <2>5. ~overlapped' => \A q \in Streams : Visible(q)' => Single(q)'
    BY <1>6 DEF StreamInvariant, Visible, Single, streamVars
  <2> QED
    BY <2>2, <2>3, <2>4, <2>5 DEF StreamInvariant
<1> QED
  BY <1>1, <1>2, <1>3, <1>4, <1>5, <1>6 DEF StreamNext

\* The four parts of the safety of streams follow from the invariant.
LEMMA StreamInvariantIsSafe == StreamInvariant => StreamSafety
<1> SUFFICES ASSUME StreamInvariant PROVE StreamSafety
  OBVIOUS
<1>1. StreamTypeOK
  <2>1. \A i \in DOMAIN history : history[i] \in MessageOf
    BY HeldAreMessages DEF StreamInvariant
  <2>2. \A w \in DOMAIN writing : writing[w].step \in {"rest", "user", "assistant", "measure", "cut"}
    BY DEF StreamInvariant, StreamTyped, WriterRecords
  <2>3. writing["thread"].step # "rest" => holder \in Streams
    BY DEF StreamInvariant, TurnHeld
  <2>4. \A r \in Streams \cup Replies : at[r] \in StreamPlaces
    BY DEF StreamInvariant, StreamTyped
  <2>5. ASSUME NEW r \in Streams
        PROVE  /\ thread[r] \in ThreadPlaces
               /\ (thread[r] \in {"running", "graph", "blank"}) = (holder = r)
               /\ Len(events[r]) <= MaxEvents + 2
               /\ text[r] \in Texts \cup {NoText} /\ saved[r] \in Texts \cup {NoText}
               /\ sent[r] \in Texts \cup {NoText, "error", "failed"}
               /\ shown[r] \subseteq {"provider", "chunks", "model"}
    BY OneStream DEF EventsSoFar, StreamInvariant, StreamTyped, TurnHeld
  <2>6. parity \in BOOLEAN /\ clears \in 0..MaxClears
    BY DEF StreamInvariant, StreamTyped
  <2> QED
    BY <2>1, <2>2, <2>3, <2>4, <2>5, <2>6 DEF StreamTypeOK, StreamPlaces, ThreadPlaces
<1>2. TwiceOnlyUnseen
  <2> SUFFICES ASSUME NEW r \in Streams, Copies(r) > 1,
                      ~(preLen[r] >= 2 * MaxHistory \/ r \in clearedBy \/ overlapped)
               PROVE  FALSE
    BY DEF TwiceOnlyUnseen
  <2> DEFINE C == {i \in DOMAIN history : history[i].who = r /\ history[i].role = "user"}
  <2>1. Visible(r) /\ ~overlapped
    BY OneStream, Bounds DEF Visible
  <2>2. \A i, j \in C : i = j
    BY <2>1 DEF StreamInvariant, Single
  <2>3. Cardinality(C) <= 1
    <3>1. CASE C = {}
      BY <3>1, FS_EmptySet
    <3>2. CASE C # {}
      <4>1. PICK i \in C : TRUE
        BY <3>2
      <4>2. C = {i}
        BY <2>2, <4>1
      <4> HIDE DEF C
      <4> QED
        BY <4>2, FS_Singleton
    <3> QED
      BY <3>1, <3>2
  <2>4. Copies(r) = Cardinality(C)
    BY DEF Copies
  <2>5. Cardinality(C) \in Nat
    <3>1. IsFiniteSet(DOMAIN history)
      <4>1. DOMAIN history = 1..Len(history) /\ Len(history) \in Nat
        BY OneStream
      <4> QED
        BY <4>1, FS_Interval
    <3> QED
      BY <3>1, FS_Subset, FS_CardinalityType
  <2> HIDE DEF C
  <2> QED
    BY <2>3, <2>4, <2>5
<1>3. TurnsStayWhole
  <2> SUFFICES ASSUME ~overlapped, \A w \in DOMAIN writing : writing[w].step = "rest"
               PROVE  /\ Len(history) % 2 = 0
                      /\ \A i \in 1..(Len(history) \div 2) :
                            /\ history[2 * i - 1].role = "user"
                            /\ history[2 * i].role = "assistant"
                            /\ history[2 * i].who = history[2 * i - 1].who
    BY DEF TurnsStayWhole
  <2>1. \A w \in Writers : writing[w].step # "assistant"
    BY DEF StreamInvariant, StreamTyped
  <2>2. PICK n \in Nat : Len(history) = 2 * n /\ PairsTo(history, n)
    BY <2>1 DEF StreamInvariant, Shape, Whole
  <2>3. (2 * n) % 2 = 0 /\ (2 * n) \div 2 = n
    OBVIOUS
  <2>4. Len(history) % 2 = 0 /\ Len(history) \div 2 = n
    BY <2>2, <2>3
  <2> QED
    BY <2>2, <2>4 DEF PairsTo
<1>4. RememberedAsSaved
  <2> SUFFICES ASSUME NEW r \in Streams, saved[r] # NoText
               PROVE  /\ sent[r] = saved[r]
                      /\ \A i \in DOMAIN history :
                            (history[i].who = r /\ history[i].role = "assistant") =>
                                \/ history[i].text = saved[r]
                                \/ history[i].text = "blank" /\ saved[r] = "apology"
    BY DEF RememberedAsSaved
  <2>1. PICK t \in Texts : Says(r, t)
    BY OneStream
  <2>2. sent[r] = saved[r]
    BY OneStream DEF Places
  <2>3. saved[r] = t \/ (t = "blank" /\ saved[r] = "apology")
    BY <2>1 DEF Says
  <2>4. \A i \in DOMAIN history :
            history[i].who = r /\ history[i].role = "assistant" => history[i].text = t
    BY <2>1, HeldAreMessages DEF Says, AllSay, StreamInvariant
  <2> QED
    BY <2>2, <2>3, <2>4
<1> QED
  BY <1>1, <1>2, <1>3, <1>4 DEF StreamSafety

\* Of every streamed turn, whoever else writes to the session's history: it is recorded twice
\* only where the length of the history cannot tell, the turns stay whole unless the loop's
\* append overlaps a thread's, and what is remembered is what was sent and saved
\* (event_generator, _append_stream_history, _append_history).
THEOREM StreamsAreRemembered == StreamSpec => []StreamSafety
<1>1. StreamInit => StreamInvariant
  BY StreamStarts
<1>2. StreamInvariant /\ [StreamNext]_streamVars => StreamInvariant'
  BY StreamInvariantHolds
<1>3. StreamInvariant => StreamSafety
  BY StreamInvariantIsSafe
<1> QED
  BY <1>1, <1>2, <1>3, PTL DEF StreamSpec

=============================================================================
