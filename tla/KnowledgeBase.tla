---------------------------- MODULE KnowledgeBase ----------------------------
(***************************************************************************)
(* Articles written from resolved tickets, and the gaps found in questions *)
(* the index could not answer.  A weekly job writes drafts; admins edit,   *)
(* reject or publish them.  Publishing adds the article to the collection  *)
(* that is active, in place: an index built from uploads later starts      *)
(* without it.  Every endpoint reads the row, decides on what it read, and *)
(* writes at its commit; other requests run in between.                    *)
(*                                                                         *)
(* api/routers/admin_kb.py, scripts/kb_builder.py,                         *)
(* scripts/kb_gap_detector.py.                                             *)
(***************************************************************************)
EXTENDS Naturals, FiniteSets, Sequences, SequencesExt, NumberOrder

CONSTANTS
    Drafts,        \* rows of kb_drafts the job may write
    Editors,       \* requests of admins
    MaxEdits,      \* bound on the texts of a draft
    MaxArticles,   \* bound on the articles of a collection
    MaxRebuilds,   \* bound on the publications of an index
    QuestionCount  \* questions the gap detector groups

ASSUME KnowledgeBaseAssumption ==
    /\ "none" \notin Drafts
    /\ MaxEdits \in Nat \ {0} /\ MaxArticles \in Nat /\ MaxRebuilds \in Nat
    /\ QuestionCount \in Nat \ {0}

VARIABLES
    drafts,    \* kb_drafts: status and the number of the text
    editor,    \* per request: step, operation, draft, the text it read
    articles,  \* articles of the active collection, in the order they were added
    earlier,   \* articles of the previous collection
    rebuilds,  \* publications of an index so far
    clashed,   \* history: drafts two requests had read, or whose commit failed
    indexed,   \* history: drafts whose article was added to some collection
    chroma,    \* Chroma is installed and its stores take documents
    similar,   \* pairs of similar questions
    grouping   \* build_gap_records: next index, stack, visited, component, clusters

draftVars == <<drafts, editor, articles, earlier, rebuilds, clashed, indexed, chroma>>
gapVars == <<similar, grouping>>
kbVars == <<drafts, editor, articles, earlier, rebuilds, clashed, indexed, chroma, similar,
            grouping>>

Questions == 1 .. QuestionCount
Idle == [step |-> "idle", op |-> "none", draft |-> "none", text |-> 0]

KbInit ==
    /\ drafts = [d \in Drafts |-> [status |-> "absent", text |-> 0]]
    /\ editor = [e \in Editors |-> Idle]
    /\ articles = <<>> /\ earlier = <<>>
    /\ rebuilds = 0
    /\ clashed = {} /\ indexed = {}
    /\ chroma \in BOOLEAN
    /\ similar \in SUBSET {pair \in SUBSET Questions : Cardinality(pair) = 2}
    /\ grouping = [next |-> 1, stack |-> <<>>, visited |-> {}, component |-> <<>>, clusters |-> {}]

----------------------------------------------------------------------------
(* Drafts *)

\* kb_builder.run_once: one draft per cluster of tickets resolved in the last week, with
\* no look at the drafts an earlier run wrote from the same tickets.
WriteDraft(d) ==
    /\ drafts[d].status = "absent"
    /\ drafts' = [drafts EXCEPT ![d] = [status |-> "pending", text |-> 1]]
    /\ UNCHANGED <<editor, articles, earlier, rebuilds, clashed, indexed, chroma>>
    /\ UNCHANGED gapVars

\* 409 unless the row says pending.
MayDecide(status) == status = "pending"

\* The row is read, and the decision to go on rests on it.
ReadDraft(e, d, op) ==
    /\ editor[e].step = "idle"
    /\ MayDecide(drafts[d].status)
    /\ editor' = [editor EXCEPT ![e] =
           [step |-> IF op = "publish" THEN "index" ELSE "commit",
            op |-> op, draft |-> d, text |-> drafts[d].text]]
    /\ clashed' = IF \E f \in Editors \ {e} : editor[f].draft = d
                  THEN clashed \cup {d} ELSE clashed
    /\ UNCHANGED <<drafts, articles, earlier, rebuilds, indexed, chroma>>
    /\ UNCHANGED gapVars

\* Under the tenant's lock the article is added to the active collection.
AddArticle(e) ==
    /\ editor[e].step = "index"
    /\ chroma
    /\ Len(articles) < MaxArticles
    /\ articles' = Append(articles, [draft |-> editor[e].draft, text |-> editor[e].text])
    /\ indexed' = indexed \cup {editor[e].draft}
    /\ editor' = [editor EXCEPT ![e].step = "commit"]
    /\ UNCHANGED <<drafts, earlier, rebuilds, clashed, chroma>>
    /\ UNCHANGED gapVars

\* Without Chroma, or with a store that takes no documents, nothing is added and the
\* request goes on all the same.
SkipArticle(e) ==
    /\ editor[e].step = "index"
    /\ ~chroma
    /\ editor' = [editor EXCEPT ![e].step = "commit"]
    /\ UNCHANGED <<drafts, articles, earlier, rebuilds, clashed, indexed, chroma>>
    /\ UNCHANGED gapVars

\* The lock is not to be had, or the store refuses: the request ends, the row is as it was.
PublishRefused(e) ==
    /\ editor[e].step = "index"
    /\ editor' = [editor EXCEPT ![e] = Idle]
    /\ UNCHANGED <<drafts, articles, earlier, rebuilds, clashed, indexed, chroma>>
    /\ UNCHANGED gapVars

\* What the commit of a request leaves in the row; it compares nothing.
Committed(me, row) ==
    CASE me.op = "edit"    -> [row EXCEPT !.text = me.text + 1]
      [] me.op = "reject"  -> [row EXCEPT !.status = "rejected"]
      [] me.op = "publish" -> [row EXCEPT !.status = "published"]

\* Mutant: the commit of a publication comes before the article is added.
CommitDraft_First(e) ==
    /\ \/ editor[e].step = "commit" \/ editor[e].step = "index"
    /\ drafts' = [drafts EXCEPT ![editor[e].draft] = Committed(editor[e], @)]
    /\ editor' = [editor EXCEPT ![e] = Idle]
    /\ UNCHANGED <<articles, earlier, rebuilds, clashed, indexed, chroma>>
    /\ UNCHANGED gapVars

CommitDraft(e) ==
    /\ editor[e].step = "commit"
    /\ editor[e].op = "edit" => editor[e].text < MaxEdits
    /\ drafts' = [drafts EXCEPT ![editor[e].draft] = Committed(editor[e], @)]
    /\ editor' = [editor EXCEPT ![e] = Idle]
    /\ UNCHANGED <<articles, earlier, rebuilds, clashed, indexed, chroma>>
    /\ UNCHANGED gapVars

\* The commit fails: an article already added stays, and its draft is still pending.
CommitFails(e) ==
    /\ editor[e].step = "commit"
    /\ clashed' = clashed \cup {editor[e].draft}
    /\ editor' = [editor EXCEPT ![e] = Idle]
    /\ UNCHANGED <<drafts, articles, earlier, rebuilds, indexed, chroma>>
    /\ UNCHANGED gapVars

\* An upload publishes a collection built from the uploaded files.
RebuildFromUploads ==
    /\ rebuilds < MaxRebuilds
    /\ rebuilds' = rebuilds + 1
    /\ articles' = <<>> /\ earlier' = articles
    /\ UNCHANGED <<drafts, editor, clashed, indexed, chroma>>
    /\ UNCHANGED gapVars

\* A rollback makes the previous collection, and the articles in it, active again.
RollBackIndex ==
    /\ 0 < rebuilds /\ rebuilds < MaxRebuilds
    /\ rebuilds' = rebuilds + 1
    /\ articles' = earlier /\ earlier' = articles
    /\ UNCHANGED <<drafts, editor, clashed, indexed, chroma>>
    /\ UNCHANGED gapVars

----------------------------------------------------------------------------
(* Gaps: the questions are grouped by walks over their similarity *)

\* A question nobody reached starts a group.
StartGroup ==
    /\ grouping.stack = <<>> /\ grouping.component = <<>> /\ grouping.next <= QuestionCount
    /\ grouping' = IF grouping.next \in grouping.visited
                   THEN [grouping EXCEPT !.next = @ + 1]
                   ELSE [grouping EXCEPT !.next = @ + 1, !.stack = <<grouping.next>>,
                                         !.visited = @ \cup {grouping.next}]
    /\ UNCHANGED draftVars /\ UNCHANGED similar

\* The questions similar to q that nobody reached yet, in the order of the rows.
Reached(q, visited) ==
    InOrder({c \in Questions : {q, c} \in similar /\ c \notin visited})

\* The last question put on the stack joins the group and brings its neighbours.
GrowGroup ==
    LET q == Last(grouping.stack)  new == Reached(q, grouping.visited) IN
    /\ grouping.stack # <<>>
    /\ grouping' = [grouping EXCEPT
           !.stack = Front(@) \o new,
           !.visited = @ \cup ToSet(new),
           !.component = Append(@, q)]
    /\ UNCHANGED draftVars /\ UNCHANGED similar

\* The stack is empty: the group is complete.
CloseGroup ==
    /\ grouping.stack = <<>> /\ grouping.component # <<>>
    /\ grouping' = [grouping EXCEPT !.component = <<>>, !.clusters = @ \cup {grouping.component}]
    /\ UNCHANGED draftVars /\ UNCHANGED similar

DraftStep ==
    \/ \E d \in Drafts : WriteDraft(d)
    \/ \E e \in Editors :
          \/ \E d \in Drafts, op \in {"edit", "reject", "publish"} : ReadDraft(e, d, op)
          \/ AddArticle(e) \/ SkipArticle(e) \/ PublishRefused(e)
          \/ CommitDraft(e) \/ CommitFails(e)
    \/ RebuildFromUploads \/ RollBackIndex

GapStep == StartGroup \/ GrowGroup \/ CloseGroup

KbNext == DraftStep \/ GapStep

KbSpec == KbInit /\ [][KbNext]_kbVars

----------------------------------------------------------------------------
(* Properties *)

KbTypeOK ==
    /\ \A d \in Drafts : drafts[d].status \in {"absent", "pending", "rejected", "published"}
    /\ \A e \in Editors : editor[e].step \in {"idle", "index", "commit"}
    /\ \A a \in ToSet(articles) \cup ToSet(earlier) : a.draft \in Drafts /\ a.text \in 1 .. MaxEdits
    /\ rebuilds \in 0 .. MaxRebuilds
    /\ chroma \in BOOLEAN
    /\ grouping.next \in 1 .. QuestionCount + 1 /\ grouping.visited \subseteq Questions

\* Where Chroma takes documents, a draft marked published has had its article added to a
\* collection, whatever fails on the way: the row is never ahead of the index.  Elsewhere
\* the endpoint marks it published without one.
PublishedWasIndexed ==
    chroma => \A d \in Drafts : drafts[d].status = "published" => d \in indexed

\* The article of a draft is in a collection twice, or beside a rejection, only if two
\* requests had the draft open at once or a commit failed; nothing else repeats it.
TwiceNeedsClash ==
    \A d \in Drafts \ clashed :
        /\ \A i, j \in DOMAIN articles :
              articles[i].draft = d /\ articles[j].draft = d => i = j
        /\ drafts[d].status = "rejected" => d \notin indexed

\* When the walk ends the groups are the connected components of similarity: every
\* question is in one group once, similar questions are together, and no group can be
\* cut in two without cutting a similar pair.
GroupsAreComponents ==
    grouping.next > QuestionCount /\ grouping.stack = <<>> /\ grouping.component = <<>> =>
        /\ \A q \in Questions :
              Cardinality({c \in grouping.clusters : q \in ToSet(c)}) = 1
        /\ \A c \in grouping.clusters : Len(c) = Cardinality(ToSet(c))
        /\ \A pair \in similar : \E c \in grouping.clusters : pair \subseteq ToSet(c)
        /\ \A c \in grouping.clusters : \A S \in SUBSET ToSet(c) :
              S \notin {{}, ToSet(c)} => \E p \in S, q \in ToSet(c) \ S : {p, q} \in similar

\* Published drafts were indexed, once unless editors clash, and gaps are grouped by
\* similarity (admin_kb, kb_gap_detector).
KbSafety ==
    /\ KbTypeOK
    /\ PublishedWasIndexed
    /\ TwiceNeedsClash
    /\ GroupsAreComponents
=============================================================================
