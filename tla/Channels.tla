------------------------------ MODULE Channels ------------------------------
(***************************************************************************)
(* Questions that come by mail and by Telegram.  The poller searches the   *)
(* mailbox for unseen mails and answers them one after another; the first  *)
(* error ends its cycle.  The webhook answers a mail inside the request of *)
(* the mail provider, which delivers again what was not acknowledged.  The *)
(* bot builds its pipeline at the first message, and one session per chat. *)
(*                                                                         *)
(* channels/email_channel.py, email_webhook.py, telegram_bot.py,           *)
(* api/routers/misc.py, scripts/email_poller.py.                           *)
(***************************************************************************)
EXTENDS Naturals, Sequences, FiniteSets, SequencesExt

CONSTANTS
    Mails,      \* mails that arrive in the mailbox
    Poison,     \* mails whose processing raises every time
    Letters,    \* mails that the provider delivers to the webhook
    MaxPosts,   \* bound on the deliveries of one letter
    Messages,   \* messages to the bot, all of one chat
    NoMail      \* stands for no mail

ASSUME ChannelsAssumption ==
    /\ Poison \subseteq Mails /\ NoMail \notin Mails /\ Mails \cap Letters = {}
    /\ MaxPosts \in Nat
    /\ "none" \notin Messages

VARIABLES
    mailbox,    \* mails in the order of their arrival
    seen,       \* mails with the flag \Seen
    poller,     \* the cycle: step, mails still to do, mail in hand
    answers,    \* per mail or letter: replies sent and tickets made for it
    cut,        \* mails whose processing raised or was ended by a crash
    post,       \* per letter: step of its delivery, and deliveries so far
    botReady,   \* _session_class, _retriever and _llm are set
    botLock,    \* _init_lock: the message that holds it, or "free"
    chat,       \* per message: its step and the session it runs in
    sessionOf   \* _sessions of the chat: the message that created it, or "none"

channelVars == <<mailbox, seen, poller, answers, cut, post, botReady, botLock, chat, sessionOf>>

mailVars == <<mailbox, seen, poller, cut>>
botVars == <<botReady, botLock, chat, sessionOf>>

Asleep == [step |-> "asleep", todo |-> {}, mail |-> NoMail]

ChannelsInit ==
    /\ mailbox = <<>>
    /\ seen = {}
    /\ poller = Asleep
    /\ answers = [m \in Mails \cup Letters |-> 0]
    /\ cut = {}
    /\ post = [l \in Letters |-> [step |-> "new", posts |-> 0, acked |-> FALSE]]
    /\ botReady = FALSE
    /\ botLock = "free"
    /\ chat = [m \in Messages |-> [step |-> "new", session |-> "none"]]
    /\ sessionOf = "none"

----------------------------------------------------------------------------
(* poll_once *)

ArriveMail(m) ==
    /\ ~Contains(mailbox, m)
    /\ mailbox' = Append(mailbox, m)
    /\ UNCHANGED <<seen, poller, answers, cut, post, botVars>>

\* SEARCH UNSEEN lists the mails without the flag.
SearchUnseen ==
    /\ poller.step = "asleep"
    /\ ToSet(mailbox) \ seen # {}
    /\ poller' = [step |-> "cycle", mail |-> NoMail, todo |-> ToSet(mailbox) \ seen]
    /\ UNCHANGED <<mailbox, seen, answers, cut, post, botVars>>

\* Mutant: the mail is fetched without being marked.
SeenAfterFetch_Peek(m) == seen

\* FETCH (RFC822) of a mailbox that was selected for writing sets the flag \Seen.
SeenAfterFetch(m) == seen \cup {m}

\* The listed mails come in the order of the mailbox.
FetchMail ==
    /\ poller.step = "cycle"
    /\ \E i \in DOMAIN mailbox :
          /\ mailbox[i] \in poller.todo
          /\ \A j \in 1..(i - 1) : mailbox[j] \notin poller.todo
          /\ seen' = SeenAfterFetch(mailbox[i])
          /\ poller' = [step |-> "process", mail |-> mailbox[i], todo |-> poller.todo \ {mailbox[i]}]
    /\ UNCHANGED <<mailbox, answers, cut, post, botVars>>

\* process_incoming_message: a reply from the threshold on, a ticket below it.
Answered(m) == answers' = [answers EXCEPT ![m] = @ + 1]

ProcessMail ==
    /\ poller.step = "process"
    /\ poller.mail \notin Poison
    /\ Answered(poller.mail)
    /\ poller' = [poller EXCEPT !.step = "flag"]
    /\ UNCHANGED <<mailbox, seen, cut, post, botVars>>

\* The pipeline, the SMTP server or the database raises, or the process ends; a reply
\* may be out when SMTP raises.  The cycle ends and the other listed mails wait.
ProcessingFails ==
    /\ poller.step = "process"
    /\ \/ UNCHANGED answers
       \/ poller.mail \notin Poison /\ answers' = [answers EXCEPT ![poller.mail] = @ + 1]
    /\ cut' = cut \cup {poller.mail}
    /\ poller' = Asleep
    /\ UNCHANGED <<mailbox, seen, post, botVars>>

\* STORE +FLAGS \Seen
FlagMail ==
    /\ poller.step = "flag"
    /\ seen' = seen \cup {poller.mail}
    /\ poller' = [poller EXCEPT !.step = "cycle", !.mail = NoMail]
    /\ UNCHANGED <<mailbox, answers, cut, post, botVars>>

\* The list is done and the connection is closed, or the server fails.
EndCycle ==
    /\ \/ poller.step = "cycle"
       \/ poller.step = "flag"
    /\ poller' = Asleep
    /\ UNCHANGED <<mailbox, seen, answers, cut, post, botVars>>

----------------------------------------------------------------------------
(* email_inbound_webhook *)

\* The signature is right; the mail is processed before the response.
PostLetter(l) ==
    /\ post[l].step \in {"new", "unacknowledged"}
    /\ post[l].posts < MaxPosts
    /\ post' = [post EXCEPT ![l].step = "processing", ![l].posts = @ + 1]
    /\ UNCHANGED <<mailVars, answers, botVars>>

\* Mutant: the mail is acknowledged first and processed later.
ProcessLetter_Later(l) ==
    /\ post[l].step = "processing"
    /\ post' = [post EXCEPT ![l].step = "done", ![l].acked = TRUE]
    /\ UNCHANGED <<mailVars, answers, botVars>>

ProcessLetter(l) ==
    /\ post[l].step = "processing"
    /\ Answered(l)
    /\ post' = [post EXCEPT ![l].step = "done", ![l].acked = TRUE]
    /\ UNCHANGED <<mailVars, botVars>>

\* The request fails, or the provider gives up waiting while it goes on to its end.
LetterUnacknowledged(l) ==
    /\ post[l].step = "processing"
    /\ \/ UNCHANGED answers
       \/ Answered(l)
    /\ post' = [post EXCEPT ![l].step = "unacknowledged"]
    /\ UNCHANGED <<mailVars, botVars>>

----------------------------------------------------------------------------
(* The bot *)

\* _ensure_pipeline: ready at once, or through the lock.
MessageComes(m) ==
    /\ chat[m].step = "new"
    /\ chat' = [chat EXCEPT ![m].step = IF botReady THEN "session" ELSE "lock"]
    /\ UNCHANGED <<mailVars, answers, post, botReady, botLock, sessionOf>>

TakeLock(m) ==
    /\ chat[m].step = "lock"
    /\ botLock = "free"
    /\ botLock' = m
    /\ chat' = [chat EXCEPT ![m].step = "building"]
    /\ UNCHANGED <<mailVars, answers, post, botReady, sessionOf>>

\* The second look under the lock, the store is there, and the lock is released.
BuildPipeline(m) ==
    /\ chat[m].step = "building"
    /\ botReady' = TRUE
    /\ botLock' = "free"
    /\ chat' = [chat EXCEPT ![m].step = "session"]
    /\ UNCHANGED <<mailVars, answers, post, sessionOf>>

\* No vector store yet: the message is answered with an error.
BuildFails(m) ==
    /\ chat[m].step = "building"
    /\ ~botReady
    /\ botLock' = "free"
    /\ chat' = [chat EXCEPT ![m].step = "refused"]
    /\ UNCHANGED <<mailVars, answers, post, botReady, sessionOf>>

\* _get_session looks and creates without an await in between.
SessionFor(m) == IF sessionOf = "none" THEN m ELSE sessionOf

AskInChat(m) ==
    /\ chat[m].step = "session"
    /\ sessionOf' = SessionFor(m)
    /\ chat' = [chat EXCEPT ![m] = [step |-> "answered", session |-> SessionFor(m)]]
    /\ UNCHANGED <<mailVars, answers, post, botReady, botLock>>

----------------------------------------------------------------------------

PollerStep ==
    \/ SearchUnseen \/ FetchMail \/ ProcessMail \/ ProcessingFails \/ FlagMail \/ EndCycle

LetterStep(l) == PostLetter(l) \/ ProcessLetter(l) \/ LetterUnacknowledged(l)

ChatStep(m) ==
    MessageComes(m) \/ TakeLock(m) \/ BuildPipeline(m) \/ BuildFails(m) \/ AskInChat(m)

ChannelsNext ==
    \/ \E m \in Mails : ArriveMail(m)
    \/ PollerStep
    \/ \E l \in Letters : LetterStep(l)
    \/ \E m \in Messages : ChatStep(m)

ChannelsSpec == ChannelsInit /\ [][ChannelsNext]_channelVars

\* poll_forever starts a cycle again after every error, and the mail server does not
\* fail every time before the first mail of the list is fetched.
ChannelsFairness ==
    WF_channelVars(PollerStep) /\ SF_channelVars(FetchMail)

----------------------------------------------------------------------------
(* Properties *)

ChannelsTypeOK ==
    /\ ToSet(mailbox) \subseteq Mails /\ seen \subseteq ToSet(mailbox)
    /\ poller.step \in {"asleep", "cycle", "process", "flag"}
    /\ poller.mail \in Mails \cup {NoMail}
    /\ answers \in [Mails \cup Letters -> Nat]
    /\ cut \subseteq Mails
    /\ botLock \in Messages \cup {"free"}
    /\ sessionOf \in Messages \cup {"none"}

\* A mail that the next search will not find has its reply or its ticket, unless its
\* processing raised or was ended: the flag set by FETCH makes every such failure a loss,
\* and nothing else is one (poll_once).
TakenIsAnswered ==
    \A m \in seen : answers[m] > 0 \/ m \in cut \/ poller.mail = m

\* The poller answers a mail at most once, although cycles end between the answer and
\* the flag and the list is searched again (poll_once).
AnsweredOnce == \A m \in Mails : answers[m] <= 1

\* What the provider was told is done has been answered, and a letter is answered no
\* more often than it was delivered (email_inbound_webhook).
AcknowledgedIsAnswered ==
    \A l \in Letters : /\ post[l].acked => answers[l] > 0
                       /\ answers[l] <= post[l].posts

\* All messages of a chat share one session and with it one history, although the first
\* ones may wait for the pipeline together (_get_session).
OneSessionPerChat ==
    \A m, n \in Messages :
        chat[m].step = "answered" /\ chat[n].step = "answered"
            => chat[m].session = chat[n].session

\* No mail keeps the others waiting for ever, not even one whose processing always
\* raises (poll_once, poll_forever).
EveryMailTaken == \A m \in Mails : Contains(mailbox, m) ~> m \in seen

\* Mails and letters are answered once, and what is taken for done was answered; a chat has
\* one session (poll_once, email_inbound_webhook, _get_session).
ChannelsSafety ==
    /\ ChannelsTypeOK
    /\ TakenIsAnswered
    /\ AnsweredOnce
    /\ AcknowledgedIsAnswered
    /\ OneSessionPerChat
=============================================================================
