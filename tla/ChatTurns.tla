----------------------------- MODULE ChatTurns -----------------------------
(***************************************************************************)
(* Requests in a chat session: ChatQuery of                                *)
(* internal/server/handler/chat.go, and Turn and Confirm of                *)
(* internal/knowledgeagent/agent.go, over the messages of                  *)
(* internal/chat/repo.go.                                                  *)
(*                                                                         *)
(* POST /chat/query gets or creates its session, reads the recent history, *)
(* saves the question, answers it, gives the session a title if that       *)
(* question is its only one, and saves the answer.  Each of these is a     *)
(* call of its own to the database; the title is written by a background   *)
(* job.  POST /agent/turn does the same without the title, and may offer   *)
(* an action: confirming it appends what the action did.  Requests of one  *)
(* session run concurrently: nothing serialises them.                      *)
(*                                                                         *)
(* A message stands for its text: the question or the answer of a request, *)
(* or the result of the action that a turn offered.                        *)
(***************************************************************************)
EXTENDS Naturals, Sequences, FiniteSets, SequencesExt, Maps

CONSTANTS
  Chats,            \* session ids
  Queries,          \* the requests with a question: one value per request
  AgentTurns,       \* those of them that are POST /agent/turn; the others are POST /chat/query
  NoChat,           \* no session yet
  Untitled,         \* the title that a new session gets
  HistoryLimit,     \* GetRecentMessages of ChatQuery: 20
  CountLimit,       \* GetMessages with limit 0: 200
  ChatDBMayFail     \* whether a call of the database may return an error

ASSUME ChatConstants ==
  /\ NoChat \notin Chats
  /\ Untitled \notin Queries
  /\ AgentTurns \subseteq Queries
  /\ HistoryLimit \in Nat \ {0}
  /\ CountLimit \in Nat /\ CountLimit >= 4    \* all of a turn's messages, and one more
  /\ ChatDBMayFail \in BOOLEAN

VARIABLES
  titles,     \* the rows of chat_sessions: their titles, as the query they come from
  messages,   \* messages[s]: the rows of chat_messages of session s, in order
  query,      \* query[q]: where request q is, its session, and the history it answers with
  titling,    \* the auto_title jobs that were started and have not ended
  unsaved,    \* history: sessions that miss a question that was asked in them
  disturbed   \* history: sessions in which a call failed, two queries met, or a restart came

chatVars == <<titles, messages, query, titling, unsaved, disturbed>>

-----------------------------------------------------------------------------
\* The row of a result has the role "assistant" too.
ChatMessage == [role : {"user", "assistant", "result"}, of : Queries]

Question(q) == [role |-> "user", of |-> q]

Answer(q) == [role |-> "assistant", of |-> q]

Result(q) == [role |-> "result", of |-> q]

Query == [at : {"idle", "open", "ready", "asked", "answered", "offered", "done"},
          chat : Chats \cup {NoChat}, history : Seq(ChatMessage)]

Busy(q) == query[q].at \in {"open", "ready", "asked", "answered"}

\* The sessions in which query q would not be alone.
Meets(q, s) == \E other \in Queries \ {q} : Busy(other) /\ query[other].chat = s

-----------------------------------------------------------------------------
(* The reads of the repository.                                            *)

\* GetRecentMessages: ORDER BY created_at DESC LIMIT, reversed.
RecentMessages(s) == Reverse(SubSeq(Reverse(messages[s]), 1,
                       IF Len(messages[s]) > HistoryLimit THEN HistoryLimit
                       ELSE Len(messages[s])))

\* GetMessages: ORDER BY created_at ASC LIMIT; ChatQuery counts the questions.
QuestionCount(s) ==
  Cardinality({i \in DOMAIN messages[s] : i <= CountLimit /\ messages[s][i].role = "user"})

-----------------------------------------------------------------------------
(* ChatQuery; and Turn, which opens, reads and saves in the same order.    *)

Opens(q, s) ==
  /\ query' = [query EXCEPT ![q] = [@ EXCEPT !.at = "open", !.chat = s]]
  /\ disturbed' = IF Meets(q, s) THEN disturbed \cup {s} ELSE disturbed

\* The request names a session; that it exists, or whose it is, is not checked.
AskIn(q, s) ==
  /\ query[q].at = "idle"
  /\ Opens(q, s)
  /\ UNCHANGED <<titles, messages, titling, unsaved>>

\* The request names none: CreateSessionForUser, in a turn by prepareSession.
AskNew(q, s) ==
  /\ query[q].at = "idle"
  /\ s \notin DOMAIN titles
  /\ messages[s] = <<>> /\ ~Meets(q, s)    \* a fresh uuid: nobody used it
  /\ titles' = Put(titles, s, Untitled)
  /\ Opens(q, s)
  /\ UNCHANGED <<messages, titling, unsaved>>

\* CreateSessionForUser failed: the query ends there.
AskRefused(q) ==
  /\ ChatDBMayFail
  /\ query[q].at = "idle"
  /\ query' = [query EXCEPT ![q].at = "done"]
  /\ UNCHANGED <<titles, messages, titling, unsaved, disturbed>>

\* Variant: the question is saved before the history is read.
ReadHistoryLate(q) ==
  /\ query[q].at = "open"
  /\ query' = [query EXCEPT ![q] = [@ EXCEPT !.at = "ready",
                 !.history = Append(RecentMessages(query[q].chat), Question(q))]]
  /\ UNCHANGED <<titles, messages, titling, unsaved, disturbed>>

\* The history is read before the question is saved; an error leaves it empty.
ReadHistory(q) ==
  /\ query[q].at = "open"
  /\ \E history \in {RecentMessages(query[q].chat)} \cup (IF ChatDBMayFail THEN {<<>>} ELSE {}) :
       query' = [query EXCEPT ![q] = [@ EXCEPT !.at = "ready", !.history = history]]
  /\ UNCHANGED <<titles, messages, titling, unsaved, disturbed>>

\* AddMessage: its error is logged only, and so is the one of its second
\* statement, which touches the session's updated_at.
Save(s, msg) == messages' = [messages EXCEPT ![s] = Append(@, msg)]

SaveQuestion(q) ==
  LET s == query[q].chat
  IN  /\ query[q].at = "ready"
      /\ query' = [query EXCEPT ![q].at = "asked"]
      /\ \/ Save(s, Question(q)) /\ UNCHANGED <<unsaved, disturbed>>
         \/ /\ ChatDBMayFail
            /\ unsaved' = unsaved \cup {s} /\ disturbed' = disturbed \cup {s}
            /\ UNCHANGED messages
      /\ UNCHANGED <<titles, titling>>

\* if userCount == 1
Titled(count) == count = 1

\* The agent has answered (RunTurn has no error but for a missing question); the
\* questions are counted, and the title job is started for the first one.  The
\* history, read by then, is dropped here.
Reply(q) ==
  LET s == query[q].chat
  IN  /\ q \notin AgentTurns
      /\ query[q].at = "asked"
      /\ query' = [query EXCEPT ![q] = [@ EXCEPT !.at = "answered", !.history = <<>>]]
      /\ \E count \in {QuestionCount(s)} \cup (IF ChatDBMayFail THEN {0} ELSE {}) :
           /\ titling' = IF Titled(count) THEN titling \cup {q} ELSE titling
           /\ disturbed' = IF count = 0 THEN disturbed \cup {s} ELSE disturbed
      /\ UNCHANGED <<titles, messages, unsaved>>

\* A turn has its answer, or ends with the error of the answerer or of the list
\* of sources.  It counts no questions and starts no job for a title.
ReplyToTurn(q) ==
  /\ q \in AgentTurns
  /\ query[q].at = "asked"
  /\ \E at \in {"answered", "done"} :
       query' = [query EXCEPT ![q] = [@ EXCEPT !.at = at, !.history = <<>>]]
  /\ UNCHANGED <<titles, messages, titling, unsaved, disturbed>>

\* The agent panicked (KnowledgeTurn): the recovery of the HTTP server ends the
\* request, and the question stays without an answer.
TurnPanics(q) ==
  /\ query[q].at = "asked"
  /\ query' = [query EXCEPT ![q] = [@ EXCEPT !.at = "done", !.history = <<>>]]
  /\ disturbed' = disturbed \cup {query[q].chat}
  /\ UNCHANGED <<titles, messages, titling, unsaved>>

\* A turn may have offered an action; it does not save a blank answer.
SaveAnswer(q) ==
  /\ query[q].at = "answered"
  /\ \E at \in {"done"} \cup (IF q \in AgentTurns THEN {"offered"} ELSE {}) :
       query' = [query EXCEPT ![q].at = at]
  /\ \/ Save(query[q].chat, Answer(q))
     \/ (ChatDBMayFail \/ q \in AgentTurns) /\ UNCHANGED messages
  /\ UNCHANGED <<titles, titling, unsaved, disturbed>>


\* Confirm runs the action once (PendingActions) and saves what it did in the
\* session that the turn noted in the action's input.  An action that fails, a
\* blank result and a failing database leave no message.
SaveResult(q) ==
  /\ query[q].at = "offered"
  /\ query' = [query EXCEPT ![q].at = "done"]
  /\ Save(query[q].chat, Result(q)) \/ UNCHANGED messages
  /\ UNCHANGED <<titles, titling, unsaved, disturbed>>

\* Variant: the job ends without writing.
SetTitleForgotten(q) ==
  /\ q \in titling
  /\ titling' = titling \ {q}
  /\ UNCHANGED <<titles, messages, query, unsaved, disturbed>>

\* autoGenerateTitle: UPDATE ... WHERE id, which may meet no row, or fail.
SetTitle(q) ==
  LET s == query[q].chat
  IN  /\ q \in titling
      /\ titling' = titling \ {q}
      /\ \/ /\ titles' = IF s \in DOMAIN titles THEN Put(titles, s, q) ELSE titles
            /\ UNCHANGED disturbed
         \/ /\ ChatDBMayFail
            /\ disturbed' = disturbed \cup {s}
            /\ UNCHANGED titles
      /\ UNCHANGED <<messages, query, unsaved>>

\* POST /chat/session.
NewChat(s) ==
  /\ s \notin DOMAIN titles
  /\ messages[s] = <<>> /\ \A q \in Queries : query[q].chat # s
  /\ titles' = Put(titles, s, Untitled)
  /\ UNCHANGED <<messages, query, titling, unsaved, disturbed>>

\* The process ends: requests, offers and jobs are gone, the rows stay.
ChatRestart ==
  /\ \E q \in Queries : Busy(q) \/ query[q].at = "offered" \/ q \in titling
  /\ query' = [q \in Queries |-> IF Busy(q) \/ query[q].at = "offered"
                                 THEN [query[q] EXCEPT !.at = "done"] ELSE query[q]]
  /\ titling' = {}
  /\ disturbed' = disturbed \cup {query[q].chat : q \in {p \in Queries : Busy(p) \/ p \in titling}}
  /\ UNCHANGED <<titles, messages, unsaved>>

-----------------------------------------------------------------------------
ChatInit ==
  /\ titles = [s \in {} |-> Untitled]
  /\ messages = [s \in Chats |-> <<>>]
  /\ query = [q \in Queries |-> [at |-> "idle", chat |-> NoChat, history |-> <<>>]]
  /\ titling = {}
  /\ unsaved = {}
  /\ disturbed = {}

\* What a request that was opened, or its job, does next.  Nobody has to
\* confirm an offer.
QueryStep(q) ==
  \/ ReadHistory(q) \/ SaveQuestion(q)
  \/ Reply(q) \/ ReplyToTurn(q) \/ TurnPanics(q)
  \/ SaveAnswer(q) \/ SetTitle(q)

ChatNext ==
  \/ \E q \in Queries :
       \/ \E s \in Chats : AskIn(q, s) \/ AskNew(q, s)
       \/ AskRefused(q)
       \/ QueryStep(q)
       \/ SaveResult(q)
  \/ \E s \in Chats : NewChat(s)
  \/ ChatRestart

ChatSpec == ChatInit /\ [][ChatNext]_chatVars

\* A request that was opened, and a job that was started, go on: every call in
\* them returns, at the latest when its context times out.
ChatFairness == \A q \in Queries : WF_chatVars(QueryStep(q))

-----------------------------------------------------------------------------
(* Properties.                                                             *)

ChatTypeOK ==
  /\ DOMAIN titles \subseteq Chats
  /\ titles \in [DOMAIN titles -> Queries \cup {Untitled}]
  /\ messages \in [Chats -> Seq(ChatMessage)]
  /\ query \in [Queries -> Query]
  /\ titling \subseteq Queries
  /\ unsaved \subseteq disturbed
  /\ disturbed \subseteq Chats

Place(s, msg) == {i \in DOMAIN messages[s] : messages[s][i] = msg}

\* The history that the agent reads with a question is a stretch of the
\* session, in order, that ends before that question: the question is not in
\* it too ("passed once as the current query, not duplicated into the history
\* block", ChatQuery).
HistoryIsPast ==
  \A q \in Queries :
    LET history == query[q].history
        s == query[q].chat
    IN  history # <<>> =>
          \E i \in 0..Len(messages[s]) :
            /\ i + Len(history) <= Len(messages[s])
            /\ \A k \in DOMAIN history : history[k] = messages[s][i + k]
            /\ \A p \in Place(s, Question(q)) : p > i + Len(history)

\* A question, its answer and the result of the action it led to are stored
\* once, in the session of the request, the answer and the result after the
\* question, whatever other requests write in between.
AnswersFollowQuestions ==
  \A q \in Queries, s \in Chats :
    \A msg \in {Answer(q), Result(q)} : \A i \in Place(s, msg) :
      /\ s = query[q].chat
      /\ Place(s, msg) = {i}
      /\ s \notin unsaved => \E j \in Place(s, Question(q)) : j < i

\* A title is the first question of its session ("Auto-title: generate on
\* first user message", ChatQuery), unless a question was not saved: the
\* messages of a turn are counted too, and a later query never takes the title.
TitleIsFirstQuestion ==
  \A s \in DOMAIN titles \ unsaved :
    titles[s] # Untitled =>
      /\ messages[s] # <<>>
      /\ messages[s][1] = Question(titles[s])

ChatInv == ChatTypeOK /\ HistoryIsPast /\ AnswersFollowQuestions /\ TitleIsFirstQuestion

\* A session whose row exists and which a query opened, in which no call
\* failed, no two requests met and no restart came gets its title.  (Two first
\* queries that meet both count two questions: that session is never titled.)
SessionsGetTitles ==
  \A s \in Chats :
    (s \in DOMAIN titles /\ messages[s] # <<>> /\ messages[s][1].of \notin AgentTurns)
      ~> (s \in disturbed \/ (s \in DOMAIN titles /\ titles[s] # Untitled))

=============================================================================
