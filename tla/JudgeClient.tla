---------------------------- MODULE JudgeClient ----------------------------
(***************************************************************************)
(* One evaluation by the Codex judge: a client that starts an app server,  *)
(* makes three requests over its pipes, waits for its turn to complete,    *)
(* and stops the server (CodexAppServerTransport, _AppServerClient).       *)
(*                                                                         *)
(* The server is external.  It answers a request at most once, sends       *)
(* requests of its own under ids of its own, which may equal the client's, *)
(* and notifications about this turn, from when it was asked for until it  *)
(* completed, and about another.  It may be silent, and may exit.          *)
(* readline blocks, so that a silent server is waited for.                 *)
(***************************************************************************)
EXTENDS Naturals, Sequences

CONSTANTS
    Texts,         \* agent messages
    NoText,
    TurnStart,     \* the client's last request: its third, after initialize and thread/start
    MaxMessages,   \* bound: messages of the server
    MaxUnread      \* bound: of these, how many the client has yet to read

JudgeAssumption == NoText \notin Texts /\ TurnStart \in Nat \ {0}

VARIABLES
    sent,          \* what the server has sent
    position,      \* how much of it the client has read
    server,        \* running, killed (SIGKILL is pending) or exited
    requestId,     \* the client's last request
    stage,         \* how far the client has come
    finalText,
    answer         \* the text it returns, or NoText

serverVars == <<sent, server>>
clientVars == <<position, requestId, stage, finalText, answer>>
judgeVars == <<serverVars, clientVars>>

RequestIds == 1 .. TurnStart

Results == [kind : {"result", "error"}, id : RequestIds]
ServerRequests == [kind : {"request"}, id : RequestIds]
Items == [kind : {"item/completed"}, turn : {"ours", "other"}, text : Texts]
Completions == [kind : {"turn/completed"}, turn : {"ours", "other"}, status : {"completed", "failed"}]

JudgeInit ==
  /\ sent = <<>> /\ position = 0 /\ server = "running"
  /\ requestId = 1 /\ stage = "request" /\ finalText = NoText /\ answer = NoText

Sent(m) == \E i \in DOMAIN sent : sent[i] = m

Answered(id) == \E m \in [kind : {"result", "error"}, id : {id}] : Sent(m)
Completed(turn) == \E m \in Completions : m.turn = turn /\ Sent(m)

\* Our turn may speak.
Open(turn) == turn = "ours" => requestId = TurnStart /\ ~Completed(turn)

ServerSends ==
  /\ server = "running" /\ Len(sent) < MaxMessages /\ Len(sent) < position + MaxUnread
  /\ \E m \in Results \cup ServerRequests \cup Items \cup Completions :
       /\ m.kind \in {"result", "error"} => m.id <= requestId /\ ~Answered(m.id)
       /\ m.kind \in {"item/completed", "turn/completed"} => Open(m.turn)
       /\ sent' = Append(sent, m)
  /\ UNCHANGED <<server, clientVars>>

ServerExits ==
  /\ server # "exited"
  /\ server' = "exited"
  /\ UNCHANGED <<sent, clientVars>>

-----------------------------------------------------------------------------

Unread == position < Len(sent)
Message == sent[position + 1]

\* The client reads the next message at this point of its work.
Read(at) == stage = at /\ Unread /\ position' = position + 1

\* An exception, or the return: the server is asked to stop.
Leave(final) ==
  /\ stage' = "terminate" /\ answer' = final
  /\ UNCHANGED <<requestId, finalText>>

Carries(m, id) == m.kind \in {"result", "error", "request"} /\ m.id = id

\* The next request, or the turn.
RequestAnswered ==
  /\ Read("request")
  /\ Carries(Message, requestId) /\ Message.kind = "result"
  /\ IF requestId < TurnStart THEN requestId' = requestId + 1 /\ UNCHANGED stage
                              ELSE stage' = "turn" /\ UNCHANGED requestId
  /\ UNCHANGED <<serverVars, finalText, answer>>

\* An error, or a request of the server under the same id, has no result.
RequestFails ==
  /\ Read("request")
  /\ Carries(Message, requestId) /\ Message.kind # "result"
  /\ Leave(NoText) /\ UNCHANGED serverVars

\* A request of the server is refused, and a notification is dropped.
OtherMessage ==
  /\ Read("request")
  /\ ~Carries(Message, requestId)
  /\ UNCHANGED <<serverVars, requestId, stage, finalText, answer>>

Ends(m) == m.kind = "turn/completed" /\ m.turn = "ours"

\* Mutant of Text: the turn is not compared.
TextOfAny(m) == IF m.kind = "item/completed" THEN m.text ELSE finalText

Text(m) == IF m.kind = "item/completed" /\ m.turn = "ours" THEN m.text ELSE finalText

TurnMessage ==
  /\ Read("turn")
  /\ ~Ends(Message)
  /\ finalText' = Text(Message)
  /\ UNCHANGED <<serverVars, requestId, stage, answer>>

TurnCompletes ==
  /\ Read("turn")
  /\ Ends(Message)
  /\ Leave(IF Message.status = "completed" THEN finalText ELSE NoText)
  /\ UNCHANGED serverVars

\* The server has exited, and what it sent is read.
EndOfFile ==
  /\ stage \in {"request", "turn"} /\ ~Unread /\ server = "exited"
  /\ Leave(NoText) /\ UNCHANGED <<serverVars, position>>

\* SIGTERM, ten seconds, SIGKILL, and ten seconds again.
StopServer ==
  /\ stage = "terminate"
  /\ \/ server = "exited" /\ stage' = "ended" /\ UNCHANGED server
     \/ server = "running" /\ server' = "killed" /\ stage' = "killed"
  /\ UNCHANGED <<sent, position, requestId, finalText, answer>>

WaitForExit ==
  /\ stage = "killed"
  /\ \/ server = "exited" /\ UNCHANGED answer
     \/ server = "killed" /\ answer' = NoText
  /\ stage' = "ended"
  /\ UNCHANGED <<serverVars, position, requestId, finalText>>

JudgeNext ==
  \/ ServerSends \/ ServerExits
  \/ RequestAnswered \/ RequestFails \/ OtherMessage
  \/ TurnMessage \/ TurnCompletes \/ EndOfFile
  \/ StopServer \/ WaitForExit

JudgeSpec == JudgeInit /\ [][JudgeNext]_judgeVars

-----------------------------------------------------------------------------

OwnTexts(end) == {i \in 1 .. end : sent[i].kind = "item/completed" /\ sent[i].turn = "ours"}

\* What is returned is the last text of our own turn, that turn has completed, and
\* the server has been stopped: texts and completions of other turns, answers to
\* earlier requests and requests of the server arrive in between, and what our turn
\* says before turn/start is answered is dropped (request, wait_for_turn, evaluate).
AnswerIsOurs ==
  stage = "ended" /\ answer # NoText =>
    /\ server = "exited"
    /\ \E end \in DOMAIN sent, i \in DOMAIN sent :
         /\ Ends(sent[end]) /\ sent[end].status = "completed"
         /\ i \in OwnTexts(end) /\ \A j \in OwnTexts(end) : j <= i
         /\ sent[i].text = answer

=============================================================================
