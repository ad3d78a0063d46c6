------------------------------ MODULE ChatHTTP ------------------------------
(***************************************************************************)
(* A chat over HTTP: POST .../chat answers with the whole reply, POST      *)
(* .../chat/stream with Server-Sent Events.  The handler, the chat service *)
(* (chat.Service.Chat, ChatStreaming), the agent with its planning round   *)
(* and at most one tool call, and the event loop of the model client run   *)
(* in the goroutine of the request, so they are one sequence of steps.     *)
(* What disturbs them is the request context, which the client cancels by  *)
(* leaving and which expires after two minutes, and other requests.        *)
(*                                                                         *)
(* A piece of text is named for the round of the model that wrote it.  The *)
(* upstream ends a response as completed, incomplete or failed, breaks the *)
(* connection, or never ends.  A call on a context that is done fails.     *)
(***************************************************************************)
EXTENDS Chat

CONSTANTS
  ReqConv,      \* the conversation each request names
  Streams,      \* the requests that stream
  MaxPlanning,  \* maxPlanningOutputRunes, in pieces of text
  MaxPieces     \* bound of the pieces of one response

ASSUME ChatHTTPAssumption ==
  /\ Procs \subseteq Topics
  /\ Jobs \intersect Procs = {}
  /\ ReqConv \in [Procs -> Convs]
  /\ Streams \subseteq Procs
  /\ Causes = {"failed", "cancelled", "timed_out", "incomplete"}
  /\ MaxPlanning \in Nat
  /\ MaxPieces \in Nat

VARIABLES
  tools,        \* whether chats go through the agent with its tool
  req           \* of each request: its context ("live", "cancelled", "timed_out"), the round
                \* of the model ("none", "only", "plan", "forward", "tool", "final"), how
                \* upstream ended it, text and deltas, and the answer ("none", "done", "error")

vars == <<storeVars, chatVars, tools, req>>

\* How upstream ended the response of the round.
Ends == {"open", "completed", "incomplete", "failed", "broken"}

\* text is the text of the round so far, sent the deltas written to the client: both are
\* sequences of rounds.
NewRequest == [ctx |-> "live", round |-> "none", end |-> "open", text |-> <<>>,
               sent |-> <<>>, answer |-> "none"]

Init ==
  /\ StoreInit
  /\ ChatInit
  /\ tools \in BOOLEAN
  /\ req = [p \in Procs |-> NewRequest]

----------------------------------------------------------------------------
Alive(p) == req[p].ctx = "live"

\* How a call may fail: by the context if that is done, in any way but a
\* cancellation otherwise.
Reasons(p) ==
  IF Alive(p) THEN Causes \intersect {"failed", "timed_out"} ELSE {req[p].ctx}

Fails(p) == chat'[p].stage \in {"finish", "done"} /\ chat'[p].reply = None

\* A step of the chat service, as it runs in request p: on a context that is done
\* it fails, and the context gives the cause.
Honoured(p) == IF Fails(p) THEN chat'[p].cause \in Reasons(p) ELSE Alive(p)

Keeps(p) == UNCHANGED <<storeVars, failures, tools>>

\* The generation returns an error and drops what it has accumulated.
FailRound(p, cause) ==
  /\ FailWith(p, cause)
  /\ req' = [req EXCEPT ![p].end = "open", ![p].text = <<>>]

----------------------------------------------------------------------------
\* Mutant: two statements with no transaction around them.
ReceiveUnbound(p) ==
  /\ chat[p].stage = "off"
  /\ req[p].answer = "none"
  /\ Alive(p)
  /\ ReqConv[p] \in convs
  /\ InsertMessage(ReqConv[p], "user", p)
  /\ \/ /\ InsertRunningModelCall(Len(messages) + 1)
        /\ chat' = [chat EXCEPT ![p].stage = "history", ![p].request = Len(messages) + 1,
                                ![p].call = Len(calls) + 1]
     \/ /\ UNCHANGED calls
        /\ Abandon(p, "failed")
  /\ UNCHANGED <<convs, jobs, failures, tools, req>>

\* startModelCall: question and running call in one transaction.  An error ends
\* the request, also one that Commit reports after it took effect.
Receive(p) ==
  LET c == ReqConv[p]
      Store == /\ c \in convs
               /\ InsertMessage(c, "user", p)
               /\ InsertRunningModelCall(Len(messages) + 1)
  IN
  /\ chat[p].stage = "off"
  /\ req[p].answer = "none"
  /\ \/ /\ Alive(p)
        /\ Store
        /\ chat' = [chat EXCEPT ![p].stage = "history", ![p].request = Len(messages) + 1,
                                ![p].call = Len(calls) + 1]
        /\ NoFailure
     \/ /\ UNCHANGED <<messages, calls>>
        /\ \E cause \in Reasons(p) : Abandon(p, cause)
        /\ NoFailure
     \/ /\ Store
        /\ \E cause \in Reasons(p) : Abandon(p, cause)
        /\ Failure
  /\ UNCHANGED <<convs, jobs, tools, req>>

\* The history, and then the first round of the model.
Prepare(p) ==
  /\ LoadHistory(p)
  /\ Honoured(p)
  /\ req' = IF chat'[p].stage = "generate"
            THEN [req EXCEPT ![p].round = IF tools THEN "plan" ELSE "only"]
            ELSE req
  /\ UNCHANGED tools

InRound(p) == chat[p].stage = "generate" /\ req[p].round \in {"only", "plan", "final"}

\* Mutant: the planning round writes to the client as the others do.
DeltaUnbuffered(p) ==
  /\ InRound(p) /\ req[p].end = "open"
  /\ p \in Streams
  /\ Len(req[p].text) < MaxPieces
  /\ IF Alive(p)
     THEN /\ req' = [req EXCEPT ![p].sent = Append(@, req[p].round),
                                ![p].text = Append(@, req[p].round)]
          /\ UNCHANGED chat
     ELSE FailRound(p, req[p].ctx)
  /\ Keeps(p)

\* response.output_text.delta.  The planning round keeps the text back and has a
\* limit; the other rounds write it to the client and look at the context then.
Delta(p) ==
  /\ InRound(p) /\ req[p].end = "open"
  /\ p \in Streams
  /\ Len(req[p].text) < MaxPieces
  /\ \/ /\ req[p].round = "plan" /\ Alive(p)
        /\ IF Len(req[p].text) < MaxPlanning
           THEN req' = [req EXCEPT ![p].text = Append(@, "plan")] /\ UNCHANGED chat
           ELSE FailRound(p, "failed")
     \/ /\ req[p].round = "plan" /\ ~Alive(p)
        /\ FailRound(p, req[p].ctx)
     \/ /\ req[p].round \in {"only", "final"}
        /\ IF Alive(p)
           THEN /\ req' = [req EXCEPT ![p].sent = Append(@, req[p].round),
                                      ![p].text = Append(@, req[p].round)]
                /\ UNCHANGED chat
           ELSE /\ req' = [req EXCEPT ![p].sent = Append(@, req[p].round),
                                      ![p].end = "open", ![p].text = <<>>]
                /\ FailWith(p, req[p].ctx)
  /\ Keeps(p)

\* A response that is taken for complete.  The planning round may have asked for
\* no tool, for one, or for several.
TakeResponse(p, text) ==
  LET r == [req[p] EXCEPT !.text = text] IN
  \/ /\ req[p].round # "plan"
     /\ req' = [req EXCEPT ![p] = r]
     /\ Goto(p, "save")
  \/ /\ req[p].round = "plan"
     /\ IF p \in Streams
        THEN req' = [req EXCEPT ![p] = [r EXCEPT !.round = "forward"]] /\ UNCHANGED chat
        ELSE req' = [req EXCEPT ![p] = r] /\ Goto(p, "save")
  \/ /\ req[p].round = "plan"
     /\ req' = [req EXCEPT ![p] = [r EXCEPT !.round = "tool"]]
     /\ UNCHANGED chat
  \/ /\ req[p].round = "plan"
     /\ FailRound(p, "failed")

\* Mutant: the end of the stream is taken for the end of the response.
StreamEndsUnchecked(p) ==
  /\ InRound(p)
  /\ p \in Streams
  /\ \/ Alive(p) /\ req[p].end # "open" /\ TakeResponse(p, req[p].text)
     \/ ~Alive(p) /\ FailRound(p, req[p].ctx)
  /\ Keeps(p)

\* streamResponse: only response.completed makes a result.  A stream that just ends
\* is incomplete, one that breaks has failed.
StreamEnds(p) ==
  /\ InRound(p)
  /\ p \in Streams
  /\ \/ Alive(p) /\ req[p].end = "completed" /\ TakeResponse(p, req[p].text)
     \/ Alive(p) /\ req[p].end \in {"incomplete", "broken"} /\ FailRound(p, "incomplete")
     \/ /\ Alive(p) /\ req[p].end \in {"failed", "broken"}
        /\ \E cause \in Reasons(p) : FailRound(p, cause)
     \/ ~Alive(p) /\ FailRound(p, req[p].ctx)
  /\ Keeps(p)

\* Responses.New: an error if the request fails; the status of the response that it
\* returns is not looked at.
ResponseArrives(p) ==
  /\ InRound(p)
  /\ p \notin Streams
  /\ \/ Alive(p) /\ req[p].end \notin {"open", "broken"} /\ TakeResponse(p, <<req[p].round>>)
     \/ /\ Alive(p) /\ req[p].end = "broken"
        /\ \E cause \in Reasons(p) : FailRound(p, cause)
     \/ ~Alive(p) /\ FailRound(p, req[p].ctx)
  /\ Keeps(p)

\* The planning round asked for no tool: its text is the reply.
Forward(p) ==
  LET sent == req[p].sent IN
  /\ chat[p].stage = "generate"
  /\ req[p].round = "forward"
  /\ \/ /\ ~Alive(p) /\ sent # req[p].text
        /\ FailRound(p, req[p].ctx)
     \/ /\ Alive(p) /\ sent # req[p].text
        /\ req' = [req EXCEPT ![p].sent = Append(sent, req[p].text[Len(sent) + 1])]
        /\ UNCHANGED chat
     \/ /\ sent = req[p].text
        /\ Goto(p, "save")
        /\ UNCHANGED req
  /\ Keeps(p)

\* Mutant: the final round goes on in the buffer of the planning round.
CallToolKeepsText(p) ==
  /\ chat[p].stage = "generate"
  /\ req[p].round = "tool"
  /\ req' = [req EXCEPT ![p].round = "final", ![p].end = "open"]
  /\ UNCHANGED chat
  /\ Keeps(p)

\* One tool call; the text of the planning round is dropped.
CallTool(p) ==
  /\ chat[p].stage = "generate"
  /\ req[p].round = "tool"
  /\ \/ /\ Alive(p)
        /\ req' = [req EXCEPT ![p].round = "final", ![p].end = "open",
                              ![p].text = <<>>]
        /\ UNCHANGED chat
     \/ \E cause \in Reasons(p) : FailRound(p, cause)
  /\ Keeps(p)

Save(p) ==
  /\ SaveReply(p)
  /\ Honoured(p)
  /\ UNCHANGED <<tools, req>>

\* Mutant: the cleanup runs on the context of the request.
FinishOnRequest(p) ==
  IF Alive(p)
  THEN FinishCall(p) /\ UNCHANGED <<tools, req>>
  ELSE /\ chat[p].stage = "finish"
       /\ Goto(p, "done")
       /\ UNCHANGED <<storeVars, failures, tools, req>>

\* finishFailedModelCall has five seconds of its own, whatever became of the request.
Finish(p) == FinishCall(p) /\ UNCHANGED <<tools, req>>

\* Mutant: no done event for a client that has left.
ReplyToPresent(p) ==
  /\ chat[p].stage = "done"
  /\ req' = [req EXCEPT ![p].answer =
              IF chat[p].reply # None /\ Alive(p) THEN "done" ELSE "error",
                        ![p].ctx = "live"]
  /\ chat' = [chat EXCEPT ![p] = NoChat]
  /\ Keeps(p)

\* The handler answers, or sends its last event; its context is released.
Reply(p) ==
  /\ chat[p].stage = "done"
  /\ req' = [req EXCEPT ![p].answer = IF chat[p].reply # None THEN "done" ELSE "error",
                        ![p].ctx = "live"]
  /\ chat' = [chat EXCEPT ![p] = NoChat]
  /\ Keeps(p)

----------------------------------------------------------------------------
EndContext(p, how) ==
  /\ Alive(p)
  /\ req[p].answer = "none"
  /\ req' = [req EXCEPT ![p].ctx = how]
  /\ UNCHANGED <<storeVars, chatVars, tools>>

ClientLeaves(p) == EndContext(p, "cancelled")

\* streamMaxDuration is over.
Expire(p) == EndContext(p, "timed_out")

UpstreamEnds(p) ==
  /\ InRound(p)
  /\ req[p].end = "open"
  /\ \E e \in Ends \ {"open"} : req' = [req EXCEPT ![p].end = e]
  /\ UNCHANGED <<storeVars, chatVars, tools>>

DeleteConversation(c) ==
  /\ c \in convs
  /\ DeleteConversationRow(c)
  /\ UNCHANGED <<messages, calls, chatVars, tools, req>>

Serve(p) ==
  \/ Receive(p)
  \/ Prepare(p)
  \/ Delta(p)
  \/ StreamEnds(p)
  \/ ResponseArrives(p)
  \/ Forward(p)
  \/ CallTool(p)
  \/ Save(p)
  \/ Finish(p)
  \/ Reply(p)

Next ==
  \/ \E p \in Procs : Serve(p) \/ ClientLeaves(p) \/ Expire(p) \/ UpstreamEnds(p)
  \/ \E c \in Convs : DeleteConversation(c)

Spec == Init /\ [][Next]_vars

\* A handler goes on while it can and its deadline passes some day; nothing is
\* assumed of the client, or of upstream, which may never end a response.
Fairness == \A p \in Procs : WF_vars(Serve(p)) /\ WF_vars(Expire(p))

FairSpec == Spec /\ Fairness

----------------------------------------------------------------------------
(* Properties                                                              *)

CallsOf(p) == {k \in DOMAIN calls : messages[calls[k].request].topic = p}

Answered(p) == \E k \in CallsOf(p) : calls[k].status = "completed"

\* The done event, or the 200, comes only once the reply and the completed call are
\* committed, and by then a streaming client has been sent exactly the text that is
\* stored, whichever rounds, buffers and forwards it went through.
DoneIsStored ==
  \A p \in Procs : req[p].answer = "done" =>
    /\ Answered(p)
    /\ p \in Streams => req[p].sent = req[p].text

\* What a streaming client sees comes from one round of the model: it is never shown
\* planning text of a round that goes on to call a tool, not even before a failure.
OneRoundIsShown ==
  \A p \in Procs : LET sent == req[p].sent IN
    /\ \A i, k \in DOMAIN sent : sent[i] = sent[k]
    /\ \A i \in DOMAIN sent : sent[i] = "plan" => req[p].round = "forward"

\* A stream that breaks off, or that upstream declares incomplete, is never stored as
\* a reply, however much of it the client has seen.
TruncatedStreamIsNotStored ==
  \A p \in Streams : Answered(p) => req[p].end = "completed"

\* A client that is told of an error and yet finds a reply in the conversation met a
\* commit whose result was lost: leaving early or a late deadline does not do that.
ErrorsHideFewReplies ==
  Cardinality({p \in Procs : req[p].answer = "error" /\ Answered(p)}) <= failures

\* Question and call, and reply and completion, come in pairs whatever is cancelled
\* when: a question has one call, and a reply belongs to one completed call for an
\* earlier question of its conversation.
TurnsAreWhole ==
  /\ \A m \in DOMAIN messages : messages[m].role = "user" =>
       Cardinality({k \in DOMAIN calls : calls[k].request = m}) = 1
  /\ \A m \in DOMAIN messages : messages[m].role = "assistant" =>
       \E k \in DOMAIN calls :
         /\ calls[k].status = "completed" /\ calls[k].assistant = m
         /\ calls[k].request < m /\ messages[calls[k].request].conv = messages[m].conv

\* Every request ends, and no call stays running behind a client that left or a
\* deadline that passed, except one for each database call whose failure hid it.
CallsAreClosed ==
  <>[]( /\ \A p \in Procs : chat[p] = NoChat
        /\ Cardinality({k \in DOMAIN calls : LiveCall(k)}) <= failures )

----------------------------------------------------------------------------
(* What the documentation says, and the code does not do.                  *)

\* modelcall/model.go, status table: when the provider returns an incomplete result
\* the call is recorded as incomplete.
IncompleteIsRecorded == \A p \in Procs : Answered(p) => req[p].end # "incomplete"
=============================================================================
