---------------------------- MODULE ChatHTTPProofs ----------------------------
(***************************************************************************)
(* For any number of requests, conversations, failures and pieces of text: *)
(* a client sees the text of one round of the model (OneRoundIsShown), the *)
(* done event follows the commit and closes exactly the stored text        *)
(* (DoneIsStored), and a stream that breaks off is not stored as a reply   *)
(* (TruncatedStreamIsNotStored), question and call, and reply and          *)
(* completion, come in pairs (TurnsAreWhole), and a reply is hidden behind *)
(* an error only by a commit whose result was lost (ErrorsHideFewReplies). *)
(***************************************************************************)
EXTENDS ChatHTTP, ChatProofs, FiniteSetTheorems

USE StoreAssumption, ChatAssumption, ChatHTTPAssumption

----------------------------------------------------------------------------
(* Types                                                                   *)

TextRounds == {"only", "plan", "final"}

Request ==
  [ctx: {"live", "cancelled", "timed_out"},
   round: {"none", "only", "plan", "forward", "tool", "final"},
   end: Ends, text: Seq(TextRounds), sent: Seq(TextRounds),
   answer: {"none", "done", "error"}]

RequestsOK == req \in [Procs -> Request]

HTTPTypeOK == StoreTypeOK /\ ChatTypeOK /\ RequestsOK

\* A step of the request of p: its handler, its context, or upstream.
RequestStep(p) == Serve(p) \/ ClientLeaves(p) \/ Expire(p) \/ UpstreamEnds(p)

LEMMA Steps ==
  ASSUME [Next]_vars
  PROVE  \/ \E p \in Procs : RequestStep(p)
         \/ \E c \in Convs : DeleteConversation(c)
         \/ UNCHANGED vars
BY DEF Next, RequestStep

LEMMA ReasonsAreCauses ==
  ASSUME RequestsOK, NEW p \in Procs
  PROVE  /\ Reasons(p) \subseteq Causes
         /\ ~Alive(p) => req[p].ctx \in Causes
BY DEF RequestsOK, Request, Reasons, Alive

LEMMA TextGrows ==
  ASSUME NEW s \in Seq(TextRounds), NEW e \in TextRounds
  PROVE  /\ Append(s, e) \in Seq(TextRounds)
         /\ Len(Append(s, e)) = Len(s) + 1
         /\ (\A i \in DOMAIN s : s[i] = e) => \A i \in DOMAIN Append(s, e) : Append(s, e)[i] = e
<1>1. /\ Append(s, e) \in Seq(TextRounds)
      /\ Len(Append(s, e)) = Len(s) + 1
      /\ \A i \in 1..Len(s) : Append(s, e)[i] = s[i]
      /\ Append(s, e)[Len(s) + 1] = e
    BY AppendProperties
<1>2. DOMAIN s = 1..Len(s) /\ Len(s) \in Nat
    BY Rows
<1>3. DOMAIN Append(s, e) = 1..(Len(s) + 1)
    BY <1>1, Rows
<1> QED BY <1>1, <1>2, <1>3

LEMMA EmptyText == <<>> \in Seq(TextRounds) /\ DOMAIN <<>> = {} /\ Len(<<>>) = 0
BY EmptySeq

\* How the updates of a request keep its type.
LEMMA RequestUpdated ==
  ASSUME RequestsOK, NEW p \in Procs, NEW r \in Request, req' = [req EXCEPT ![p] = r]
  PROVE  RequestsOK'
BY DEF RequestsOK

LEMMA RoundFails ==
  ASSUME RequestsOK, ChatsOK, NEW p \in Procs, NEW cause \in Causes, FailRound(p, cause)
  PROVE  /\ RequestsOK' /\ ChatsOK'
         /\ req'[p] = [req[p] EXCEPT !.end = "open", !.text = <<>>]
         /\ chat'[p] = [chat[p] EXCEPT !.stage = "finish", !.cause = cause]
<1> DEFINE r == [req[p] EXCEPT !.end = "open", !.text = <<>>]
<1>1. r \in Request
  <2>1. req[p] \in Request
    BY DEF RequestsOK
  <2>2. "open" \in Ends /\ <<>> \in Seq(TextRounds)
    BY EmptyText DEF Ends
  <2> QED BY <2>1, <2>2 DEF Request
<1>2. req' = [req EXCEPT ![p] = r]
    BY DEF FailRound, RequestsOK
<1>3. ChatsOK'
    BY ChatFails DEF FailRound
<1>4. chat'[p] = [chat[p] EXCEPT !.stage = "finish", !.cause = cause]
    BY DEF FailRound, FailWith, ChatsOK
<1> QED BY <1>1, <1>2, <1>3, <1>4, RequestUpdated DEF RequestsOK

----------------------------------------------------------------------------
(* One request                                                             *)

All(seq, e) == \A i \in DOMAIN seq : seq[i] = e

\* Where a request is: the stage of its chat, the round of the model, and the answer.
PlaceInv(p) ==
  LET stage == chat[p].stage IN
  /\ stage # "start"
  /\ stage # "off" => req[p].answer = "none"
  /\ (stage = "history" \/ (stage = "off" /\ req[p].answer = "none")) => req[p].round = "none"
  /\ chat[p].reply # None => stage = "done"

\* What a client has been sent is of the round it sees, and no more than there is.
SentInv(p) ==
  LET q == req[p] IN
  /\ q.round = "none" => q.text = <<>>
  /\ q.round \in {"none", "plan", "tool"} => q.sent = <<>>
  /\ q.round \in {"only", "final"} => All(q.sent, q.round)
  /\ q.round \in {"plan", "forward"} => All(q.text, "plan")
  /\ q.round = "forward" =>
       All(q.sent, "plan") /\ (chat[p].stage = "generate" => Len(q.sent) <= Len(q.text))

\* A stream that gets as far as the commit was completed, and all of it was sent.
StreamInv(p) ==
  LET q == req[p]
      stage == chat[p].stage
  IN  p \in Streams =>
        /\ stage = "generate" /\ q.round \in {"only", "final"} => q.sent = q.text
        /\ stage = "generate" /\ q.round = "forward" => q.end = "completed"
        /\ stage = "save" => q.sent = q.text /\ q.end = "completed"
        /\ chat[p].reply # None \/ q.answer = "done" => q.sent = q.text

HandlerInv(p) == PlaceInv(p) /\ SentInv(p) /\ StreamInv(p)

\* The request of p has its types and its invariant.
Good(p) == RequestsOK /\ ChatsOK /\ HandlerInv(p)

LEMMA FailingIsGood ==
  ASSUME NEW p \in Procs, Good(p), chat[p].stage = "generate",
         NEW cause \in Causes, FailRound(p, cause)
  PROVE  Good(p)'
<1>1. /\ RequestsOK' /\ ChatsOK'
      /\ req'[p] = [req[p] EXCEPT !.end = "open", !.text = <<>>]
      /\ chat'[p] = [chat[p] EXCEPT !.stage = "finish", !.cause = cause]
    BY RoundFails DEF Good
<1>2. req[p] \in Request /\ chat[p] \in ChatRecord
    BY DEF Good, RequestsOK, ChatsOK
<1>3. /\ chat'[p].stage = "finish" /\ chat'[p].reply = chat[p].reply
      /\ req'[p].round = req[p].round /\ req'[p].answer = req[p].answer
      /\ req'[p].sent = req[p].sent /\ req'[p].text = <<>>
    BY <1>1, <1>2 DEF Request, ChatRecord
<1>4. All(<<>>, "plan")
    BY EmptyText DEF All
<1> QED BY <1>1, <1>3, <1>4 DEF Good, HandlerInv, PlaceInv, SentInv, StreamInv

\* A step that changes the request and not its chat, the chat and not the request, or both.
LEMMA GoodAfter ==
  ASSUME NEW p \in Procs, Good(p), NEW r \in Request, NEW c \in ChatRecord,
         c.stage = "finish" => c.cause \in Causes,
         req' = [req EXCEPT ![p] = r], chat' = [chat EXCEPT ![p] = c]
  PROVE  /\ RequestsOK' /\ ChatsOK' /\ req'[p] = r /\ chat'[p] = c
         /\ \A q \in Procs \ {p} : req'[q] = req[q] /\ chat'[q] = chat[q]
BY RequestUpdated, ChatUpdated DEF Good, RequestsOK, ChatsOK

LEMMA ReceiveIsGood ==
  ASSUME NEW p \in Procs, StoreTypeOK, Good(p), Receive(p)
  PROVE  Good(p)'
<1>1. req[p] \in Request /\ chat[p] \in ChatRecord
    BY DEF Good, RequestsOK, ChatsOK
<1>2. chat[p].stage = "off" /\ req[p].answer = "none" /\ UNCHANGED req
    BY DEF Receive
<1>3. CASE chat' = [chat EXCEPT ![p].stage = "history", ![p].request = Len(messages) + 1,
                                ![p].call = Len(calls) + 1]
  <2> DEFINE c == [chat[p] EXCEPT !.stage = "history", !.request = Len(messages) + 1,
                                  !.call = Len(calls) + 1]
  <2>1. Len(messages) + 1 \in Nat /\ Len(calls) + 1 \in Nat
      BY CallRows, MessageRows
  <2>2. c \in ChatRecord /\ c.stage = "history" /\ c.reply = chat[p].reply
      BY <1>1, <2>1 DEF ChatRecord, ChatStage
  <2>3. chat' = [chat EXCEPT ![p] = c]
      BY <1>3 DEF Good, ChatsOK
  <2>4. ChatsOK' /\ chat'[p] = c
      BY <2>2, <2>3, ChatUpdated DEF Good, ChatsOK
  <2> QED BY <1>1, <1>2, <2>2, <2>4 DEF Good, RequestsOK, HandlerInv, PlaceInv, SentInv, StreamInv
<1>4. ASSUME NEW cause \in Causes, Abandon(p, cause)
      PROVE  Good(p)'
  <2>1. ChatsOK' /\ chat'[p].stage = "done" /\ chat'[p].reply = chat[p].reply
      BY <1>1, <1>4, ChatAbandoned DEF Abandon, Good, ChatsOK, ChatRecord
  <2> QED BY <1>2, <2>1 DEF Good, RequestsOK, HandlerInv, PlaceInv, SentInv, StreamInv
<1> QED BY <1>3, <1>4, ReasonsAreCauses DEF Receive, Good

LEMMA PrepareIsGood ==
  ASSUME NEW p \in Procs, Good(p), Prepare(p)
  PROVE  Good(p)'
<1>1. req[p] \in Request /\ chat[p] \in ChatRecord
    BY DEF Good, RequestsOK, ChatsOK
<1>2. chat[p].stage = "history" /\ req[p].round = "none" /\ req[p].answer = "none"
      /\ req[p].text = <<>> /\ req[p].sent = <<>> /\ chat[p].reply = None
    BY DEF Prepare, LoadHistory, Good, HandlerInv, PlaceInv, SentInv
<1>3. CASE Goto(p, "generate")
  <2>1. ChatsOK' /\ chat'[p].stage = "generate" /\ chat'[p].reply = chat[p].reply
    <3>1. chat'[p].stage = "generate" /\ chat'[p].reply = chat[p].reply
      BY <1>1, <1>3 DEF Goto, Good, ChatsOK, ChatRecord
    <3>2. ChatsOK'
      BY <1>3, ChatGoto DEF Good, ChatStage
    <3> QED BY <3>1, <3>2
  <2>2. PICK round \in {"plan", "only"} : req' = [req EXCEPT ![p].round = round]
      BY <2>1 DEF Prepare
  <2> DEFINE r == [req[p] EXCEPT !.round = round]
  <2>3. r \in Request /\ r.round = round /\ r.text = <<>> /\ r.sent = <<>> /\ r.answer = "none"
      BY <1>1, <1>2 DEF Request
  <2>4. RequestsOK' /\ req'[p] = r
      BY <2>2, <2>3, RequestUpdated DEF Good, RequestsOK
  <2>5. \A e : All(<<>>, e)
      BY EmptyText DEF All
  <2> QED BY <1>2, <2>1, <2>3, <2>4, <2>5 DEF Good, HandlerInv, PlaceInv, SentInv, StreamInv
<1>4. ASSUME NEW cause \in Causes, FailWith(p, cause)
      PROVE  Good(p)'
  <2>1. ChatsOK' /\ chat'[p].stage = "finish" /\ chat'[p].reply = chat[p].reply
      BY <1>1, <1>4, ChatFails DEF FailWith, Good, ChatsOK, ChatRecord
  <2>2. UNCHANGED req
      BY <2>1 DEF Prepare
  <2> QED BY <1>2, <2>1, <2>2 DEF Good, RequestsOK, HandlerInv, PlaceInv, SentInv, StreamInv
<1> QED BY <1>3, <1>4 DEF Prepare, LoadHistory

LEMMA DeltaIsGood ==
  ASSUME NEW p \in Procs, Good(p), Delta(p)
  PROVE  Good(p)'
<1>1. req[p] \in Request /\ chat[p] \in ChatRecord
    BY DEF Good, RequestsOK, ChatsOK
<1>2. /\ chat[p].stage = "generate" /\ req[p].round \in {"only", "plan", "final"}
      /\ req[p].answer = "none" /\ chat[p].reply = None
    BY DEF Delta, InRound, Good, HandlerInv, PlaceInv
<1>3. CASE /\ req[p].round = "plan" /\ UNCHANGED chat
           /\ req' = [req EXCEPT ![p].text = Append(req[p].text, "plan")]
  <2> DEFINE r == [req[p] EXCEPT !.text = Append(req[p].text, "plan")]
  <2>1. Append(req[p].text, "plan") \in Seq(TextRounds) /\ All(Append(req[p].text, "plan"), "plan")
      BY <1>1, <1>3, TextGrows DEF Request, TextRounds, All, Good, HandlerInv, SentInv
  <2>2. r \in Request /\ r.text = Append(req[p].text, "plan") /\ r.round = "plan"
        /\ r.sent = req[p].sent /\ r.answer = "none"
      BY <1>1, <1>2, <1>3, <2>1 DEF Request
  <2>3. req' = [req EXCEPT ![p] = r]
      BY <1>1, <1>3 DEF Good, RequestsOK
  <2>4. RequestsOK' /\ req'[p] = r
      BY <2>2, <2>3, RequestUpdated DEF Good, RequestsOK
  <2> QED BY <1>2, <1>3, <2>1, <2>2, <2>4
       DEF Good, ChatsOK, HandlerInv, PlaceInv, SentInv, StreamInv
<1>4. CASE \E cause \in Causes : FailRound(p, cause)
    BY <1>2, <1>4, FailingIsGood
<1>5. CASE req[p].round \in {"only", "final"}
  <2> DEFINE e == req[p].round
             sent == Append(req[p].sent, e)
             text == Append(req[p].text, e)
  <2>1. sent \in Seq(TextRounds) /\ All(sent, e) /\ text \in Seq(TextRounds)
      BY <1>1, <1>5, TextGrows DEF Request, TextRounds, All, Good, HandlerInv, SentInv
  <2>2. CASE UNCHANGED chat /\ req' = [req EXCEPT ![p].sent = sent, ![p].text = text]
    <3> DEFINE r == [req[p] EXCEPT !.sent = sent, !.text = text]
    <3>1. r \in Request /\ r.sent = sent /\ r.text = text /\ r.round = e /\ r.answer = "none"
        BY <1>1, <1>2, <2>1 DEF Request
    <3>2. req' = [req EXCEPT ![p] = r]
        BY <2>2 DEF Good, RequestsOK
    <3>3. RequestsOK' /\ req'[p] = r
        BY <3>1, <3>2, RequestUpdated DEF Good, RequestsOK
    <3> QED BY <1>2, <1>5, <2>1, <2>2, <3>1, <3>3
         DEF Good, ChatsOK, HandlerInv, PlaceInv, SentInv, StreamInv
  <2>3. CASE /\ ~Alive(p) /\ FailWith(p, req[p].ctx)
             /\ req' = [req EXCEPT ![p].sent = sent, ![p].end = "open", ![p].text = <<>>]
    <3> DEFINE r == [req[p] EXCEPT !.sent = sent, !.end = "open", !.text = <<>>]
    <3>1. r \in Request /\ r.sent = sent /\ r.text = <<>> /\ r.round = e /\ r.answer = "none"
        BY <1>1, <1>2, <2>1, EmptyText DEF Request, Ends
    <3>2. req' = [req EXCEPT ![p] = r]
        BY <2>3 DEF Good, RequestsOK
    <3>3. RequestsOK' /\ req'[p] = r
        BY <3>1, <3>2, RequestUpdated DEF Good, RequestsOK
    <3>4. ChatsOK' /\ chat'[p].stage = "finish" /\ chat'[p].reply = None
        BY <1>1, <1>2, <2>3, ReasonsAreCauses, ChatFails DEF FailWith, Good, ChatsOK, ChatRecord
    <3> QED BY <1>2, <1>5, <2>1, <3>1, <3>3, <3>4
         DEF Good, HandlerInv, PlaceInv, SentInv, StreamInv
  <2> QED BY <1>5, <2>2, <2>3 DEF Delta
<1> QED BY <1>2, <1>3, <1>4, <1>5, ReasonsAreCauses DEF Delta, Good

\* The chat goes on to the next stage with no result yet.
LEMMA ChatGoesOn ==
  ASSUME NEW p \in Procs, ChatsOK, NEW stage \in ChatStage \ {"finish"}, Goto(p, stage)
  PROVE  ChatsOK' /\ chat'[p].stage = stage /\ chat'[p].reply = chat[p].reply
<1>1. ChatsOK'
    BY ChatGoto
<1>2. chat \in [Procs -> ChatRecord] /\ chat[p] \in ChatRecord
    BY DEF ChatsOK
<1>3. chat' = [chat EXCEPT ![p] = [chat[p] EXCEPT !.stage = stage]]
    BY <1>2 DEF Goto
<1>4. chat'[p] = [chat[p] EXCEPT !.stage = stage]
    BY <1>2, <1>3
<1> QED BY <1>1, <1>2, <1>4 DEF ChatRecord

LEMMA TakingIsGood ==
  ASSUME NEW p \in Procs, Good(p), InRound(p), NEW text \in Seq(TextRounds),
         req[p].round = "plan" => All(text, "plan"),
         p \in Streams => text = req[p].text /\ req[p].end = "completed",
         TakeResponse(p, text)
  PROVE  Good(p)'
<1> DEFINE Taken(round) == [req[p] EXCEPT !.text = text, !.round = round]
<1>1. req[p] \in Request /\ chat[p] \in ChatRecord
    BY DEF Good, RequestsOK, ChatsOK
<1>2. /\ chat[p].stage = "generate" /\ req[p].round \in {"only", "plan", "final"}
      /\ req[p].answer = "none" /\ chat[p].reply = None
    BY DEF InRound, Good, HandlerInv, PlaceInv
<1>3. \A round \in {"only", "plan", "final", "forward", "tool"} :
        /\ Taken(round) \in Request
        /\ Taken(round).text = text /\ Taken(round).round = round
        /\ Taken(round).sent = req[p].sent /\ Taken(round).answer = "none"
        /\ Taken(round).end = req[p].end
    BY <1>1, <1>2 DEF Request
<1>4. [req[p] EXCEPT !.text = text] = Taken(req[p].round)
      /\ \A round : [[req[p] EXCEPT !.text = text] EXCEPT !.round = round] = Taken(round)
    BY <1>1 DEF Request
<1>5. \/ /\ req' = [req EXCEPT ![p] = Taken(req[p].round)]
         /\ Goto(p, "save")
         /\ req[p].round = "plan" => p \notin Streams
      \/ /\ req[p].round = "plan"
         /\ req' = [req EXCEPT ![p] = Taken("forward")] /\ p \in Streams /\ UNCHANGED chat
      \/ /\ req[p].round = "plan"
         /\ req' = [req EXCEPT ![p] = Taken("tool")] /\ UNCHANGED chat
      \/ \E cause \in Causes : FailRound(p, cause)
    BY <1>4 DEF TakeResponse
<1>6. CASE /\ req' = [req EXCEPT ![p] = Taken(req[p].round)]
           /\ Goto(p, "save")
           /\ req[p].round = "plan" => p \notin Streams
  <2>1. RequestsOK' /\ req'[p] = Taken(req[p].round)
      BY <1>2, <1>3, <1>6, RequestUpdated DEF Good, RequestsOK
  <2>2. ChatsOK' /\ chat'[p].stage = "save" /\ chat'[p].reply = None
      BY <1>2, <1>6, ChatGoesOn DEF Good, ChatStage
  <2> HIDE DEF Taken
  <2> QED BY <1>2, <1>3, <1>6, <2>1, <2>2 DEF Good, HandlerInv, PlaceInv, SentInv, StreamInv
<1>7. CASE /\ req[p].round = "plan"
           /\ req' = [req EXCEPT ![p] = Taken("forward")] /\ p \in Streams /\ UNCHANGED chat
  <2>1. RequestsOK' /\ req'[p] = Taken("forward")
      BY <1>3, <1>7, RequestUpdated DEF Good, RequestsOK
  <2>2. req[p].sent = <<>> /\ All(<<>>, "plan") /\ Len(<<>>) <= Len(text)
      BY <1>7, EmptyText, Rows DEF Good, HandlerInv, SentInv, All
  <2> HIDE DEF Taken
  <2> QED BY <1>2, <1>3, <1>7, <2>1, <2>2
       DEF Good, ChatsOK, HandlerInv, PlaceInv, SentInv, StreamInv
<1>8. CASE req[p].round = "plan" /\ req' = [req EXCEPT ![p] = Taken("tool")] /\ UNCHANGED chat
  <2>1. RequestsOK' /\ req'[p] = Taken("tool")
      BY <1>3, <1>8, RequestUpdated DEF Good, RequestsOK
  <2> HIDE DEF Taken
  <2> QED BY <1>2, <1>3, <1>8, <2>1 DEF Good, ChatsOK, HandlerInv, PlaceInv, SentInv, StreamInv
<1> QED BY <1>2, <1>5, <1>6, <1>7, <1>8, FailingIsGood

LEMMA RoundEndsGood ==
  ASSUME NEW p \in Procs, Good(p), StreamEnds(p) \/ ResponseArrives(p)
  PROVE  Good(p)'
<1>1. InRound(p) /\ chat[p].stage = "generate" /\ req[p] \in Request
    BY DEF StreamEnds, ResponseArrives, InRound, Good, RequestsOK
<1>2. ASSUME NEW cause \in Causes, FailRound(p, cause) PROVE Good(p)'
    BY <1>1, <1>2, FailingIsGood
<1>3. CASE p \in Streams /\ req[p].end = "completed" /\ TakeResponse(p, req[p].text)
    BY <1>1, <1>3, TakingIsGood DEF Request, Good, HandlerInv, SentInv
<1>4. CASE p \notin Streams /\ TakeResponse(p, <<req[p].round>>)
  <2>1. req[p].round \in TextRounds
      BY <1>1 DEF InRound, TextRounds
  <2>2. <<req[p].round>> \in Seq(TextRounds) /\ All(<<req[p].round>>, req[p].round)
      BY <2>1 DEF All
  <2> QED BY <1>1, <1>4, <2>2, TakingIsGood
<1> QED BY <1>2, <1>3, <1>4, ReasonsAreCauses DEF StreamEnds, ResponseArrives, Good

LEMMA ForwardIsGood ==
  ASSUME NEW p \in Procs, Good(p), Forward(p)
  PROVE  Good(p)'
<1>1. req[p] \in Request /\ chat[p] \in ChatRecord
    BY DEF Good, RequestsOK, ChatsOK
<1>2. /\ chat[p].stage = "generate" /\ req[p].round = "forward"
      /\ req[p].answer = "none" /\ chat[p].reply = None
      /\ All(req[p].text, "plan") /\ All(req[p].sent, "plan")
      /\ Len(req[p].sent) <= Len(req[p].text)
    BY DEF Forward, Good, HandlerInv, PlaceInv, SentInv
<1>3. CASE ~Alive(p) /\ FailRound(p, req[p].ctx)
    BY <1>2, <1>3, ReasonsAreCauses, FailingIsGood DEF Good
<1>4. CASE req[p].sent = req[p].text /\ Goto(p, "save") /\ UNCHANGED req
  <2>1. ChatsOK' /\ chat'[p].stage = "save" /\ chat'[p].reply = None
      BY <1>2, <1>4, ChatGoesOn DEF Good, ChatStage
  <2> QED BY <1>2, <1>4, <2>1 DEF Good, RequestsOK, HandlerInv, PlaceInv, SentInv, StreamInv
<1>5. CASE /\ req[p].sent # req[p].text /\ UNCHANGED chat
           /\ req' = [req EXCEPT ![p].sent = Append(req[p].sent, req[p].text[Len(req[p].sent) + 1])]
  <2>1. /\ req[p].sent \in Seq(TextRounds) /\ DOMAIN req[p].sent = 1..Len(req[p].sent)
        /\ req[p].text \in Seq(TextRounds) /\ DOMAIN req[p].text = 1..Len(req[p].text)
        /\ Len(req[p].sent) \in Nat /\ Len(req[p].text) \in Nat
      BY <1>1, Rows DEF Request
  <2>2. Len(req[p].sent) < Len(req[p].text)
    <3>1. SUFFICES ASSUME Len(req[p].sent) = Len(req[p].text) PROVE FALSE
        BY <1>2, <2>1
    <3>2. \A i \in 1..Len(req[p].sent) : req[p].sent[i] = req[p].text[i]
        BY <1>2, <2>1, <3>1 DEF All
    <3> QED BY <1>5, <2>1, <3>1, <3>2, SeqEqual
  <2>3. req[p].text[Len(req[p].sent) + 1] = "plan"
      BY <1>2, <2>1, <2>2 DEF All
  <2> DEFINE sent == Append(req[p].sent, "plan")
             r == [req[p] EXCEPT !.sent = sent]
  <2>4. sent \in Seq(TextRounds) /\ All(sent, "plan") /\ Len(sent) <= Len(req[p].text)
      BY <1>2, <2>1, <2>2, TextGrows DEF TextRounds, All
  <2>5. r \in Request /\ r.sent = sent /\ r.text = req[p].text /\ r.round = "forward"
        /\ r.answer = "none" /\ r.end = req[p].end
      BY <1>1, <1>2, <2>4 DEF Request
  <2>6. req' = [req EXCEPT ![p] = r]
      BY <1>5, <2>3 DEF Good, RequestsOK
  <2>7. RequestsOK' /\ req'[p] = r
      BY <2>5, <2>6, RequestUpdated DEF Good, RequestsOK
  <2> HIDE DEF sent, r
  <2> QED BY <1>2, <1>5, <2>4, <2>5, <2>7
       DEF Good, ChatsOK, HandlerInv, PlaceInv, SentInv, StreamInv
<1> QED BY <1>3, <1>4, <1>5 DEF Forward

LEMMA CallToolIsGood ==
  ASSUME NEW p \in Procs, Good(p), CallTool(p)
  PROVE  Good(p)'
<1>1. req[p] \in Request /\ chat[p] \in ChatRecord
    BY DEF Good, RequestsOK, ChatsOK
<1>2. /\ chat[p].stage = "generate" /\ req[p].round = "tool"
      /\ req[p].answer = "none" /\ chat[p].reply = None /\ req[p].sent = <<>>
    BY DEF CallTool, Good, HandlerInv, PlaceInv, SentInv
<1>3. CASE UNCHANGED chat /\ req' = [req EXCEPT ![p].round = "final", ![p].end = "open",
                                                ![p].text = <<>>]
  <2> DEFINE r == [req[p] EXCEPT !.round = "final", !.end = "open", !.text = <<>>]
  <2>1. r \in Request /\ r.text = <<>> /\ r.sent = <<>> /\ r.round = "final" /\ r.answer = "none"
      BY <1>1, <1>2, EmptyText DEF Request, Ends
  <2>2. req' = [req EXCEPT ![p] = r]
      BY <1>3 DEF Good, RequestsOK
  <2>3. RequestsOK' /\ req'[p] = r /\ All(<<>>, "final")
      BY <2>1, <2>2, RequestUpdated, EmptyText DEF Good, RequestsOK, All
  <2> HIDE DEF r
  <2> QED BY <1>2, <1>3, <2>1, <2>3 DEF Good, ChatsOK, HandlerInv, PlaceInv, SentInv, StreamInv
<1> QED BY <1>2, <1>3, FailingIsGood, ReasonsAreCauses DEF CallTool, Good
LEMMA SaveIsGood ==
  ASSUME NEW p \in Procs, StoreTypeOK, Good(p), Save(p)
  PROVE  Good(p)'
<1>1. req[p] \in Request /\ chat[p] \in ChatRecord
    BY DEF Good, RequestsOK, ChatsOK
<1>2. /\ chat[p].stage = "save" /\ req[p].answer = "none" /\ chat[p].reply = None
      /\ UNCHANGED req
    BY DEF Save, SaveReply, Good, HandlerInv, PlaceInv
<1>3. CASE chat' = [chat EXCEPT ![p].stage = "done", ![p].reply = Len(messages) + 1]
  <2> DEFINE c == [chat[p] EXCEPT !.stage = "done", !.reply = Len(messages) + 1]
  <2>1. Len(messages) + 1 \in Nat
      BY MessageRows
  <2>2. chat' = [chat EXCEPT ![p] = c] /\ c.stage = "done"
      BY <1>1, <1>3 DEF Good, ChatsOK, ChatRecord
  <2>3. ChatsOK' /\ chat'[p].stage = "done"
      BY <1>3, <2>1, <2>2, ChatReplies DEF Good, ChatsOK
  <2> QED BY <1>2, <2>3 DEF Good, RequestsOK, HandlerInv, PlaceInv, SentInv, StreamInv
<1>4. ASSUME NEW cause \in Causes, FailWith(p, cause)
      PROVE  Good(p)'
  <2>1. ChatsOK' /\ chat'[p].stage = "finish" /\ chat'[p].reply = chat[p].reply
      BY <1>1, <1>4, ChatFails DEF FailWith, Good, ChatsOK, ChatRecord
  <2> QED BY <1>2, <2>1 DEF Good, RequestsOK, HandlerInv, PlaceInv, SentInv, StreamInv
<1> QED BY <1>3, <1>4 DEF Save, SaveReply

LEMMA FinishIsGood ==
  ASSUME NEW p \in Procs, Good(p), Finish(p)
  PROVE  Good(p)'
<1>1. req[p] \in Request /\ chat[p] \in ChatRecord /\ chat[p].cause \in Causes
    BY DEF Finish, FinishCall, Good, RequestsOK, ChatsOK
<1>2. chat[p].stage = "finish" /\ req[p].answer = "none" /\ chat[p].reply = None /\ UNCHANGED req
    BY DEF Finish, FinishCall, Good, HandlerInv, PlaceInv
<1>3. ASSUME ChatsOK', chat'[p].stage = "done", chat'[p].reply = chat[p].reply
      PROVE  Good(p)'
    BY <1>2, <1>3 DEF Good, RequestsOK, HandlerInv, PlaceInv, SentInv, StreamInv
<1>4. CASE Goto(p, "done")
    BY <1>3, <1>4, ChatGoesOn DEF Good, ChatStage
<1>5. ASSUME NEW cause \in Causes, Abandon(p, cause)
      PROVE  Good(p)'
    BY <1>1, <1>3, <1>5, ChatAbandoned DEF Abandon, Good, ChatsOK, ChatRecord
<1> QED BY <1>1, <1>4, <1>5 DEF Finish, FinishCall

LEMMA ReplyIsGood ==
  ASSUME NEW p \in Procs, Good(p), Reply(p)
  PROVE  Good(p)'
<1>1. req[p] \in Request /\ chat[p] \in ChatRecord
    BY DEF Good, RequestsOK, ChatsOK
<1>2. ChatsOK' /\ chat'[p] = NoChat
    BY ChatEnds DEF Reply, Good, ChatsOK
<1>3. PICK answer \in {"done", "error"} :
        /\ req' = [req EXCEPT ![p].answer = answer, ![p].ctx = "live"]
        /\ answer = "done" => chat[p].reply # None
    BY DEF Reply
<1> DEFINE r == [req[p] EXCEPT !.answer = answer, !.ctx = "live"]
<1>4. r \in Request /\ r.answer = answer /\ r.round = req[p].round
      /\ r.text = req[p].text /\ r.sent = req[p].sent
    BY <1>1 DEF Request
<1>5. req' = [req EXCEPT ![p] = r]
    BY <1>1, <1>3 DEF Good, RequestsOK
<1>6. RequestsOK' /\ req'[p] = r
    BY <1>4, <1>5, RequestUpdated DEF Good, RequestsOK
<1>7. chat'[p].stage = "off" /\ chat'[p].reply = None
  <2>1. NoChat.stage = "off" /\ NoChat.reply = None
      BY DEF NoChat
  <2> QED BY <1>2, <2>1
<1> HIDE DEF r
<1> QED BY <1>2, <1>3, <1>4, <1>6, <1>7 DEF Good, HandlerInv, PlaceInv, SentInv, StreamInv

LEMMA DisturbedIsGood ==
  ASSUME NEW p \in Procs, Good(p), ClientLeaves(p) \/ Expire(p) \/ UpstreamEnds(p)
  PROVE  Good(p)'
<1>1. req[p] \in Request /\ UNCHANGED chat
    BY DEF Good, RequestsOK, ClientLeaves, Expire, UpstreamEnds, EndContext, chatVars
<1>2. CASE ClientLeaves(p) \/ Expire(p)
  <2>1. PICK how \in {"cancelled", "timed_out"} : req' = [req EXCEPT ![p].ctx = how]
      BY <1>2 DEF ClientLeaves, Expire, EndContext
  <2> DEFINE r == [req[p] EXCEPT !.ctx = how]
  <2>2. r \in Request /\ r.answer = req[p].answer /\ r.round = req[p].round
        /\ r.text = req[p].text /\ r.sent = req[p].sent /\ r.end = req[p].end
      BY <1>1 DEF Request
  <2>3. req' = [req EXCEPT ![p] = r]
      BY <1>1, <2>1 DEF Good, RequestsOK
  <2>4. RequestsOK' /\ req'[p] = r
      BY <2>2, <2>3, RequestUpdated DEF Good, RequestsOK
  <2> HIDE DEF r
  <2> QED BY <1>1, <2>2, <2>4 DEF Good, ChatsOK, HandlerInv, PlaceInv, SentInv, StreamInv
<1>3. CASE UpstreamEnds(p)
  <2>1. PICK e \in Ends : req' = [req EXCEPT ![p].end = e]
      BY <1>3 DEF UpstreamEnds
  <2>2. chat[p].stage = "generate" /\ req[p].round # "forward"
      BY <1>3 DEF UpstreamEnds, InRound
  <2> DEFINE r == [req[p] EXCEPT !.end = e]
  <2>3. r \in Request /\ r.answer = req[p].answer /\ r.round = req[p].round
        /\ r.text = req[p].text /\ r.sent = req[p].sent
      BY <1>1 DEF Request
  <2>4. req' = [req EXCEPT ![p] = r]
      BY <1>1, <2>1 DEF Good, RequestsOK
  <2>5. RequestsOK' /\ req'[p] = r
      BY <2>3, <2>4, RequestUpdated DEF Good, RequestsOK
  <2> HIDE DEF r
  <2> QED BY <1>1, <2>2, <2>3, <2>5 DEF Good, ChatsOK, HandlerInv, PlaceInv, SentInv, StreamInv
<1> QED BY <1>2, <1>3

LEMMA RequestStepIsGood ==
  ASSUME NEW p \in Procs, StoreTypeOK, Good(p), RequestStep(p)
  PROVE  Good(p)'
BY ReceiveIsGood, PrepareIsGood, DeltaIsGood, RoundEndsGood, ForwardIsGood, CallToolIsGood,
   SaveIsGood, FinishIsGood, ReplyIsGood, DisturbedIsGood DEF RequestStep, Serve

----------------------------------------------------------------------------
(* What a step leaves alone.                                               *)

Moves(p) ==
  /\ chat'[p].call = chat[p].call
  /\ chat'[p].reply = chat[p].reply
  /\ req'[p].answer = req[p].answer

ChatAlone(p) == \A q \in Procs \ {p} : chat'[q] = chat[q]
RequestAlone(p) == \A q \in Procs \ {p} : req'[q] = req[q]

LEMMA StageMoves ==
  ASSUME ChatsOK, NEW p \in Procs,
         \/ UNCHANGED chat
         \/ \E stage : Goto(p, stage)
         \/ \E cause : FailWith(p, cause)
         \/ \E cause : Abandon(p, cause)
  PROVE  chat'[p].call = chat[p].call /\ chat'[p].reply = chat[p].reply /\ ChatAlone(p)
<1>1. chat \in [Procs -> ChatRecord] /\ chat[p] \in ChatRecord
    BY DEF ChatsOK
<1>2. ASSUME NEW stage, Goto(p, stage)
      PROVE  chat'[p].call = chat[p].call /\ chat'[p].reply = chat[p].reply /\ ChatAlone(p)
  <2>1. chat' = [chat EXCEPT ![p] = [chat[p] EXCEPT !.stage = stage]]
      BY <1>1, <1>2 DEF Goto
  <2>2. chat'[p] = [chat[p] EXCEPT !.stage = stage]
      BY <1>1, <2>1
  <2> QED BY <1>1, <2>1, <2>2 DEF ChatAlone, ChatRecord
<1>3. ASSUME NEW cause, FailWith(p, cause)
      PROVE  chat'[p].call = chat[p].call /\ chat'[p].reply = chat[p].reply /\ ChatAlone(p)
  <2>1. chat' = [chat EXCEPT ![p] = [chat[p] EXCEPT !.stage = "finish", !.cause = cause]]
      BY <1>1, <1>3 DEF FailWith
  <2>2. chat'[p] = [chat[p] EXCEPT !.stage = "finish", !.cause = cause]
      BY <1>1, <2>1
  <2> QED BY <1>1, <2>1, <2>2 DEF ChatAlone, ChatRecord
<1>4. ASSUME NEW cause, Abandon(p, cause)
      PROVE  chat'[p].call = chat[p].call /\ chat'[p].reply = chat[p].reply /\ ChatAlone(p)
  <2>1. chat' = [chat EXCEPT ![p] = [chat[p] EXCEPT !.stage = "done", !.cause = cause]]
      BY <1>1, <1>4 DEF Abandon
  <2>2. chat'[p] = [chat[p] EXCEPT !.stage = "done", !.cause = cause]
      BY <1>1, <2>1
  <2> QED BY <1>1, <2>1, <2>2 DEF ChatAlone, ChatRecord
<1> QED BY <1>1, <1>2, <1>3, <1>4 DEF ChatAlone

\* A step between the two transactions of a request.
Between(p) ==
  Prepare(p) \/ Delta(p) \/ StreamEnds(p) \/ ResponseArrives(p) \/ Forward(p) \/ CallTool(p)

LEMMA FailingMoves ==
  ASSUME ChatsOK, RequestsOK, NEW p \in Procs, NEW cause, FailRound(p, cause)
  PROVE  Moves(p) /\ ChatAlone(p) /\ RequestAlone(p)
<1>1. chat'[p].call = chat[p].call /\ chat'[p].reply = chat[p].reply /\ ChatAlone(p)
    BY StageMoves DEF FailRound
<1>2. req'[p].answer = req[p].answer /\ RequestAlone(p)
    BY DEF FailRound, RequestsOK, Request, RequestAlone
<1> QED BY <1>1, <1>2 DEF Moves

LEMMA TakingMoves ==
  ASSUME ChatsOK, RequestsOK, NEW p \in Procs, NEW text, TakeResponse(p, text)
  PROVE  Moves(p) /\ ChatAlone(p) /\ RequestAlone(p)
<1> DEFINE r == [req[p] EXCEPT !.text = text]
<1>1. CASE FailRound(p, "failed")
    BY <1>1, FailingMoves
<1>2. CASE UNCHANGED chat \/ Goto(p, "save")
  <2>1. chat'[p].call = chat[p].call /\ chat'[p].reply = chat[p].reply /\ ChatAlone(p)
      BY <1>2, StageMoves
  <2>2. r.answer = req[p].answer /\ \A round : [r EXCEPT !.round = round].answer = req[p].answer
      BY DEF RequestsOK, Request
  <2>3. \/ req' = [req EXCEPT ![p] = r]
        \/ \E round : req' = [req EXCEPT ![p] = [r EXCEPT !.round = round]]
        \/ FailRound(p, "failed")
      BY DEF TakeResponse
  <2> HIDE DEF r
  <2>4. CASE req' = [req EXCEPT ![p] = r]
    <3> QED BY <2>1, <2>2, <2>4 DEF RequestsOK, RequestAlone, Moves
  <2>5. ASSUME NEW round, req' = [req EXCEPT ![p] = [r EXCEPT !.round = round]]
        PROVE  Moves(p) /\ ChatAlone(p) /\ RequestAlone(p)
    <3> QED BY <2>1, <2>2, <2>5 DEF RequestsOK, RequestAlone, Moves
  <2> QED BY <2>3, <2>4, <2>5, <1>1
<1> QED BY <1>1, <1>2 DEF TakeResponse

\* A request that changes in anything but its answer.
LEMMA RequestMoves ==
  ASSUME RequestsOK, NEW p \in Procs, NEW r, r.answer = req[p].answer,
         req' = [req EXCEPT ![p] = r]
  PROVE  req'[p].answer = req[p].answer /\ RequestAlone(p)
BY DEF RequestsOK, RequestAlone

LEMMA DeltaMoves ==
  ASSUME ChatsOK, RequestsOK, NEW p \in Procs, Delta(p)
  PROVE  Moves(p) /\ ChatAlone(p) /\ RequestAlone(p)
<1>1. req[p] \in Request
    BY DEF RequestsOK
<1>2. CASE \E cause : FailRound(p, cause)
    BY <1>2, FailingMoves
<1>3. CASE UNCHANGED chat \/ FailWith(p, req[p].ctx)
  <2>1. chat'[p].call = chat[p].call /\ chat'[p].reply = chat[p].reply /\ ChatAlone(p)
      BY <1>3, StageMoves
  <2>2. ASSUME NEW text, req' = [req EXCEPT ![p].text = text]
        PROVE  req'[p].answer = req[p].answer /\ RequestAlone(p)
    <3> DEFINE r == [req[p] EXCEPT !.text = text]
    <3>1. req' = [req EXCEPT ![p] = r] /\ r.answer = req[p].answer
        BY <1>1, <2>2 DEF RequestsOK, Request
    <3> QED BY <3>1, RequestMoves
  <2>3. ASSUME NEW sent, NEW text, req' = [req EXCEPT ![p].sent = sent, ![p].text = text]
        PROVE  req'[p].answer = req[p].answer /\ RequestAlone(p)
    <3> DEFINE r == [req[p] EXCEPT !.sent = sent, !.text = text]
    <3>1. req' = [req EXCEPT ![p] = r] /\ r.answer = req[p].answer
        BY <1>1, <2>3 DEF RequestsOK, Request
    <3> QED BY <3>1, RequestMoves
  <2>4. ASSUME NEW sent, NEW text,
               req' = [req EXCEPT ![p].sent = sent, ![p].end = "open", ![p].text = text]
        PROVE  req'[p].answer = req[p].answer /\ RequestAlone(p)
    <3> DEFINE r == [req[p] EXCEPT !.sent = sent, !.end = "open", !.text = text]
    <3>1. req' = [req EXCEPT ![p] = r] /\ r.answer = req[p].answer
        BY <1>1, <2>4 DEF RequestsOK, Request
    <3> QED BY <3>1, RequestMoves
  <2>5. \/ \E text : req' = [req EXCEPT ![p].text = text]
        \/ \E sent, text : req' = [req EXCEPT ![p].sent = sent, ![p].text = text]
        \/ \E sent, text : req' = [req EXCEPT ![p].sent = sent, ![p].end = "open", ![p].text = text]
        \/ \E cause : FailRound(p, cause)
      BY DEF Delta
  <2> QED BY <1>2, <2>1, <2>2, <2>3, <2>4, <2>5 DEF Moves
<1> QED BY <1>2, <1>3 DEF Delta

LEMMA BetweenMoves ==
  ASSUME ChatsOK, RequestsOK, NEW p \in Procs, Between(p)
  PROVE  /\ chat[p].stage \in {"history", "generate"}
         /\ UNCHANGED storeVars
         /\ Moves(p) /\ ChatAlone(p) /\ RequestAlone(p)
<1>1. chat[p].stage \in {"history", "generate"} /\ UNCHANGED storeVars
    BY DEF Between, Prepare, LoadHistory, Delta, StreamEnds, ResponseArrives, Forward, CallTool,
           InRound, Keeps
<1>2. req[p] \in Request
    BY DEF RequestsOK
<1>3. CASE Prepare(p)
  <2>1. chat'[p].call = chat[p].call /\ chat'[p].reply = chat[p].reply /\ ChatAlone(p)
      BY <1>3, StageMoves DEF Prepare, LoadHistory
  <2>2. ASSUME NEW round, req' = [req EXCEPT ![p].round = round]
        PROVE  req'[p].answer = req[p].answer /\ RequestAlone(p)
    <3> DEFINE r == [req[p] EXCEPT !.round = round]
    <3>1. req' = [req EXCEPT ![p] = r] /\ r.answer = req[p].answer
        BY <1>2, <2>2 DEF RequestsOK, Request
    <3> QED BY <3>1, RequestMoves
  <2>3. UNCHANGED req \/ \E round : req' = [req EXCEPT ![p].round = round]
      BY <1>3 DEF Prepare
  <2> QED BY <1>1, <2>1, <2>2, <2>3 DEF Moves, RequestAlone
<1>4. CASE Delta(p)
    BY <1>1, <1>4, DeltaMoves
<1>5. CASE StreamEnds(p) \/ ResponseArrives(p)
    BY <1>1, <1>5, FailingMoves, TakingMoves DEF StreamEnds, ResponseArrives
<1>6. CASE Forward(p)
  <2>1. CASE FailRound(p, req[p].ctx)
      BY <1>1, <2>1, FailingMoves
  <2>2. CASE UNCHANGED chat \/ Goto(p, "save")
    <3>1. chat'[p].call = chat[p].call /\ chat'[p].reply = chat[p].reply /\ ChatAlone(p)
        BY <2>2, StageMoves
    <3>2. ASSUME NEW sent, req' = [req EXCEPT ![p].sent = sent]
          PROVE  req'[p].answer = req[p].answer /\ RequestAlone(p)
      <4> DEFINE r == [req[p] EXCEPT !.sent = sent]
      <4>1. req' = [req EXCEPT ![p] = r] /\ r.answer = req[p].answer
          BY <1>2, <3>2 DEF RequestsOK, Request
      <4> QED BY <4>1, RequestMoves
    <3>3. UNCHANGED req \/ (\E sent : req' = [req EXCEPT ![p].sent = sent]) \/ FailRound(p, req[p].ctx)
        BY <1>6 DEF Forward
    <3> QED BY <1>1, <2>1, <3>1, <3>2, <3>3 DEF Moves, RequestAlone
  <2> QED BY <1>6, <2>1, <2>2 DEF Forward
<1>7. CASE CallTool(p)
  <2>1. CASE \E cause : FailRound(p, cause)
      BY <1>1, <2>1, FailingMoves
  <2>2. CASE /\ UNCHANGED chat
             /\ req' = [req EXCEPT ![p].round = "final", ![p].end = "open", ![p].text = <<>>]
    <3> DEFINE r == [req[p] EXCEPT !.round = "final", !.end = "open", !.text = <<>>]
    <3>1. req' = [req EXCEPT ![p] = r] /\ r.answer = req[p].answer
        BY <1>2, <2>2 DEF RequestsOK, Request
    <3>2. req'[p].answer = req[p].answer /\ RequestAlone(p)
        BY <3>1, RequestMoves
    <3> QED BY <1>1, <2>2, <3>2, StageMoves DEF Moves
  <2> QED BY <1>7, <2>1, <2>2 DEF CallTool
<1> QED BY <1>3, <1>4, <1>5, <1>6, <1>7 DEF Between

----------------------------------------------------------------------------
(* The tables.                                                             *)

\* The request a call answers.
Topic(k) == messages[calls[k].request].topic

CallsHaveRequests == \A k \in DOMAIN calls : calls[k].request \in DOMAIN messages

TopicsKept == \A k \in DOMAIN calls : k \in DOMAIN calls' /\ Topic(k)' = Topic(k)

LEMMA AnswersKept ==
  ASSUME TopicsKept,
         \A k \in DOMAIN calls' : calls'[k].status = "completed" <=>
                                    k \in DOMAIN calls /\ calls[k].status = "completed"
  PROVE  \A q \in Procs : Answered(q)' <=> Answered(q)
BY DEF TopicsKept, Topic, Answered, CallsOf

\* startModelCall: question and running call.
LEMMA QuestionStored ==
  ASSUME StoreTypeOK, CallsHaveRequests, NEW p \in Procs, NEW c \in Convs,
         InsertMessage(c, "user", p), InsertRunningModelCall(Len(messages) + 1)
  PROVE  /\ messages' \in Seq(Message) /\ calls' \in Seq(Call)
         /\ CallsHaveRequests' /\ TopicsKept
         /\ \A n : n = Len(calls) + 1 => n \in DOMAIN calls' /\ Topic(n)' = p
         /\ \A q \in Procs : Answered(q)' <=> Answered(q)
<1> DEFINE m == [conv |-> c, role |-> "user", topic |-> p]
           k == [request |-> Len(messages) + 1, status |-> "running", assistant |-> None]
<1>1. messages \in Seq(Message) /\ calls \in Seq(Call)
    BY DEF StoreTypeOK
<1>2. m \in Message /\ m.topic = p
    BY DEF Message, Roles
<1>3. k \in Call /\ k.request = Len(messages) + 1 /\ k.status = "running"
  <2>1. Len(messages) + 1 \in Nat
      BY MessageRows
  <2> QED BY <2>1 DEF Call, None
<1>4. messages' = Append(messages, m) /\ calls' = Append(calls, k)
    BY DEF InsertMessage, InsertRunningModelCall
<1> HIDE DEF m, k
<1>5. /\ messages' \in Seq(Message) /\ Len(messages) \in Nat
      /\ DOMAIN messages = 1..Len(messages) /\ DOMAIN messages' = 1..(Len(messages) + 1)
      /\ \A i \in DOMAIN messages : messages'[i] = messages[i]
      /\ messages'[Len(messages) + 1] = m
    BY <1>1, <1>2, <1>4, RowAppended
<1>6. /\ calls' \in Seq(Call) /\ Len(calls) \in Nat
      /\ DOMAIN calls = 1..Len(calls) /\ DOMAIN calls' = 1..(Len(calls) + 1)
      /\ \A i \in DOMAIN calls : calls'[i] = calls[i]
      /\ calls'[Len(calls) + 1] = k
    BY <1>1, <1>3, <1>4, RowAppended
<1>7. DOMAIN messages \subseteq DOMAIN messages' /\ Len(messages) + 1 \in DOMAIN messages'
    BY <1>5
<1>8. /\ \A i \in DOMAIN calls' : i \in DOMAIN calls \/ i = Len(calls) + 1
      /\ Len(calls) + 1 \in DOMAIN calls' /\ DOMAIN calls \subseteq DOMAIN calls'
    BY <1>6
<1>9. CallsHaveRequests'
    BY <1>3, <1>5, <1>6, <1>7, <1>8 DEF CallsHaveRequests
<1>10. TopicsKept /\ \A n : n = Len(calls) + 1 => Topic(n)' = p
    BY <1>2, <1>3, <1>5, <1>6, <1>8 DEF TopicsKept, Topic, CallsHaveRequests
<1>11. \A q \in Procs : Answered(q)' <=> Answered(q)
  <2>1. \A i \in DOMAIN calls' : calls'[i].status = "completed" <=>
                                   i \in DOMAIN calls /\ calls[i].status = "completed"
      BY <1>3, <1>6, <1>8
  <2> QED BY <1>10, <2>1, AnswersKept
<1> QED BY <1>5, <1>6, <1>8, <1>9, <1>10, <1>11

\* saveAssistantAndComplete: the reply, and the call it completes.
LEMMA ReplyStored ==
  ASSUME StoreTypeOK, CallsHaveRequests, NEW p \in Procs, NEW n, LiveCall(n), Topic(n) = p,
         InsertReplyAndCompleteModelCall(n)
  PROVE  /\ messages' \in Seq(Message) /\ calls' \in Seq(Call)
         /\ CallsHaveRequests' /\ TopicsKept
         /\ Answered(p)'
         /\ \A q \in Procs \ {p} : Answered(q)' <=> Answered(q)
<1>1. /\ messages \in Seq(Message) /\ n \in DOMAIN calls /\ calls[n] \in Call
      /\ calls[n].request \in DOMAIN messages
    BY CallRows DEF StoreTypeOK, LiveCall, CallsHaveRequests
<1>2. messages' \in Seq(Message) /\ calls' \in Seq(Call)
    BY ReplyInserted
<1>3. PICK m : messages' = Append(messages, m) /\ m \in Message
  <2>1. messages[calls[n].request] \in Message
      BY <1>1, MessageRows
  <2> QED BY <2>1 DEF InsertReplyAndCompleteModelCall, InsertMessage, Message, Roles
<1>4. DOMAIN messages \subseteq DOMAIN messages'
      /\ \A i \in DOMAIN messages : messages'[i] = messages[i]
  <2>1. /\ Len(messages) \in Nat /\ DOMAIN messages = 1..Len(messages)
        /\ DOMAIN messages' = 1..(Len(messages) + 1)
        /\ \A i \in DOMAIN messages : messages'[i] = messages[i]
      BY <1>1, <1>3, RowAppended
  <2> QED BY <2>1
<1>5. PICK k : /\ calls' = [calls EXCEPT ![n] = k]
               /\ k.request = calls[n].request /\ k.status = "completed"
  <2> DEFINE k == [calls[n] EXCEPT !.status = "completed", !.assistant = Len(messages) + 1]
  <2>1. calls' = [calls EXCEPT ![n] = k]
      BY <1>1, CallRows DEF InsertReplyAndCompleteModelCall
  <2>2. k.request = calls[n].request /\ k.status = "completed"
      BY <1>1 DEF Call
  <2> QED BY <2>1, <2>2
<1>6. DOMAIN calls' = DOMAIN calls /\ calls'[n] = k
      /\ \A i \in DOMAIN calls \ {n} : calls'[i] = calls[i]
    BY <1>1, <1>5
<1>7. CallsHaveRequests' /\ TopicsKept
    BY <1>1, <1>4, <1>5, <1>6 DEF CallsHaveRequests, TopicsKept, Topic
<1>8. Answered(p)'
    BY <1>1, <1>5, <1>6, <1>7 DEF TopicsKept, Topic, Answered, CallsOf
<1>9. \A q \in Procs \ {p} : Answered(q)' <=> Answered(q)
    BY <1>1, <1>5, <1>6, <1>7 DEF TopicsKept, Topic, Answered, CallsOf
<1> QED BY <1>2, <1>7, <1>8, <1>9

\* finishFailedModelCall: a running call gets a cause.
LEMMA FailureStored ==
  ASSUME StoreTypeOK, CallsHaveRequests, NEW n, LiveCall(n), NEW cause \in Causes,
         FinishModelCall(n, cause), UNCHANGED messages
  PROVE  /\ messages' \in Seq(Message) /\ calls' \in Seq(Call)
         /\ CallsHaveRequests' /\ TopicsKept
         /\ \A q \in Procs : Answered(q)' <=> Answered(q)
<1>1. n \in DOMAIN calls /\ calls[n] \in Call /\ calls[n].status = "running"
    BY CallRows DEF LiveCall
<1>2. calls' \in Seq(Call)
    BY <1>1, CallFinished
<1>3. PICK k : /\ calls' = [calls EXCEPT ![n] = k]
               /\ k.request = calls[n].request /\ k.status = cause
  <2> DEFINE k == [calls[n] EXCEPT !.status = cause]
  <2>1. calls' = [calls EXCEPT ![n] = k]
      BY <1>1, CallRows DEF FinishModelCall
  <2>2. k.request = calls[n].request /\ k.status = cause
      BY <1>1 DEF Call
  <2> QED BY <2>1, <2>2
<1>4. DOMAIN calls' = DOMAIN calls /\ calls'[n] = k
      /\ \A i \in DOMAIN calls \ {n} : calls'[i] = calls[i]
    BY <1>1, <1>3
<1>5. CallsHaveRequests' /\ TopicsKept
    BY <1>1, <1>3, <1>4 DEF CallsHaveRequests, TopicsKept, Topic
<1>6. "completed" \notin Causes
    OBVIOUS
<1>7. \A i \in DOMAIN calls' : calls'[i].status = "completed" <=>
                                 i \in DOMAIN calls /\ calls[i].status = "completed"
    BY <1>1, <1>3, <1>4, <1>6
<1> QED BY <1>2, <1>5, <1>7, AnswersKept DEF StoreTypeOK

LEMMA NothingStored ==
  ASSUME StoreTypeOK, CallsHaveRequests, UNCHANGED <<messages, calls>>
  PROVE  /\ messages' \in Seq(Message) /\ calls' \in Seq(Call)
         /\ CallsHaveRequests' /\ TopicsKept
         /\ \A q \in Procs : Answered(q)' <=> Answered(q)
BY DEF StoreTypeOK, CallsHaveRequests, TopicsKept, Topic, Answered, CallsOf

----------------------------------------------------------------------------
(* The answer and the tables.                                              *)

\* The call of a request that is under way is its own.  It is completed only from the
\* commit on, by then a streamed response was completed, and who has a reply, or has
\* been sent the done event, has it completed.
AnsweredInv(p) ==
  /\ Answered(p) =>
       /\ chat[p].stage \in {"finish", "done", "off"}
       /\ chat[p].stage = "off" => req[p].answer # "none"
       /\ p \in Streams => req[p].end = "completed"
  /\ chat[p].reply # None \/ req[p].answer = "done" => Answered(p)
  /\ chat[p].stage \in {"history", "generate", "save", "finish"} =>
       chat[p].call \in DOMAIN calls /\ Topic(chat[p].call) = p

Inv ==
  /\ StoreTypeOK /\ ChatsOK /\ RequestsOK /\ CallsHaveRequests
  /\ \A p \in Procs : HandlerInv(p) /\ AnsweredInv(p)

\* What a step of request p does to the rest.
Kept(p) ==
  /\ StoreTypeOK' /\ CallsHaveRequests' /\ TopicsKept
  /\ ChatAlone(p) /\ RequestAlone(p)
  /\ \A q \in Procs \ {p} : Answered(q)' <=> Answered(q)

LEMMA OthersKeep ==
  ASSUME NEW p, Kept(p), NEW q \in Procs \ {p}, HandlerInv(q) /\ AnsweredInv(q)
  PROVE  HandlerInv(q)' /\ AnsweredInv(q)'
<1>1. chat'[q] = chat[q] /\ req'[q] = req[q] /\ (Answered(q)' <=> Answered(q))
    BY DEF Kept, ChatAlone, RequestAlone
<1>2. HandlerInv(q)'
    BY <1>1 DEF HandlerInv, PlaceInv, SentInv, StreamInv
<1>3. PICK k : k = chat[q].call
    OBVIOUS
<1>4. k \in DOMAIN calls => k \in DOMAIN calls' /\ Topic(k)' = Topic(k)
    BY DEF Kept, TopicsKept
<1>5. chat'[q].call = k
    BY <1>1, <1>3
<1>6. chat[q].stage \in {"history", "generate", "save", "finish"} =>
        chat'[q].call \in DOMAIN calls' /\ Topic(chat[q].call)' = q
  <2>1. chat[q].stage \in {"history", "generate", "save", "finish"} =>
          k \in DOMAIN calls' /\ Topic(k)' = q
      BY <1>3, <1>4 DEF AnsweredInv
  <2> QED BY <1>5, <2>1 DEF Topic
<1> QED BY <1>1, <1>2, <1>6 DEF AnsweredInv

\* The same for p itself, when its call stays what it is.
LEMMA CallKept ==
  ASSUME NEW p, TopicsKept, chat'[p].call = chat[p].call,
         chat[p].call \in DOMAIN calls, Topic(chat[p].call) = p
  PROVE  chat'[p].call \in DOMAIN calls' /\ Topic(chat[p].call)' = p
<1>1. PICK k : k = chat[p].call
    OBVIOUS
<1>2. k \in DOMAIN calls' /\ Topic(k)' = p /\ chat'[p].call = k
    BY <1>1 DEF TopicsKept
<1> QED BY <1>2 DEF Topic

LEMMA ReceiveAnswers ==
  ASSUME Inv, NEW p \in Procs, Receive(p)
  PROVE  Kept(p) /\ AnsweredInv(p)'
<1>1. /\ chat[p].stage = "off" /\ req[p].answer = "none" /\ chat[p].reply = None
      /\ UNCHANGED <<convs, jobs, req>> /\ chat[p] \in ChatRecord /\ ~Answered(p)
    BY DEF Receive, Inv, ChatsOK, HandlerInv, PlaceInv, AnsweredInv
<1>2. CASE /\ InsertMessage(ReqConv[p], "user", p)
           /\ InsertRunningModelCall(Len(messages) + 1)
  <2>1. /\ messages' \in Seq(Message) /\ calls' \in Seq(Call)
        /\ CallsHaveRequests' /\ TopicsKept
        /\ \A n : n = Len(calls) + 1 => n \in DOMAIN calls' /\ Topic(n)' = p
        /\ \A q \in Procs : Answered(q)' <=> Answered(q)
      BY <1>2, QuestionStored DEF Inv
  <2>2. StoreTypeOK' /\ RequestAlone(p)
      BY <1>1, <2>1 DEF Inv, StoreTypeOK, RequestAlone
  <2>3. CASE chat' = [chat EXCEPT ![p].stage = "history", ![p].request = Len(messages) + 1,
                                  ![p].call = Len(calls) + 1]
    <3> DEFINE c == [chat[p] EXCEPT !.stage = "history", !.request = Len(messages) + 1,
                                    !.call = Len(calls) + 1]
    <3>1. chat' = [chat EXCEPT ![p] = c]
        BY <1>1, <2>3 DEF Inv, ChatsOK
    <3>2. c.stage = "history" /\ c.call = Len(calls) + 1 /\ c.reply = chat[p].reply
        BY <1>1 DEF ChatRecord
    <3> HIDE DEF c
    <3>3. chat'[p] = c /\ ChatAlone(p)
        BY <3>1 DEF Inv, ChatsOK, ChatAlone
    <3>4. PICK n : n = Len(calls) + 1
        OBVIOUS
    <3>5. chat'[p].call = n /\ n \in DOMAIN calls' /\ Topic(n)' = p
        BY <2>1, <3>2, <3>3, <3>4
    <3>6. Topic(chat[p].call)' = p
        BY <3>5 DEF Topic
    <3> QED BY <1>1, <2>1, <2>2, <3>2, <3>3, <3>5, <3>6 DEF Kept, AnsweredInv
  <2>4. ASSUME NEW cause, Abandon(p, cause)
        PROVE  Kept(p) /\ AnsweredInv(p)'
    <3>1. chat'[p].reply = chat[p].reply /\ ChatAlone(p) /\ chat'[p].stage = "done"
        BY <1>1, <2>4, StageMoves DEF Inv, ChatsOK, Abandon, ChatRecord
    <3> QED BY <1>1, <2>1, <2>2, <3>1 DEF Kept, AnsweredInv
  <2> QED BY <2>3, <2>4 DEF Receive
<1>3. ASSUME UNCHANGED <<messages, calls>>, NEW cause, Abandon(p, cause)
      PROVE  Kept(p) /\ AnsweredInv(p)'
  <2>1. CallsHaveRequests' /\ TopicsKept /\ \A q \in Procs : Answered(q)' <=> Answered(q)
      BY <1>3, NothingStored DEF Inv
  <2>2. chat'[p].reply = chat[p].reply /\ ChatAlone(p) /\ chat'[p].stage = "done"
      BY <1>1, <1>3, StageMoves DEF Inv, ChatsOK, Abandon, ChatRecord
  <2>3. StoreTypeOK' /\ RequestAlone(p)
      BY <1>1, <1>3 DEF Inv, StoreTypeOK, RequestAlone
  <2> QED BY <1>1, <2>1, <2>2, <2>3 DEF Kept, AnsweredInv
<1>4. ReqConv[p] \in Convs
    OBVIOUS
<1> QED BY <1>2, <1>3 DEF Receive

LEMMA BetweenAnswers ==
  ASSUME Inv, NEW p \in Procs, Between(p), Good(p)'
  PROVE  Kept(p) /\ AnsweredInv(p)'
<1>1. /\ chat[p].stage \in {"history", "generate"}
      /\ UNCHANGED storeVars
      /\ Moves(p) /\ ChatAlone(p) /\ RequestAlone(p)
    BY BetweenMoves DEF Inv
<1>2. StoreTypeOK' /\ CallsHaveRequests' /\ TopicsKept
      /\ \A q \in Procs : Answered(q)' <=> Answered(q)
    BY <1>1, NothingStored DEF Inv, StoreTypeOK, storeVars
<1>3. ~Answered(p) /\ chat[p].call \in DOMAIN calls /\ Topic(chat[p].call) = p
      /\ chat[p].reply = None /\ req[p].answer # "done"
    BY <1>1 DEF Inv, AnsweredInv
<1>4. chat'[p].call \in DOMAIN calls' /\ Topic(chat[p].call)' = p
    BY <1>1, <1>2, <1>3, CallKept DEF Moves
<1> QED BY <1>1, <1>2, <1>3, <1>4 DEF Kept, AnsweredInv, Moves

LEMMA SaveAnswers ==
  ASSUME Inv, NEW p \in Procs, Save(p)
  PROVE  Kept(p) /\ AnsweredInv(p)'
<1>1. /\ chat[p].stage = "save" /\ UNCHANGED <<convs, jobs, req>> /\ chat[p] \in ChatRecord
      /\ chat[p].call \in DOMAIN calls /\ Topic(chat[p].call) = p
      /\ chat[p].reply = None /\ req[p].answer = "none" /\ ~Answered(p)
      /\ p \in Streams => req[p].end = "completed"
    BY DEF Save, SaveReply, Inv, ChatsOK, HandlerInv, PlaceInv, StreamInv, AnsweredInv
<1>2. RequestAlone(p)
    BY <1>1 DEF RequestAlone
<1>3. ASSUME NEW cause, FailWith(p, cause)
      PROVE  /\ chat'[p].call = chat[p].call /\ chat'[p].reply = chat[p].reply
             /\ ChatAlone(p) /\ chat'[p].stage = "finish"
    BY <1>1, <1>3, StageMoves DEF Inv, ChatsOK, FailWith, ChatRecord
<1>4. CASE LiveCall(chat[p].call) /\ InsertReplyAndCompleteModelCall(chat[p].call)
  <2>1. /\ messages' \in Seq(Message) /\ calls' \in Seq(Call)
        /\ CallsHaveRequests' /\ TopicsKept /\ Answered(p)'
        /\ \A q \in Procs \ {p} : Answered(q)' <=> Answered(q)
    <3>1. PICK n : n = chat[p].call
        OBVIOUS
    <3> QED BY <1>1, <1>4, <3>1, ReplyStored DEF Inv
  <2>2. StoreTypeOK'
      BY <1>1, <2>1 DEF Inv, StoreTypeOK
  <2>3. CASE chat' = [chat EXCEPT ![p].stage = "done", ![p].reply = Len(messages) + 1]
    <3>1. chat'[p].stage = "done" /\ ChatAlone(p)
        BY <1>1, <2>3 DEF Inv, ChatsOK, ChatRecord, ChatAlone
    <3> QED BY <1>1, <1>2, <2>1, <2>2, <3>1 DEF Kept, AnsweredInv
  <2>4. ASSUME NEW cause, FailWith(p, cause)
        PROVE  Kept(p) /\ AnsweredInv(p)'
    <3>1. chat'[p].call \in DOMAIN calls' /\ Topic(chat[p].call)' = p
        BY <1>1, <1>3, <2>1, <2>4, CallKept
    <3> QED BY <1>1, <1>2, <1>3, <2>1, <2>2, <2>4, <3>1 DEF Kept, AnsweredInv
  <2> QED BY <2>3, <2>4 DEF Save, SaveReply
<1>5. ASSUME NEW cause, FailWith(p, cause), UNCHANGED <<messages, calls>>
      PROVE  Kept(p) /\ AnsweredInv(p)'
  <2>1. CallsHaveRequests' /\ TopicsKept /\ \A q \in Procs : Answered(q)' <=> Answered(q)
      BY <1>5, NothingStored DEF Inv
  <2>2. chat'[p].call \in DOMAIN calls' /\ Topic(chat[p].call)' = p
      BY <1>1, <1>3, <1>5, <2>1, CallKept
  <2>3. StoreTypeOK'
      BY <1>1, <1>5 DEF Inv, StoreTypeOK
  <2> QED BY <1>1, <1>2, <1>3, <1>5, <2>1, <2>2, <2>3 DEF Kept, AnsweredInv
<1> QED BY <1>4, <1>5 DEF Save, SaveReply

LEMMA FinishAnswers ==
  ASSUME Inv, NEW p \in Procs, Finish(p)
  PROVE  Kept(p) /\ AnsweredInv(p)'
<1>1. /\ chat[p].stage = "finish" /\ UNCHANGED <<convs, messages, jobs, req>>
      /\ chat[p] \in ChatRecord /\ chat[p].cause \in Causes /\ chat[p].reply = None
      /\ req[p].answer = "none"
    BY DEF Finish, FinishCall, Inv, ChatsOK, HandlerInv, PlaceInv
<1>2. chat'[p].reply = chat[p].reply /\ ChatAlone(p) /\ chat'[p].stage = "done"
  <2>1. CASE Goto(p, "done")
      BY <1>1, <2>1, StageMoves DEF Inv, ChatsOK, Goto, ChatRecord
  <2>2. ASSUME NEW cause, Abandon(p, cause)
        PROVE  chat'[p].reply = chat[p].reply /\ ChatAlone(p) /\ chat'[p].stage = "done"
      BY <1>1, <2>2, StageMoves DEF Inv, ChatsOK, Abandon, ChatRecord
  <2> QED BY <2>1, <2>2 DEF Finish, FinishCall
<1>3. /\ messages' \in Seq(Message) /\ calls' \in Seq(Call)
      /\ CallsHaveRequests' /\ TopicsKept
      /\ \A q \in Procs : Answered(q)' <=> Answered(q)
  <2>1. CASE UNCHANGED calls
      BY <1>1, <2>1, NothingStored DEF Inv
  <2>2. CASE LiveCall(chat[p].call) /\ FinishModelCall(chat[p].call, chat[p].cause)
    <3>1. PICK n, cause : n = chat[p].call /\ cause = chat[p].cause
        OBVIOUS
    <3> QED BY <1>1, <2>2, <3>1, FailureStored DEF Inv
  <2> QED BY <2>1, <2>2 DEF Finish, FinishCall
<1>4. StoreTypeOK' /\ RequestAlone(p)
    BY <1>1, <1>3 DEF Inv, StoreTypeOK, RequestAlone
<1> QED BY <1>1, <1>2, <1>3, <1>4 DEF Inv, Kept, AnsweredInv

LEMMA ReplyAnswers ==
  ASSUME Inv, NEW p \in Procs, Reply(p)
  PROVE  Kept(p) /\ AnsweredInv(p)'
<1>1. /\ chat[p].stage = "done" /\ UNCHANGED storeVars /\ req[p] \in Request
      /\ chat' = [chat EXCEPT ![p] = NoChat]
    BY DEF Reply, Keeps, Inv, RequestsOK
<1>2. NoChat.stage = "off" /\ NoChat.reply = None
    BY DEF NoChat
<1>3. chat'[p] = NoChat /\ ChatAlone(p)
    BY <1>1 DEF Inv, ChatsOK, ChatAlone
<1>4. PICK answer \in {"done", "error"} :
        /\ req' = [req EXCEPT ![p].answer = answer, ![p].ctx = "live"]
        /\ answer = "done" => chat[p].reply # None
    BY DEF Reply
<1> DEFINE r == [req[p] EXCEPT !.answer = answer, !.ctx = "live"]
<1>5. r.answer = answer /\ r.end = req[p].end /\ req' = [req EXCEPT ![p] = r]
    BY <1>1, <1>4 DEF Inv, RequestsOK, Request
<1> HIDE DEF r
<1>6. req'[p] = r /\ RequestAlone(p)
    BY <1>5 DEF Inv, RequestsOK, RequestAlone
<1>7. StoreTypeOK' /\ CallsHaveRequests' /\ TopicsKept
      /\ \A q \in Procs : Answered(q)' <=> Answered(q)
    BY <1>1, NothingStored DEF Inv, StoreTypeOK, storeVars
<1>8. /\ Answered(p) => (p \in Streams => req[p].end = "completed")
      /\ chat[p].reply # None => Answered(p)
    BY DEF Inv, AnsweredInv
<1> QED BY <1>2, <1>3, <1>4, <1>5, <1>6, <1>7, <1>8 DEF Kept, AnsweredInv

LEMMA DisturbedAnswers ==
  ASSUME Inv, NEW p \in Procs, ClientLeaves(p) \/ Expire(p) \/ UpstreamEnds(p)
  PROVE  Kept(p) /\ AnsweredInv(p)'
<1>1. UNCHANGED <<storeVars, chat>> /\ ChatAlone(p) /\ req[p] \in Request
    BY DEF ClientLeaves, Expire, UpstreamEnds, EndContext, chatVars, ChatAlone, Inv, RequestsOK
<1>2. StoreTypeOK' /\ CallsHaveRequests' /\ TopicsKept
      /\ \A q \in Procs : Answered(q)' <=> Answered(q)
    BY <1>1, NothingStored DEF Inv, StoreTypeOK, storeVars
<1>3. chat[p].call \in DOMAIN calls /\ Topic(chat[p].call) = p => Topic(chat[p].call)' = p
    BY <1>1, <1>2, CallKept
<1>4. RequestAlone(p) /\ req'[p].answer = req[p].answer
      /\ (req'[p].end = req[p].end \/ chat[p].stage = "generate")
  <2>1. CASE ClientLeaves(p) \/ Expire(p)
    <3>1. PICK how : req' = [req EXCEPT ![p].ctx = how]
        BY <2>1 DEF ClientLeaves, Expire, EndContext
    <3> DEFINE r == [req[p] EXCEPT !.ctx = how]
    <3>2. req' = [req EXCEPT ![p] = r] /\ r.answer = req[p].answer /\ r.end = req[p].end
        BY <1>1, <3>1 DEF Inv, RequestsOK, Request
    <3> HIDE DEF r
    <3>3. req'[p] = r
        BY <3>2 DEF Inv, RequestsOK
    <3> QED BY <3>2, <3>3, RequestMoves DEF Inv
  <2>2. CASE UpstreamEnds(p)
    <3>1. PICK e : req' = [req EXCEPT ![p].end = e]
        BY <2>2 DEF UpstreamEnds
    <3> DEFINE r == [req[p] EXCEPT !.end = e]
    <3>2. req' = [req EXCEPT ![p] = r] /\ r.answer = req[p].answer
        BY <1>1, <3>1 DEF Inv, RequestsOK, Request
    <3> QED BY <2>2, <3>2, RequestMoves DEF Inv, UpstreamEnds, InRound
  <2> QED BY <2>1, <2>2
<1>5. Answered(p) => chat[p].stage # "generate"
    BY DEF Inv, AnsweredInv
<1>6. AnsweredInv(p)'
  <2>1. UNCHANGED <<calls, chat>>
      BY <1>1 DEF storeVars
  <2> QED BY <1>2, <1>3, <1>4, <1>5, <2>1 DEF Inv, AnsweredInv
<1> QED BY <1>1, <1>2, <1>4, <1>6 DEF Kept

LEMMA RequestStepKeeps ==
  ASSUME Inv, NEW p \in Procs, RequestStep(p)
  PROVE  Inv'
<1>1. Good(p)
    BY DEF Inv, Good
<1>2. Good(p)'
    BY <1>1, RequestStepIsGood DEF Inv
<1>3. Kept(p) /\ AnsweredInv(p)'
    BY <1>2, ReceiveAnswers, BetweenAnswers, SaveAnswers, FinishAnswers, ReplyAnswers,
       DisturbedAnswers DEF RequestStep, Serve, Between
<1>4. \A q \in Procs \ {p} : HandlerInv(q)' /\ AnsweredInv(q)'
    BY <1>3, OthersKeep DEF Inv
<1> QED BY <1>2, <1>3, <1>4 DEF Inv, Good, Kept

----------------------------------------------------------------------------
(* The theorems.                                                           *)

LEMMA InitInv == Init => Inv
<1> SUFFICES ASSUME Init PROVE Inv
    OBVIOUS
<1>1. messages = <<>> /\ calls = <<>> /\ StoreTypeOK
  <2>1. [status |-> "absent", attempts |-> 0, request |-> None, assistant |-> None,
         error |-> ""] \in Job
      BY DEF Job, JobStatus, ErrorCodes, None
  <2>2. <<>> \in Seq(Message) /\ <<>> \in Seq(Call)
      BY EmptySeq
  <2>3. jobs \in [Jobs -> Job]
      BY <2>1 DEF Init, StoreInit
  <2> QED BY <2>2, <2>3 DEF Init, StoreInit, StoreTypeOK
<1>2. CallsHaveRequests /\ \A p \in Procs : ~Answered(p)
    BY <1>1 DEF CallsHaveRequests, Answered, CallsOf
<1>3. NoChat \in ChatRecord /\ NoChat.stage = "off" /\ NoChat.reply = None
    BY DEF NoChat, ChatRecord, ChatStage, None
<1>4. ChatsOK /\ \A p \in Procs : chat[p] = NoChat
    BY <1>3 DEF Init, ChatInit, ChatsOK
<1>5. /\ NewRequest \in Request /\ NewRequest.answer = "none" /\ NewRequest.round = "none"
      /\ NewRequest.text = <<>> /\ NewRequest.sent = <<>>
    BY EmptyText DEF NewRequest, Request, Ends
<1>6. RequestsOK /\ \A p \in Procs : req[p] = NewRequest
    BY <1>5 DEF Init, RequestsOK
<1>7. \A p \in Procs : HandlerInv(p)
    BY <1>3, <1>4, <1>5, <1>6 DEF HandlerInv, PlaceInv, SentInv, StreamInv
<1>8. \A p \in Procs : AnsweredInv(p)
    BY <1>2, <1>3, <1>4, <1>5, <1>6 DEF AnsweredInv
<1> QED BY <1>1, <1>2, <1>4, <1>6, <1>7, <1>8 DEF Inv

LEMMA NextInv == Inv /\ [Next]_vars => Inv'
<1> SUFFICES ASSUME Inv, [Next]_vars PROVE Inv'
    OBVIOUS
<1>1. CASE UNCHANGED <<messages, calls, chat, req>> /\ StoreTypeOK'
  <2>1. CallsHaveRequests' /\ \A q \in Procs : Answered(q)' <=> Answered(q)
      BY <1>1, NothingStored DEF Inv
  <2>2. ChatsOK' /\ RequestsOK' /\ \A p \in Procs : HandlerInv(p)'
      BY <1>1 DEF Inv, ChatsOK, RequestsOK, HandlerInv, PlaceInv, SentInv, StreamInv
  <2>3. \A p \in Procs : AnsweredInv(p)'
      BY <1>1, <2>1 DEF Inv, AnsweredInv, Topic
  <2> QED BY <1>1, <2>1, <2>2, <2>3 DEF Inv
<1>2. ASSUME NEW c \in Convs, DeleteConversation(c)
      PROVE  Inv'
  <2>1. jobs \in [Jobs -> Job]
      BY DEF Inv, StoreTypeOK
  <2>2. \A j \in Jobs : [jobs[j] EXCEPT !.status = "deleted"] \in Job
      BY <2>1 DEF Job, JobStatus
  <2>3. jobs' \in [Jobs -> Job]
      BY <1>2, <2>1, <2>2 DEF DeleteConversation, DeleteConversationRow
  <2>4. StoreTypeOK'
      BY <1>2, <2>3 DEF Inv, StoreTypeOK, DeleteConversation, DeleteConversationRow
  <2> QED BY <1>1, <1>2, <2>4 DEF DeleteConversation, chatVars
<1>3. CASE UNCHANGED vars
    BY <1>1, <1>3 DEF Inv, StoreTypeOK, vars, storeVars, chatVars
<1> QED BY <1>2, <1>3, Steps, RequestStepKeeps

\* What a streaming client sees comes from one round of the model, and planning text
\* only from a round that asked for no tool.
THEOREM OneRoundShown == Spec => []OneRoundIsShown
<1>1. Inv => OneRoundIsShown
  <2> SUFFICES ASSUME Inv, NEW p \in Procs
               PROVE  /\ \A i, k \in DOMAIN req[p].sent : req[p].sent[i] = req[p].sent[k]
                      /\ \A i \in DOMAIN req[p].sent :
                           req[p].sent[i] = "plan" => req[p].round = "forward"
      BY DEF OneRoundIsShown
  <2>1. req[p] \in Request /\ SentInv(p)
      BY DEF Inv, RequestsOK, HandlerInv
  <2>2. DOMAIN <<>> = {}
      BY EmptyText
  <2> QED BY <2>1, <2>2 DEF Request, SentInv, All
<1> QED BY <1>1, InitInv, NextInv, PTL DEF Spec

\* The done event, or the 200, comes after the commit of the reply and the completed
\* call, and closes exactly the text that is stored.
THEOREM DoneMeansStored == Spec => []DoneIsStored
<1>1. Inv => DoneIsStored
    BY DEF Inv, DoneIsStored, AnsweredInv, HandlerInv, StreamInv
<1> QED BY <1>1, InitInv, NextInv, PTL DEF Spec

\* A stream that breaks off, or that upstream declares incomplete, is not stored.
THEOREM TruncatedIsNotStored == Spec => []TruncatedStreamIsNotStored
<1>1. Inv => TruncatedStreamIsNotStored
    BY DEF Inv, TruncatedStreamIsNotStored, AnsweredInv
<1> QED BY <1>1, InitInv, NextInv, PTL DEF Spec

----------------------------------------------------------------------------
(* Whole turns.                                                            *)

\* What a request writes: its question with a call, a reply that completes a call, or the
\* end of a call that failed.
LEMMA TableWrites ==
  ASSUME Inv, NEW p \in Procs, RequestStep(p)
  PROVE  \/ UNCHANGED <<messages, calls>>
         \/ /\ Receive(p)
            /\ InsertMessage(ReqConv[p], "user", p)
            /\ InsertRunningModelCall(Len(messages) + 1)
         \/ /\ Save(p)
            /\ LiveCall(chat[p].call)
            /\ InsertReplyAndCompleteModelCall(chat[p].call)
         \/ /\ Finish(p)
            /\ UNCHANGED messages
            /\ LiveCall(chat[p].call)
            /\ FinishModelCall(chat[p].call, chat[p].cause)
<1>1. CASE Receive(p)
    BY <1>1 DEF Receive
<1>2. CASE Between(p)
    BY <1>2, BetweenMoves DEF Inv, storeVars
<1>3. CASE Save(p)
    BY <1>3 DEF Save, SaveReply
<1>4. CASE Finish(p)
    BY <1>4 DEF Finish, FinishCall
<1>5. CASE Reply(p) \/ ClientLeaves(p) \/ Expire(p) \/ UpstreamEnds(p)
    BY <1>5 DEF Reply, Keeps, ClientLeaves, Expire, UpstreamEnds, EndContext, storeVars
<1> QED BY <1>1, <1>2, <1>3, <1>4, <1>5 DEF RequestStep, Serve, Between

\* The call that a question has, and no other.
OneCall(m) ==
  \E k \in DOMAIN calls : /\ calls[k].request = m
                          /\ \A i \in DOMAIN calls : calls[i].request = m => i = k

\* The completed call that a reply belongs to.
RepliesTo(k, m) ==
  /\ calls[k].status = "completed" /\ calls[k].assistant = m
  /\ calls[k].request < m /\ messages[calls[k].request].conv = messages[m].conv

WholeInv ==
  \A m \in DOMAIN messages :
    /\ messages[m].role = "user" => OneCall(m)
    /\ messages[m].role = "assistant" => \E k \in DOMAIN calls : RepliesTo(k, m)

\* Replies keep their calls while only running calls change.
LEMMA RepliesKept ==
  ASSUME StoreTypeOK, CallsHaveRequests, WholeInv,
         \A i \in DOMAIN messages : i \in DOMAIN messages' /\ messages'[i] = messages[i],
         \A i \in DOMAIN calls : /\ i \in DOMAIN calls'
                                 /\ calls'[i] = calls[i] \/ calls[i].status = "running",
         NEW m \in DOMAIN messages, messages[m].role = "assistant"
  PROVE  \E k \in DOMAIN calls' : RepliesTo(k, m)'
<1>1. PICK k \in DOMAIN calls : RepliesTo(k, m)
    BY DEF WholeInv
<1>2. k \in DOMAIN calls' /\ calls'[k] = calls[k] /\ calls[k].request \in DOMAIN messages
    BY <1>1 DEF RepliesTo, CallsHaveRequests
<1>3. RepliesTo(k, m)'
    BY <1>1, <1>2 DEF RepliesTo
<1> QED BY <1>2, <1>3

\* Questions keep their calls while the calls that are added are for other messages.
LEMMA QuestionsKept ==
  ASSUME NEW m, OneCall(m),
         \A i \in DOMAIN calls : i \in DOMAIN calls' /\ calls'[i].request = calls[i].request,
         \A i \in DOMAIN calls' : i \in DOMAIN calls \/ calls'[i].request # m
  PROVE  OneCall(m)'
<1>1. PICK k \in DOMAIN calls : /\ calls[k].request = m
                                /\ \A i \in DOMAIN calls : calls[i].request = m => i = k
    BY DEF OneCall
<1>2. k \in DOMAIN calls' /\ calls'[k].request = m
    BY <1>1
<1>3. \A i \in DOMAIN calls' : calls'[i].request = m => i = k
    BY <1>1
<1> QED BY <1>2, <1>3 DEF OneCall

LEMMA WholeStep == Inv /\ WholeInv /\ [Next]_vars => WholeInv'
<1> SUFFICES ASSUME Inv, WholeInv, [Next]_vars
             PROVE  WholeInv'
    OBVIOUS
<1>0. /\ StoreTypeOK /\ CallsHaveRequests /\ messages \in Seq(Message) /\ calls \in Seq(Call)
    BY DEF Inv, StoreTypeOK
<1>1. CASE UNCHANGED <<messages, calls>>
    BY <1>1 DEF WholeInv, OneCall, RepliesTo
<1>2. ASSUME NEW c \in Convs, NEW p \in Procs, InsertMessage(c, "user", p),
             InsertRunningModelCall(Len(messages) + 1)
      PROVE  WholeInv'
  <2>0. PICK q : q = Len(messages) + 1
      OBVIOUS
  <2>1. /\ DOMAIN messages' = DOMAIN messages \cup {q}
        /\ q \notin DOMAIN messages
        /\ \A i \in DOMAIN messages : messages'[i] = messages[i]
        /\ messages'[q].role = "user"
    <3>1. [conv |-> c, role |-> "user", topic |-> p] \in Message
        BY DEF Message, Roles
    <3> QED BY <1>0, <1>2, <2>0, <3>1, RowAppended DEF InsertMessage
  <2>2. PICK n : /\ DOMAIN calls' = DOMAIN calls \cup {n}
                 /\ n \notin DOMAIN calls
                 /\ \A i \in DOMAIN calls : calls'[i] = calls[i]
                 /\ calls'[n].request = q
    <3>1. [request |-> q, status |-> "running", assistant |-> None] \in Call
        BY <1>0, <2>0, MessageRows DEF Call, None
    <3> QED BY <1>0, <1>2, <2>0, <3>1, RowAppended DEF InsertRunningModelCall
  <2>3. \A i \in DOMAIN calls : calls[i].request # q
      BY <1>0, <2>1 DEF CallsHaveRequests
  <2>4. OneCall(q)'
      BY <2>2, <2>3 DEF OneCall
  <2>5. ASSUME NEW m \in DOMAIN messages, messages[m].role = "user"
        PROVE  OneCall(m)'
    <3>1. OneCall(m) /\ m # q
        BY <2>1, <2>5 DEF WholeInv
    <3> QED BY <2>2, <3>1, QuestionsKept
  <2>6. ASSUME NEW m \in DOMAIN messages, messages[m].role = "assistant"
        PROVE  \E k \in DOMAIN calls' : RepliesTo(k, m)'
      BY <1>0, <2>1, <2>2, <2>6, RepliesKept
  <2> QED BY <2>1, <2>4, <2>5, <2>6 DEF WholeInv
\* A running call changes, whose request stays.
<1>3. ASSUME NEW n, LiveCall(n), NEW k, calls' = [calls EXCEPT ![n] = k],
             k.request = calls[n].request
      PROVE  /\ DOMAIN calls' = DOMAIN calls /\ n \in DOMAIN calls /\ calls'[n] = k
             /\ \A i \in DOMAIN calls : /\ calls'[i] = calls[i] \/ calls[i].status = "running"
                                        /\ calls'[i].request = calls[i].request
    BY <1>3 DEF LiveCall
<1>4. ASSUME NEW n, LiveCall(n), InsertReplyAndCompleteModelCall(n)
      PROVE  WholeInv'
  <2>0. PICK q : q = Len(messages) + 1
      OBVIOUS
  <2>1. /\ n \in DOMAIN calls /\ calls[n] \in Call /\ calls[n].request \in DOMAIN messages
        /\ messages[calls[n].request] \in Message
      BY <1>0, <1>4, CallRows, MessageRows DEF LiveCall, CallsHaveRequests
  <2>2. PICK c \in Convs, t \in Topics : /\ c = messages[calls[n].request].conv
                                         /\ InsertMessage(c, "assistant", t)
      BY <1>4, <2>1 DEF InsertReplyAndCompleteModelCall, Message
  <2>3. /\ DOMAIN messages' = DOMAIN messages \cup {q}
        /\ q \notin DOMAIN messages
        /\ \A i \in DOMAIN messages : messages'[i] = messages[i] /\ i < q
        /\ messages'[q].role = "assistant" /\ messages'[q].conv = c
    <3>1. [conv |-> c, role |-> "assistant", topic |-> t] \in Message
        BY DEF Message, Roles
    <3>2. \A i \in DOMAIN messages : i < q
        BY <1>0, <2>0, Rows
    <3> QED BY <1>0, <2>0, <2>2, <3>1, <3>2, RowAppended DEF InsertMessage
  <2>4. PICK k : /\ calls' = [calls EXCEPT ![n] = k] /\ k.request = calls[n].request
                 /\ k.status = "completed" /\ k.assistant = q
    <3> DEFINE k == [calls[n] EXCEPT !.status = "completed", !.assistant = Len(messages) + 1]
    <3>1. calls' = [calls EXCEPT ![n] = k]
        BY <1>0, <1>4, <2>1, CallRows DEF InsertReplyAndCompleteModelCall
    <3>2. k.request = calls[n].request /\ k.status = "completed" /\ k.assistant = q
        BY <2>0, <2>1 DEF Call
    <3> QED BY <3>1, <3>2
  <2>5. /\ DOMAIN calls' = DOMAIN calls /\ calls'[n] = k
        /\ \A i \in DOMAIN calls : /\ calls'[i] = calls[i] \/ calls[i].status = "running"
                                   /\ calls'[i].request = calls[i].request
      BY <1>3, <1>4, <2>4
  <2>6. RepliesTo(n, q)'
      BY <2>1, <2>2, <2>3, <2>4, <2>5 DEF RepliesTo
  <2>7. ASSUME NEW m \in DOMAIN messages, messages[m].role = "user"
        PROVE  OneCall(m)'
    <3>1. OneCall(m)
        BY <2>7 DEF WholeInv
    <3> QED BY <2>5, <3>1, QuestionsKept
  <2>8. ASSUME NEW m \in DOMAIN messages, messages[m].role = "assistant"
        PROVE  \E i \in DOMAIN calls' : RepliesTo(i, m)'
      BY <1>0, <2>3, <2>5, <2>8, RepliesKept
  <2> QED BY <2>1, <2>3, <2>5, <2>6, <2>7, <2>8 DEF WholeInv
<1>5. ASSUME NEW n, LiveCall(n), NEW cause, FinishModelCall(n, cause), UNCHANGED messages
      PROVE  WholeInv'
  <2>1. n \in DOMAIN calls /\ calls[n] \in Call
      BY <1>0, <1>5, CallRows DEF LiveCall
  <2>2. PICK k : calls' = [calls EXCEPT ![n] = k] /\ k.request = calls[n].request
    <3> DEFINE k == [calls[n] EXCEPT !.status = cause]
    <3>1. calls' = [calls EXCEPT ![n] = k]
        BY <1>0, <1>5, <2>1, CallRows DEF FinishModelCall
    <3>2. k.request = calls[n].request
        BY <2>1 DEF Call
    <3> QED BY <3>1, <3>2
  <2>3. /\ DOMAIN calls' = DOMAIN calls
        /\ \A i \in DOMAIN calls : /\ calls'[i] = calls[i] \/ calls[i].status = "running"
                                   /\ calls'[i].request = calls[i].request
      BY <1>3, <1>5, <2>2
  <2>4. ASSUME NEW m \in DOMAIN messages, messages[m].role = "user"
        PROVE  OneCall(m)'
    <3>1. OneCall(m)
        BY <2>4 DEF WholeInv
    <3> QED BY <2>3, <3>1, QuestionsKept
  <2>5. ASSUME NEW m \in DOMAIN messages, messages[m].role = "assistant"
        PROVE  \E i \in DOMAIN calls' : RepliesTo(i, m)'
      BY <1>0, <1>5, <2>3, <2>5, RepliesKept
  <2> QED BY <1>5, <2>4, <2>5 DEF WholeInv
<1>6. ASSUME NEW p \in Procs, RequestStep(p)
      PROVE  WholeInv'
  <2>1. ReqConv[p] \in Convs
      OBVIOUS
  <2>2. PICK n, cause : n = chat[p].call /\ cause = chat[p].cause
      OBVIOUS
  <2> QED BY <1>1, <1>2, <1>4, <1>5, <1>6, <2>1, <2>2, TableWrites
<1>7. ASSUME NEW c \in Convs, DeleteConversation(c)
      PROVE  WholeInv'
    BY <1>1, <1>7 DEF DeleteConversation
<1>8. CASE UNCHANGED vars
    BY <1>1, <1>8 DEF vars, storeVars
<1> QED BY <1>6, <1>7, <1>8, Steps

\* Question and call, and reply and completion, come in pairs: a question has one call, and
\* a reply belongs to one completed call for an earlier question of its conversation.
THEOREM TurnsStayWhole == Spec => []TurnsAreWhole
<1>1. Init => WholeInv
  <2> SUFFICES ASSUME Init
               PROVE  WholeInv
      OBVIOUS
  <2>1. messages = <<>>
      BY DEF Init, StoreInit
  <2>2. DOMAIN messages = {}
      BY <2>1
  <2> QED BY <2>2 DEF WholeInv
<1>2. WholeInv => TurnsAreWhole
  <2> SUFFICES ASSUME WholeInv
               PROVE  TurnsAreWhole
      OBVIOUS
  <2>1. ASSUME NEW m \in DOMAIN messages, messages[m].role = "user"
        PROVE  Cardinality({k \in DOMAIN calls : calls[k].request = m}) = 1
    <3>1. PICK k \in DOMAIN calls : /\ calls[k].request = m
                                    /\ \A i \in DOMAIN calls : calls[i].request = m => i = k
        BY <2>1 DEF WholeInv, OneCall
    <3>2. {i \in DOMAIN calls : calls[i].request = m} = {k}
        BY <3>1
    <3> QED BY <3>2, FS_Singleton
  <2>2. \A m \in DOMAIN messages : messages[m].role = "assistant" =>
          \E k \in DOMAIN calls :
            /\ calls[k].status = "completed" /\ calls[k].assistant = m
            /\ calls[k].request < m /\ messages[calls[k].request].conv = messages[m].conv
      BY DEF WholeInv, RepliesTo
  <2> QED BY <2>1, <2>2, Zenon DEF TurnsAreWhole
<1> QED BY <1>1, <1>2, InitInv, NextInv, WholeStep, PTL DEF Spec

----------------------------------------------------------------------------
(* Replies behind an error.                                                *)

\* A reply is stored for p, and p has not been and will not be sent the done event.
Hides(p) == Answered(p) /\ chat[p].reply = None /\ req[p].answer # "done"

Hidden == {p \in Procs : Hides(p)}

HiddenInv ==
  failures \in Nat /\ IsFiniteSet(Hidden) /\ Cardinality(Hidden) <= failures

\* No step but the commit of a reply makes a request answered.
LEMMA OnlySaveAnswers ==
  ASSUME Inv, NEW p \in Procs, RequestStep(p), ~Save(p)
  PROVE  \A q \in Procs : Answered(q)' <=> Answered(q)
<1>1. CASE UNCHANGED <<messages, calls>>
    BY <1>1, NothingStored DEF Inv
<1>2. CASE InsertMessage(ReqConv[p], "user", p) /\ InsertRunningModelCall(Len(messages) + 1)
    BY <1>2, QuestionStored DEF Inv
<1>3. CASE /\ Finish(p) /\ UNCHANGED messages
           /\ LiveCall(chat[p].call) /\ FinishModelCall(chat[p].call, chat[p].cause)
  <2>1. PICK n, cause : n = chat[p].call /\ cause = chat[p].cause
      OBVIOUS
  <2>2. cause \in Causes
      BY <1>3, <2>1 DEF Finish, FinishCall, Inv, ChatsOK
  <2> QED BY <1>3, <2>1, <2>2, FailureStored DEF Inv
<1> QED BY <1>1, <1>2, <1>3, TableWrites

LEMMA StepKept ==
  ASSUME Inv, NEW p \in Procs, RequestStep(p)
  PROVE  Kept(p)
<1>1. Good(p)'
    BY RequestStepIsGood DEF Inv, Good
<1> QED BY <1>1, ReceiveAnswers, BetweenAnswers, SaveAnswers, FinishAnswers, ReplyAnswers,
       DisturbedAnswers DEF RequestStep, Serve, Between

LEMMA FailuresGrow ==
  ASSUME failures \in Nat, NEW p \in Procs, RequestStep(p)
  PROVE  failures' \in Nat /\ failures' >= failures
<1>1. UNCHANGED failures \/ failures' = failures + 1
  <2>1. CASE Receive(p)
      BY <2>1 DEF Receive, Failure, NoFailure
  <2>2. CASE Between(p) \/ Reply(p)
      BY <2>2 DEF Between, Prepare, LoadHistory, Delta, StreamEnds, ResponseArrives, Forward,
                  CallTool, Reply, Keeps
  <2>3. CASE Save(p)
      BY <2>3 DEF Save, SaveReply, Failure, NoFailure
  <2>4. CASE Finish(p)
      BY <2>4 DEF Finish, FinishCall, Failure, NoFailure
  <2>5. CASE ClientLeaves(p) \/ Expire(p) \/ UpstreamEnds(p)
      BY <2>5 DEF ClientLeaves, Expire, UpstreamEnds, EndContext, chatVars
  <2> QED BY <2>1, <2>2, <2>3, <2>4, <2>5 DEF RequestStep, Serve, Between
<1> QED BY <1>1

\* A reply gets hidden only by a commit whose result is lost.
LEMMA HiddenByFailure ==
  ASSUME Inv, NEW p \in Procs, RequestStep(p), Hides(p)'
  PROVE  Hides(p) \/ failures' = failures + 1
<1>0. /\ chat[p] \in ChatRecord /\ req[p] \in Request
      /\ chat[p].stage # "off" => req[p].answer = "none"
      /\ chat[p].reply # None => chat[p].stage = "done"
      /\ Answered(p) => /\ chat[p].stage \in {"finish", "done", "off"}
                        /\ chat[p].stage = "off" => req[p].answer # "none"
    BY DEF Inv, ChatsOK, RequestsOK, HandlerInv, PlaceInv, AnsweredInv
<1>1. CASE Save(p)
  <2>1. /\ chat[p].stage = "save" /\ ~Answered(p) /\ Len(messages) \in Nat
      BY <1>0, <1>1, MessageRows DEF Save, SaveReply, Inv
  <2>2. CASE UNCHANGED <<messages, calls>>
    <3>1. Answered(p)' <=> Answered(p)
        BY <2>2, NothingStored DEF Inv
    <3> QED BY <2>1, <3>1 DEF Hides
  <2>3. CASE chat' = [chat EXCEPT ![p].stage = "done", ![p].reply = Len(messages) + 1]
    <3>1. chat'[p].reply = Len(messages) + 1
        BY <1>0, <2>3 DEF Inv, ChatsOK, ChatRecord
    <3> QED BY <2>1, <3>1 DEF Hides, None
  <2> QED BY <1>1, <2>2, <2>3 DEF Save, SaveReply, Failure
<1>2. ASSUME ~Save(p) PROVE Answered(p)
    BY <1>2, OnlySaveAnswers DEF Hides
<1>3. CASE Receive(p) \/ Between(p)
  <2>1. \/ chat[p].stage \in {"history", "generate"}
        \/ chat[p].stage = "off" /\ req[p].answer = "none"
      BY <1>3, BetweenMoves DEF Receive, Inv
  <2> QED BY <1>0, <1>2, <1>3, <2>1, <1>1
<1>4. CASE Finish(p)
  <2>1. chat[p].stage = "finish" /\ ~Save(p)
      BY <1>4 DEF Finish, FinishCall, Save, SaveReply
  <2> QED BY <1>0, <1>2, <2>1 DEF Hides
<1>5. CASE Reply(p)
  <2>1. chat[p].stage = "done" /\ ~Save(p)
      BY <1>5 DEF Reply, Save, SaveReply
  <2>2. chat[p].reply # None => req'[p].answer = "done"
    <3>1. ASSUME chat[p].reply # None
          PROVE  req' = [req EXCEPT ![p].answer = "done", ![p].ctx = "live"]
        BY <1>5, <3>1 DEF Reply
    <3> QED BY <1>0, <3>1 DEF Inv, RequestsOK, Request
  <2> QED BY <1>0, <1>2, <2>1, <2>2 DEF Hides
<1>6. CASE ClientLeaves(p) \/ Expire(p) \/ UpstreamEnds(p)
  <2>1. chat' = chat /\ UNCHANGED <<messages, calls>>
      BY <1>6 DEF ClientLeaves, Expire, UpstreamEnds, EndContext, chatVars, storeVars
  <2>2. ASSUME NEW r, req' = [req EXCEPT ![p] = r], r.answer = req[p].answer
        PROVE  req'[p].answer = req[p].answer
      BY <2>2 DEF Inv, RequestsOK
  <2>3. ASSUME NEW x, req' = [req EXCEPT ![p].ctx = x] \/ req' = [req EXCEPT ![p].end = x]
        PROVE  req'[p].answer = req[p].answer
    <3>1. /\ [req[p] EXCEPT !.ctx = x].answer = req[p].answer
          /\ [req[p] EXCEPT !.end = x].answer = req[p].answer
        BY <1>0 DEF Request
    <3>2. \/ req' = [req EXCEPT ![p] = [req[p] EXCEPT !.ctx = x]]
          \/ req' = [req EXCEPT ![p] = [req[p] EXCEPT !.end = x]]
        BY <2>3 DEF Inv, RequestsOK
    <3> QED BY <2>2, <3>1, <3>2
  <2>4. req'[p].answer = req[p].answer
      BY <1>6, <2>3 DEF ClientLeaves, Expire, UpstreamEnds, EndContext
  <2>5. Answered(p)' <=> Answered(p)
      BY <2>1, NothingStored DEF Inv
  <2> QED BY <2>1, <2>4, <2>5 DEF Hides
<1> QED BY <1>1, <1>3, <1>4, <1>5, <1>6 DEF RequestStep, Serve, Between

\* The count is kept while no reply gets hidden, and grows by one with a failure.
LEMMA HiddenFew ==
  ASSUME HiddenInv, NEW n \in Nat, NEW H,
         \/ H \subseteq Hidden /\ n >= failures
         \/ \E p : H \subseteq Hidden \cup {p} /\ n = failures + 1
  PROVE  IsFiniteSet(H) /\ Cardinality(H) <= n
<1>0. IsFiniteSet(Hidden) /\ Cardinality(Hidden) \in Nat /\ failures \in Nat
      /\ Cardinality(Hidden) <= failures
    BY FS_CardinalityType DEF HiddenInv
<1>1. CASE H \subseteq Hidden /\ n >= failures
  <2>1. IsFiniteSet(H) /\ Cardinality(H) \in Nat /\ Cardinality(H) <= Cardinality(Hidden)
      BY <1>0, <1>1, FS_Subset, FS_CardinalityType
  <2> QED BY <1>0, <1>1, <2>1
<1>2. ASSUME NEW p, H \subseteq Hidden \cup {p}, n = failures + 1
      PROVE  IsFiniteSet(H) /\ Cardinality(H) <= n
  <2>1. /\ IsFiniteSet(Hidden \cup {p})
        /\ Cardinality(Hidden \cup {p}) =
             IF p \in Hidden THEN Cardinality(Hidden) ELSE Cardinality(Hidden) + 1
      BY <1>0, FS_AddElement
  <2>2. IsFiniteSet(H) /\ Cardinality(H) <= Cardinality(Hidden \cup {p})
      BY <1>2, <2>1, FS_Subset
  <2>3. Cardinality(H) \in Nat /\ Cardinality(Hidden \cup {p}) \in Nat
      BY <2>1, <2>2, FS_CardinalityType
  <2> QED BY <1>0, <1>2, <2>1, <2>2, <2>3
<1> QED BY <1>1, <1>2

LEMMA HiddenStep == Inv /\ HiddenInv /\ [Next]_vars => HiddenInv'
<1> SUFFICES ASSUME Inv, HiddenInv, [Next]_vars
             PROVE  HiddenInv'
    OBVIOUS
<1>0. failures \in Nat
    BY DEF HiddenInv
<1>1. ASSUME NEW p \in Procs, RequestStep(p)
      PROVE  HiddenInv'
  <2>1. \A q \in Procs \ {p} : Hides(q)' => Hides(q)
      BY <1>1, StepKept DEF Kept, ChatAlone, RequestAlone, Hides
  <2>2. Hides(p)' => Hides(p) \/ failures' = failures + 1
      BY <1>1, HiddenByFailure
  <2>3. Hidden' \subseteq Hidden \/ (Hidden' \subseteq Hidden \cup {p} /\ failures' = failures + 1)
      BY <2>1, <2>2 DEF Hidden
  <2>4. failures' \in Nat /\ failures' >= failures
      BY <1>0, <1>1, FailuresGrow
  <2>5. PICK n \in Nat : n = failures'
      BY <2>4
  <2>6. PICK H : H = Hidden'
      OBVIOUS
  <2>7. IsFiniteSet(H) /\ Cardinality(H) <= n
      BY <2>3, <2>4, <2>5, <2>6, HiddenFew
  <2> QED BY <2>4, <2>5, <2>6, <2>7 DEF HiddenInv
<1>2. ASSUME UNCHANGED <<messages, calls, chat, failures, req>>
      PROVE  HiddenInv'
  <2>1. Hidden' = Hidden
      BY <1>2 DEF Hidden, Hides, Answered, CallsOf
  <2> QED BY <1>2, <2>1 DEF HiddenInv
<1>3. ASSUME NEW c \in Convs, DeleteConversation(c)
      PROVE  HiddenInv'
    BY <1>2, <1>3 DEF DeleteConversation, chatVars
<1>4. CASE UNCHANGED vars
    BY <1>2, <1>4 DEF vars, storeVars, chatVars
<1> QED BY <1>1, <1>3, <1>4, Steps

\* Whoever is told of an error and yet finds a reply met a commit whose result was lost:
\* there are no more of them than database calls with lost results.
THEOREM ErrorsHideFew == Spec => []ErrorsHideFewReplies
<1>1. Init => HiddenInv
  <2> SUFFICES ASSUME Init
               PROVE  HiddenInv
      OBVIOUS
  <2>1. calls = <<>> /\ failures = 0
      BY DEF Init, StoreInit, ChatInit
  <2>2. DOMAIN calls = {}
      BY <2>1
  <2>3. Hidden = {}
      BY <2>2 DEF Hidden, Hides, Answered, CallsOf
  <2> QED BY <2>1, <2>3, FS_EmptySet DEF HiddenInv
<1>2. Inv /\ HiddenInv => ErrorsHideFewReplies
  <2> SUFFICES ASSUME Inv, HiddenInv
               PROVE  ErrorsHideFewReplies
      OBVIOUS
  <2> DEFINE E == {p \in Procs : req[p].answer = "error" /\ Answered(p)}
  <2>1. \A p \in Procs : req[p].answer = "error" => chat[p].stage = "off"
      BY DEF Inv, HandlerInv, PlaceInv
  <2>2. \A p \in Procs : chat[p].stage = "off" => chat[p].reply = None
      BY DEF Inv, HandlerInv, PlaceInv
  <2>3. E \subseteq Hidden
      BY <2>1, <2>2 DEF Hidden, Hides
  <2>4. Cardinality(E) <= failures
      BY <2>3, HiddenFew DEF HiddenInv
  <2> QED BY <2>4 DEF ErrorsHideFewReplies
<1> QED BY <1>1, <1>2, InitInv, NextInv, HiddenStep, PTL DEF Spec
=============================================================================
