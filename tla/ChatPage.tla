----------------------------- MODULE ChatPage -----------------------------
(***************************************************************************)
(* The chat page (src/web/src/pages/Chat.tsx): settings, one question at a *)
(* time, and an answer that streams in until it ends, fails or is stopped. *)
(*                                                                         *)
(* The page holds the whole conversation; every request carries it, and    *)
(* the API keeps nothing.  useChat of the AI SDK and the API               *)
(* (src/internal/api/router_chat.go, service_chat.go) are external.  The   *)
(* SDK starts an answer's message with its first part, replaces it with    *)
(* every later part while it is the last message, and pushes a copy when   *)
(* it is not.                                                              *)
(*                                                                         *)
(* Questions are numbered (turns), also across visits of the page.         *)
(* A behaviour has a bound on its questions (turns) and on the changes of  *)
(* settings (edits); an answer has at most MaxDocs sources and MaxTokens   *)
(* pieces of text; there is one visit after the first, and there are at    *)
(* most MaxFaults faults of the connection or the services.                *)
(***************************************************************************)
EXTENDS Integers, Sequences, SequencesExt, FiniteSets

CONSTANTS
    Tags,           \* indexes there are at first
    Chosen,         \* providers the user changes to
    Bounds,         \* the bounds on turns and edits of each behaviour
    MaxDocs, MaxTokens, MaxFaults

PROVIDERS == {"openai", "gemini", "openrouter", "lmstudio"}

ASSUME ChatPageAssumption ==
    /\ Chosen \subseteq PROVIDERS
    /\ \A b \in Bounds : b.turns \in Nat /\ b.edits \in Nat
    /\ {MaxDocs, MaxTokens, MaxFaults} \subseteq Nat

Blank  == ""
Text   == "text"
Zero   == "0"       \* also what an emptied number field holds
Half   == "2.5"     \* no integer
Fine   == "5"       \* any value the API takes
Accept == "accepted"
NoError == "no error"

\* A text of the conversation is the number of its words or tokens; Spaces are trimmed to none.
Spaces == -1
Question == 1

VARIABLES
    bound,
    collections,    \* the indexes of the server
    indexes,        \* the ready ones the page knows
    settings,       \* tag, provider, model, ... as shown
    typed,          \* settings the user has typed a value into (ghost)
    input,          \* the text being typed
    messages,
    status, error,  \* of useChat
    streams,        \* the answers under way
    fate,           \* fate[t]: what became of question t (ghost)
    asked, edits, visits, faults

serverVars == <<bound, collections>>
pageVars  == <<settings, typed, input>>
chatVars  == <<messages, status, error, streams, fate, asked>>
vars == <<serverVars, indexes, pageVars, chatVars, edits, visits, faults>>

-----------------------------------------------------------------------------
(* The settings.                                                           *)

\* Faulty variant: no model for LM Studio, as in the forms.
NoLocalModel(p) == IF p = "lmstudio" THEN Blank ELSE Text

\* MODEL_DEFAULTS and EMBED_MODEL_DEFAULTS: every provider has one.
ModelDefault(p) == IF p \in PROVIDERS THEN Text ELSE Blank

NewSettings ==
    [tag |-> Blank, provider |-> "openai", model |-> ModelDefault("openai"),
     embedProvider |-> "openai", embedModel |-> ModelDefault("openai"),
     topK |-> Fine, temperature |-> Fine, maxTokens |-> Fine]

\* What can be typed into a field; nothing checks it, for the fields are in no form.
FieldValues ==
    [model       |-> {Blank, Text},      embedModel |-> {Blank, Text},
     topK        |-> {Zero, Half, Fine}, maxTokens  |-> {Zero, Half, Fine},
     temperature |-> {Zero, Fine}]

handleProviderChange(s, p) == [s EXCEPT !.provider = p, !.model = ModelDefault(p)]
handleEmbedProviderChange(s, p) == [s EXCEPT !.embedProvider = p, !.embedModel = ModelDefault(p)]

-----------------------------------------------------------------------------
(* The conversation.                                                       *)

User(t, words) == [role |-> "user", turn |-> t, text |-> words, docs |-> 0]
Assistant(t, docs, tokens) == [role |-> "assistant", turn |-> t, text |-> tokens, docs |-> docs]

IsUser(m) == m.role = "user"
\* getTextContent and getSourceDocs: the words of a question or the tokens of an answer, its sources.
getTextContent(m) == m.text
getSourceDocs(m) == m.docs
HasText(m) == getTextContent(m) > 0

\* Faulty variant: only until the first part.
isSubmitted == status = "submitted"
\* Faulty variant: an error is not the end.
isNotReady == status # "ready"

isLoading == status = "submitted" \/ status = "streaming"

Trimmed(words) == IF words = Spaces THEN 0 ELSE words

\* Faulty variant: spaces are words.
MaySubmitSpaces(words) == words # 0 /\ settings.tag # Blank /\ ~isLoading

MaySubmit(words) == Trimmed(words) # 0 /\ settings.tag # Blank /\ ~isLoading

\* Faulty variant: the question alone.
customFetchOfOne(history) == [messages |-> <<Last(history)>>, settings |-> settings]

(* The body of a request: the conversation, and the settings at the moment *)
(* the request is made.                                                    *)
customFetch(history) == [messages |-> history, settings |-> settings]

-----------------------------------------------------------------------------
(* What the API makes of a request.                                        *)

\* The text of the user's last message that has some.
QueryText(history) ==
    LET said == {i \in DOMAIN history : IsUser(history[i]) /\ HasText(history[i])}
    IN  IF said = {} THEN 0 ELSE getTextContent(history[Max(said)])

\* The setting a request is refused for.
Refusal(body) ==
    LET set == body.settings
    IN  CASE set.topK = Half \/ set.maxTokens = Half -> IF set.topK = Half THEN "topK" ELSE "maxTokens"
          [] set.tag = Blank              -> "tag"
          [] QueryText(body.messages) = 0 -> "query"
          [] set.topK = Zero              -> "topK"
          [] set.temperature = Zero       -> "temperature"
          [] set.maxTokens = Zero         -> "maxTokens"
          [] set.provider = Blank         -> "provider"
          [] set.model = Blank            -> "model"
          [] set.embedProvider = Blank    -> "embedProvider"
          [] set.embedModel = Blank       -> "embedModel"
          [] OTHER                        -> Accept

(* buildMessages, without the system message and the question itself: the  *)
(* places of the messages that the model is told, in their order.          *)
Told(history) ==
    {i \in DOMAIN history : HasText(history[i]) /\ ~(i = Len(history) /\ IsUser(history[i]))}

-----------------------------------------------------------------------------
Init ==
    /\ bound \in Bounds
    /\ collections = Tags /\ indexes = Tags
    /\ settings = NewSettings /\ typed = {} /\ input = 0
    /\ messages = <<>> /\ status = "ready" /\ error = NoError
    /\ streams = {} /\ fate = <<>> /\ asked = 0
    /\ edits = 0 /\ visits = 0 /\ faults = 0

-----------------------------------------------------------------------------
(* The user.                                                               *)

Edit(s, byHand) ==
    /\ edits < bound.edits /\ edits' = edits + 1
    /\ s # settings /\ settings' = s
    /\ typed' = typed \cup byHand
    /\ UNCHANGED <<serverVars, indexes, input, chatVars, visits, faults>>

setTag(t) == t \in indexes /\ Edit([settings EXCEPT !.tag = t], {})
ChooseProvider(p) == Edit(handleProviderChange(settings, p), {})
ChooseEmbedProvider(p) == Edit(handleEmbedProviderChange(settings, p), {})
TypeSetting(f) == \E v \in FieldValues[f] : Edit([settings EXCEPT ![f] = v], {f})

\* The input is disabled without an index and while an answer is under way.
Type ==
    /\ settings.tag # Blank /\ ~isLoading /\ asked < bound.turns
    /\ \E words \in {Spaces, Question} : words # input /\ input' = words
    /\ UNCHANGED <<serverVars, indexes, settings, typed, chatVars, edits, visits, faults>>

\* handleFormSubmit; useChat drops its error, pushes the question and starts the request.
handleFormSubmit ==
    /\ MaySubmit(input) /\ asked < bound.turns
    /\ LET t       == asked + 1
           history == Append(messages, User(t, Trimmed(input)))
       IN  /\ messages' = history
           /\ streams' = streams \cup {[turn |-> t, body |-> customFetch(history), phase |-> "asked",
                                        wire |-> <<>>, docs |-> 0, tokens |-> 0, sent |-> 0,
                                        typed |-> typed]}
           /\ fate' = Append(fate, "asked")
           /\ asked' = t
    /\ input' = 0
    /\ status' = "submitted" /\ error' = NoError
    /\ UNCHANGED <<serverVars, indexes, settings, typed, edits, visits, faults>>

\* The Stop button aborts the last request; what has come of its answer stays.
Stop ==
    /\ isLoading
    /\ streams' = {s \in streams : s.turn # asked}
    /\ fate' = [fate EXCEPT ![asked] = "stopped"]
    /\ status' = "ready"
    /\ UNCHANGED <<serverVars, indexes, pageVars, messages, error, asked, edits, visits, faults>>

(* The user leaves the page and comes back: everything was in useState and *)
(* useChat, and nobody reads the answer that was under way.                *)
Revisit ==
    /\ visits < 1 /\ visits' = visits + 1
    /\ settings' = NewSettings /\ typed' = {} /\ input' = 0
    /\ messages' = <<>> /\ status' = "ready" /\ error' = NoError /\ streams' = {}
    /\ fate' = [t \in DOMAIN fate |-> IF fate[t] = "asked" THEN "stopped" ELSE fate[t]]
    /\ indexes' = collections
    /\ UNCHANGED <<serverVars, asked, edits, faults>>

-----------------------------------------------------------------------------
(* The server and the connection.                                          *)

Put(s, new, parts) ==
    /\ streams' = (streams \ {s}) \cup {[new EXCEPT !.wire = @ \o parts]}
    /\ UNCHANGED <<serverVars, indexes, pageVars, messages, status, error, fate, asked, edits, visits>>

Fault == faults < MaxFaults /\ faults' = faults + 1

Error(reason) == [type |-> "error", reason |-> reason]
Part(type) == [type |-> type, reason |-> NoError]

Refuse(s) ==
    /\ s.phase = "asked" /\ Refusal(s.body) # Accept
    /\ Put(s, [s EXCEPT !.phase = "over"], <<Error(Refusal(s.body))>>)
    /\ UNCHANGED faults

\* One search; a collection that is gone makes it fail, too.
Retrieve(s) ==
    /\ s.phase = "asked" /\ Refusal(s.body) = Accept
    /\ \/ /\ s.body.settings.tag \in collections
          /\ \E n \in 0 .. MaxDocs :
                Put(s, [s EXCEPT !.phase = "found"],
                    [i \in 1 .. n |-> Part("source-document")] \o <<Part("text-start")>>)
          /\ UNCHANGED faults
       \/ /\ IF s.body.settings.tag \in collections THEN Fault ELSE UNCHANGED faults
          /\ Put(s, [s EXCEPT !.phase = "over"], <<Error("RETRIEVAL_FAILED")>>)

Generate(s) ==
    /\ s.phase = "found" /\ s.sent < MaxTokens
    /\ Put(s, [s EXCEPT !.sent = @ + 1], <<Part("text-delta")>>)
    /\ UNCHANGED faults

Finish(s) ==
    /\ s.phase = "found"
    /\ \/ Put(s, [s EXCEPT !.phase = "over"], <<Part("text-end")>>) /\ UNCHANGED faults
       \/ Put(s, [s EXCEPT !.phase = "over"], <<Error("GENERATION_FAILED")>>) /\ Fault

(* The connection breaks: nothing more is sent, or the request was never   *)
(* answered.  A break between the end of the text and that of the stream   *)
(* shows the page what one just before the end of the text does.           *)
Break(s) ==
    /\ s.phase # "over" /\ Fault
    /\ Put(s, [s EXCEPT !.phase = "over"], <<Error("network error")>>)

DropCollection ==
    /\ collections # {} /\ \E t \in collections : collections' = collections \ {t}
    /\ UNCHANGED <<bound, indexes, pageVars, chatVars, edits, visits, faults>>

\* The page's list of indexes is fetched again; a setting it made stays.
RefreshIndexes ==
    /\ indexes' = collections
    /\ UNCHANGED <<serverVars, pageVars, chatVars, edits, visits, faults>>

-----------------------------------------------------------------------------
(* useChat reads the next part of an answer.                               *)

write(s) ==
    LET answer == Assistant(s.turn, s.docs, s.tokens)
        last   == Last(messages)
    IN  /\ messages' = IF ~IsUser(last) /\ last.turn = s.turn
                       THEN Append(Front(messages), answer)
                       ELSE Append(messages, answer)
        /\ status' = "streaming"
        /\ UNCHANGED <<error, fate>>

Ended(s, newStatus, newError, newFate) ==
    /\ status' = newStatus /\ error' = newError
    /\ fate' = [fate EXCEPT ![s.turn] = newFate]
    /\ UNCHANGED messages

Receive(s) ==
    /\ s.wire # <<>>
    /\ LET part == Head(s.wire)
           rest == [s EXCEPT !.wire = Tail(@)]
           new  == CASE part.type = "source-document" -> [rest EXCEPT !.docs = @ + 1]
                     [] part.type = "text-delta"      -> [rest EXCEPT !.tokens = @ + 1]
                     [] OTHER                         -> rest
       IN  \/ /\ part.type \in {"source-document", "text-start", "text-delta"}
              /\ write(new)
              /\ streams' = (streams \ {s}) \cup {new}
           \/ /\ part.type = "text-end"
              /\ Ended(s, "ready", NoError, "answered")
              /\ streams' = streams \ {s}
           \/ /\ part.type = "error"
              /\ Ended(s, "error", part.reason, "failed")
              /\ streams' = streams \ {s}
    /\ UNCHANGED <<serverVars, indexes, pageVars, asked, edits, visits, faults>>

-----------------------------------------------------------------------------
Serve(s) == Refuse(s) \/ Retrieve(s) \/ Generate(s) \/ Finish(s)

Next ==
    \/ \E t \in Tags : setTag(t)
    \/ \E p \in Chosen : ChooseProvider(p)
    \/ \E p \in Chosen : ChooseEmbedProvider(p)
    \/ \E f \in DOMAIN FieldValues : TypeSetting(f)
    \/ Type
    \/ handleFormSubmit
    \/ Stop
    \/ Revisit
    \/ \E s \in streams : Serve(s)
    \/ \E s \in streams : Break(s)
    \/ \E s \in streams : Receive(s)
    \/ DropCollection
    \/ RefreshIndexes

(* The API works off a request, for its deadline (API_REQUEST_TIMEOUT)     *)
(* ends every search and generation, and the browser reads what it sends.  *)
Fairness == /\ WF_vars(\E s \in streams : Serve(s))
            /\ WF_vars(\E s \in streams : Receive(s))

Spec == Init /\ [][Next]_vars /\ Fairness

-----------------------------------------------------------------------------
(* What the conversation shows.                                            *)

\* Faulty variant: dots for every last answer.
isLastOfAll(i) == ~IsUser(messages[i]) /\ i = Len(messages)

isLastAssistant(i) == ~IsUser(messages[i]) /\ i = Len(messages) /\ isLoading

\* A message shows its text, or the three dots, or nothing, and the sources of an answer.
Bubble(i) ==
    [body    |-> IF HasText(messages[i]) THEN "text"
                 ELSE IF isLastAssistant(i) THEN "dots" ELSE "empty",
     sources |-> IF IsUser(messages[i]) THEN 0 ELSE getSourceDocs(messages[i])]

-----------------------------------------------------------------------------
(* Types; a question has words, and each status of useChat goes with what  *)
(* is under way.                                                           *)
TypeOK ==
    /\ indexes \subseteq Tags /\ collections \subseteq Tags
    /\ DOMAIN settings = DOMAIN NewSettings /\ settings.tag \in Tags \cup {Blank}
    /\ typed \subseteq DOMAIN FieldValues
    /\ input \in {0, Spaces, Question}
    /\ status \in {"ready", "submitted", "streaming", "error"}
    /\ asked \in 0 .. bound.turns /\ Len(fate) = asked
    /\ \A m \in Range(messages) :
          /\ m.turn \in 1 .. asked
          /\ IF IsUser(m) THEN m.text = Question ELSE m.text \in 0 .. MaxTokens /\ m.docs \in 0 .. MaxDocs
    /\ isLoading <=> streams # {}
    /\ status = "error" <=> error # NoError

(* Whatever is stopped, fails or breaks off, and however late it ends, an  *)
(* answer stands right under its own question, and there is one of each.   *)
AnswersFollowTheirQuestion ==
    \A i \in DOMAIN messages :
        LET m == messages[i]
        IN  IF IsUser(m)
            THEN \A j \in DOMAIN messages : j # i /\ IsUser(messages[j]) => messages[j].turn # m.turn
            ELSE i > 1 /\ IsUser(messages[i - 1]) /\ messages[i - 1].turn = m.turn

(* The model is told the whole conversation: every earlier question of it, *)
(* each with what was received of its answer, so that a question that no   *)
(* answer follows was stopped, failed, or answered without a word.         *)
PromptIsTheConversation ==
    \A s \in streams :
        LET history == s.body.messages
            told    == Told(history)
            AnswerFollows(i) == \E j \in told : /\ i < j /\ ~IsUser(history[j])
                                                /\ \A k \in told : i < k => j <= k
        IN  /\ \A m \in Range(messages) :
                  m.turn < s.turn /\ HasText(m) => \E i \in told : history[i] = m
            /\ \A i \in told :
                  IsUser(history[i]) /\ ~AnswerFollows(i) =>
                      \/ fate[history[i].turn] \in {"stopped", "failed"}
                      \/ \E m \in Range(messages) : /\ ~IsUser(m) /\ m.turn = history[i].turn
                                                    /\ ~HasText(m)

(* The API refuses a question only for a number or a model the user has    *)
(* typed in: never for its words, its index or a provider, and never for   *)
(* the model that came with a provider.                                    *)
RefusedOnlyForWhatWasTyped ==
    \A s \in streams : Refusal(s.body) \in {Accept} \cup s.typed

(* Every answer that is awaited and has no text yet shows the dots, and no *)
(* other does: what a stopped or failed answer left never looks as if more *)
(* would come, and nothing shown as empty will be filled.                  *)
BubblesTellTheTruth ==
    \A i \in DOMAIN messages :
        LET bubble == Bubble(i)
            awaited == \E s \in streams : s.turn = messages[i].turn
        IN  /\ ~IsUser(messages[i]) => (bubble.body = "dots" <=> awaited /\ ~HasText(messages[i]))
            /\ bubble.body = "empty" => fate[messages[i].turn] # "asked"

(* A question never keeps the page waiting for ever: the next one can be   *)
(* asked, whatever has failed.                                             *)
WaitingEnds == isLoading ~> ~isLoading
=============================================================================
