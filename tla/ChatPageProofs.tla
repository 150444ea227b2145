--------------------------- MODULE ChatPageProofs ---------------------------
(***************************************************************************)
(* Proofs about ChatPage, for any indexes, providers, lengths of a talk,   *)
(* sources, pieces of text and faults: an answer stands under its own      *)
(* question, the model is told the whole conversation, a question is       *)
(* refused only for what the user has typed in, and the three dots say     *)
(* what is still to come.                                                  *)
(***************************************************************************)
EXTENDS ChatPage, SequenceTheorems, TLAPS

FieldNames == {"model", "embedModel", "topK", "maxTokens", "temperature"}

Settings ==
    [tag : Tags \cup {Blank}, provider : PROVIDERS, model : {Blank, Text},
     embedProvider : PROVIDERS, embedModel : {Blank, Text},
     topK : {Zero, Half, Fine}, temperature : {Zero, Fine}, maxTokens : {Zero, Half, Fine}]

Message == [role : {"user", "assistant"}, turn : Nat \ {0}, text : Nat, docs : Nat]
Body == [messages : Seq(Message), settings : Settings]

PartTypes == {"source-document", "text-start", "text-delta", "text-end", "error"}
Failures == {"RETRIEVAL_FAILED", "GENERATION_FAILED", "network error"}
Refusals == FieldNames \cup {"tag", "query", "provider", "embedProvider"}
Parts == [type : PartTypes, reason : {NoError} \cup Failures \cup Refusals]

Stream ==
    [turn : Nat \ {0}, body : Body, phase : {"asked", "found", "over"}, wire : Seq(Parts),
     docs : Nat, tokens : Nat, sent : Nat, typed : SUBSET FieldNames]

Fates == {"asked", "stopped", "failed", "answered"}

-----------------------------------------------------------------------------
(* The inductive invariant.                                                *)

ShapesOK ==
    /\ bound \in Bounds /\ collections \subseteq Tags /\ indexes \subseteq Tags
    /\ settings \in Settings /\ typed \subseteq FieldNames /\ input \in {0, Spaces, Question}
    /\ messages \in Seq(Message) /\ streams \subseteq Stream
    /\ status \in {"ready", "submitted", "streaming", "error"}
    /\ error \in {NoError} \cup Failures \cup Refusals
    /\ fate \in Seq(Fates) /\ asked \in 0 .. bound.turns /\ Len(fate) = asked

\* Settings differ from what is taken to be right only where they were typed in.
AsTyped(set, byHand) ==
    /\ set.topK # Fine => "topK" \in byHand
    /\ set.temperature # Fine => "temperature" \in byHand
    /\ set.maxTokens # Fine => "maxTokens" \in byHand
    /\ set.model # Text => "model" \in byHand
    /\ set.embedModel # Text => "embedModel" \in byHand

\* One answer at most is under way, and it is the last question's.
StatusOK ==
    /\ isLoading <=> streams # {}
    /\ status = "error" <=> error # NoError
    /\ \A s \in streams : s.turn = asked /\ fate[asked] = "asked"
    /\ \A s, r \in streams : s = r
    /\ \A t \in 1 .. asked : fate[t] = "asked" => t = asked /\ streams # {}

\* A message stands where it should, and a question that was answered has its answer
\* right below it.
MessageOK(talk, f, n, i) ==
    LET m == talk[i]
    IN  /\ m.turn <= n
        /\ IsUser(m) => m.text = Question
        /\ ~IsUser(m) => m.text <= MaxTokens /\ m.docs <= MaxDocs
        /\ IsUser(m) /\ f[m.turn] = "answered" =>
              /\ i < Len(talk) /\ ~IsUser(talk[i + 1]) /\ talk[i + 1].turn = m.turn

FollowsQuestion(talk, i) ==
    IF IsUser(talk[i])
    THEN \A j \in 1 .. Len(talk) : j # i /\ IsUser(talk[j]) => talk[j].turn # talk[i].turn
    ELSE i > 1 /\ IsUser(talk[i - 1]) /\ talk[i - 1].turn = talk[i].turn

\* A talk of n questions, with what became of them.
TalkOK(talk, f, n) ==
    \A i \in 1 .. Len(talk) : MessageOK(talk, f, n, i) /\ FollowsQuestion(talk, i)

\* The parts before the text that have not been received: sources, then the start.
Lead(s) == Len(s.wire) - (s.sent - s.tokens) - (IF s.phase = "over" THEN 1 ELSE 0)

\* On the wire are sources, the start of the text, its pieces, and the end, in this
\* order, and no more of them than there may be.
WireOK(s) ==
    /\ Lead(s) >= 0 /\ s.tokens <= s.sent /\ s.sent <= MaxTokens
    /\ s.docs + (IF Lead(s) > 0 THEN Lead(s) - 1 ELSE 0) <= MaxDocs
    /\ \A i \in 1 .. Len(s.wire) :
          /\ i < Lead(s) => s.wire[i].type = "source-document"
          /\ i = Lead(s) => s.wire[i].type = "text-start"
          /\ Lead(s) < i /\ i <= Lead(s) + (s.sent - s.tokens) => s.wire[i].type = "text-delta"
          /\ i > Lead(s) + (s.sent - s.tokens) => s.wire[i].type \in {"text-end", "error"}
          /\ s.wire[i].type = "error" => s.wire[i].reason # NoError

Answer(s) == Assistant(s.turn, s.docs, s.tokens)

\* What the page shows is what was asked, and below it what has been received; while
\* nothing has, the end cannot be the next part.
StreamOK(s, talk) ==
    LET history == s.body.messages
    IN  /\ history # <<>> /\ Last(history) = User(s.turn, Question)
        /\ \A i \in 1 .. (Len(history) - 1) : history[i].turn < s.turn
        /\ talk = history \/ talk = Append(history, Answer(s))
        /\ s.phase = "asked" => s.wire = <<>> /\ s.sent = 0 /\ s.docs = 0 /\ talk = history
        /\ talk = history /\ s.phase # "asked" =>
              s.wire # <<>> /\ (Lead(s) > 0 \/ s.wire[1].type = "error")
        /\ s.body.settings.tag # Blank /\ AsTyped(s.body.settings, s.typed)
        /\ WireOK(s)

IInv == /\ ShapesOK /\ StatusOK
        /\ AsTyped(settings, typed)
        /\ TalkOK(messages, fate, asked)
        /\ \A s \in streams : StreamOK(s, messages) /\ TalkOK(s.body.messages, fate, asked)

-----------------------------------------------------------------------------
(* Sequences.                                                              *)

LEMMA AppendFacts ==
    ASSUME NEW S, NEW s \in Seq(S), NEW e \in S
    PROVE  /\ Append(s, e) \in Seq(S) /\ Len(Append(s, e)) = Len(s) + 1
           /\ Append(s, e) # <<>> /\ Last(Append(s, e)) = e
           /\ \A i \in 1 .. Len(s) : Append(s, e)[i] = s[i]
           /\ Append(s, e)[Len(s) + 1] = e
<1>1. /\ Append(s, e) \in Seq(S) /\ Len(Append(s, e)) = Len(s) + 1
      /\ \A i \in 1 .. Len(s) : Append(s, e)[i] = s[i]
      /\ Append(s, e)[Len(s) + 1] = e
  OBVIOUS
<1>2. Append(s, e) # <<>>
  BY <1>1
<1> QED
  BY <1>1, <1>2 DEF Last

LEMMA FrontOfAppend ==
    ASSUME NEW S, NEW s \in Seq(S), NEW e \in S
    PROVE  Front(Append(s, e)) = s
<1> DEFINE a == Append(s, e)
<1>1. a \in Seq(S) /\ Len(a) = Len(s) + 1 /\ \A i \in 1 .. Len(s) : a[i] = s[i]
  OBVIOUS
<1> HIDE DEF a
<1>2. Len(a) - 1 = Len(s)
  BY <1>1
<1> DEFINE f == SubSeq(a, 1, Len(s))
<1>3. f \in Seq(S) /\ Len(f) = Len(s) /\ \A i \in 1 .. Len(s) : f[i] = a[i]
  BY <1>1
<1> HIDE DEF f
<1>4. f = s
  BY <1>1, <1>3
<1> QED
  BY <1>2, <1>4 DEF f, Front, a

LEMMA EntrySet ==
    ASSUME NEW S, NEW s \in Seq(S), NEW i \in 1 .. Len(s), NEW e \in S
    PROVE  /\ [s EXCEPT ![i] = e] \in Seq(S) /\ Len([s EXCEPT ![i] = e]) = Len(s)
           /\ \A j \in 1 .. Len(s) : [s EXCEPT ![i] = e][j] = IF j = i THEN e ELSE s[j]
OBVIOUS

LEMMA InRange ==
    ASSUME NEW S, NEW s \in Seq(S), NEW m
    PROVE  m \in Range(s) <=> \E i \in 1 .. Len(s) : s[i] = m
BY DEF Range

\* Adding the last index of a set of indexes makes it the greatest.
LEMMA MaxOfLast ==
    ASSUME NEW n \in Nat, NEW I \in SUBSET (1 .. n), n \in I
    PROVE  Max(I) = n
<1>1. \A y \in I : n >= y
  OBVIOUS
<1>2. \A x \in I : (\A y \in I : x >= y) => x = n
  OBVIOUS
<1> QED
  BY <1>1, <1>2 DEF Max

-----------------------------------------------------------------------------
(* The settings.                                                           *)

LEMMA FieldsOfForm == DOMAIN FieldValues = FieldNames
BY DEF FieldValues, FieldNames

LEMMA DefaultModels == \A p \in PROVIDERS : ModelDefault(p) = Text
BY DEF ModelDefault

LEMMA NewSettingsOK == NewSettings \in Settings /\ AsTyped(NewSettings, {})
<1>1. "openai" \in PROVIDERS /\ ModelDefault("openai") = Text
  BY DefaultModels DEF PROVIDERS
<1> QED
  BY <1>1 DEF NewSettings, Settings, AsTyped

LEMMA ProviderOK ==
    ASSUME NEW set \in Settings, NEW byHand, AsTyped(set, byHand), NEW p \in PROVIDERS
    PROVE  /\ handleProviderChange(set, p) \in Settings
           /\ AsTyped(handleProviderChange(set, p), byHand)
           /\ handleEmbedProviderChange(set, p) \in Settings
           /\ AsTyped(handleEmbedProviderChange(set, p), byHand)
BY DefaultModels DEF Settings, AsTyped, handleProviderChange, handleEmbedProviderChange

LEMMA TagOK ==
    ASSUME NEW set \in Settings, NEW byHand, AsTyped(set, byHand), NEW t \in Tags
    PROVE  [set EXCEPT !.tag = t] \in Settings /\ AsTyped([set EXCEPT !.tag = t], byHand)
BY DEF Settings, AsTyped

LEMMA TypedOK ==
    ASSUME NEW set \in Settings, NEW byHand \in SUBSET FieldNames, AsTyped(set, byHand),
           NEW f \in FieldNames, NEW v \in FieldValues[f]
    PROVE  [set EXCEPT ![f] = v] \in Settings /\ AsTyped([set EXCEPT ![f] = v], byHand \cup {f})
<1>1. CASE f = "model"
  BY <1>1 DEF Settings, AsTyped, FieldValues
<1>2. CASE f = "embedModel"
  BY <1>2 DEF Settings, AsTyped, FieldValues
<1>3. CASE f = "topK"
  BY <1>3 DEF Settings, AsTyped, FieldValues
<1>4. CASE f = "maxTokens"
  BY <1>4 DEF Settings, AsTyped, FieldValues
<1>5. CASE f = "temperature"
  BY <1>5 DEF Settings, AsTyped, FieldValues
<1> QED
  BY <1>1, <1>2, <1>3, <1>4, <1>5 DEF FieldNames

-----------------------------------------------------------------------------
LEMMA InitInv == Init => IInv
<1> SUFFICES ASSUME Init PROVE IInv
  OBVIOUS
<1> USE DEF Init
<1>1. /\ messages = <<>> /\ messages \in Seq(Message) /\ Len(messages) = 0
      /\ fate \in Seq(Fates) /\ Len(fate) = 0 /\ asked = 0
  OBVIOUS
<1>2. ShapesOK
  BY <1>1, NewSettingsOK, ChatPageAssumption DEF ShapesOK
<1>3. StatusOK
  BY <1>1 DEF StatusOK, isLoading
<1>4. TalkOK(messages, fate, asked)
  BY <1>1 DEF TalkOK
<1> QED
  BY <1>2, <1>3, <1>4, NewSettingsOK DEF IInv

\* The conversation does not depend on anything else.
LEMMA ChatKept ==
    ASSUME IInv, UNCHANGED chatVars
    PROVE  /\ StatusOK' /\ TalkOK(messages, fate, asked)'
           /\ (\A s \in streams : StreamOK(s, messages) /\ TalkOK(s.body.messages, fate, asked))'
<1>1. /\ messages' = messages /\ streams' = streams /\ fate' = fate /\ asked' = asked
      /\ status' = status /\ error' = error
  BY DEF chatVars
<1>2. StatusOK'
  BY <1>1 DEF IInv, StatusOK, isLoading
<1> QED
  BY <1>1, <1>2 DEF IInv

LEMMA EditInv ==
    ASSUME IInv, NEW set \in Settings, NEW byHand \in SUBSET FieldNames,
           AsTyped(set, typed \cup byHand), Edit(set, byHand)
    PROVE  IInv'
<1>1. UNCHANGED <<bound, collections, indexes, input, chatVars>> /\ settings' = set
      /\ typed' = typed \cup byHand
  BY DEF Edit, serverVars
<1>2. ShapesOK'
  BY <1>1 DEF IInv, ShapesOK, chatVars
<1>3. AsTyped(settings, typed)'
  BY <1>1
<1> QED
  BY <1>1, <1>2, <1>3, ChatKept DEF IInv

LEMMA SettingsInv ==
    ASSUME IInv,
           \/ \E t \in Tags : setTag(t)
           \/ \E p \in Chosen : ChooseProvider(p) \/ ChooseEmbedProvider(p)
           \/ \E f \in DOMAIN FieldValues : TypeSetting(f)
    PROVE  IInv'
<1> USE DEF IInv, ShapesOK
<1>1. ASSUME NEW t \in Tags, setTag(t) PROVE IInv'
  BY <1>1, TagOK, EditInv DEF setTag
<1>2. ASSUME NEW p \in Chosen, ChooseProvider(p) PROVE IInv'
  BY <1>2, ProviderOK, EditInv, ChatPageAssumption DEF ChooseProvider
<1>3. ASSUME NEW p \in Chosen, ChooseEmbedProvider(p) PROVE IInv'
  BY <1>3, ProviderOK, EditInv, ChatPageAssumption DEF ChooseEmbedProvider
<1>4. ASSUME NEW f \in FieldNames, NEW v \in FieldValues[f],
             Edit([settings EXCEPT ![f] = v], {f})
      PROVE  IInv'
  BY <1>4, TypedOK, EditInv
<1> QED
  BY <1>1, <1>2, <1>3, <1>4, FieldsOfForm DEF TypeSetting

LEMMA OthersInv == ASSUME IInv, Type \/ DropCollection \/ RefreshIndexes PROVE IInv'
<1>1. UNCHANGED chatVars /\ UNCHANGED <<settings, typed>>
  BY DEF Type, DropCollection, RefreshIndexes, pageVars
<1>2. ShapesOK'
  <2>1. input' \in {0, Spaces, Question}
    BY DEF IInv, ShapesOK, Type, DropCollection, RefreshIndexes, pageVars
  <2>2. bound' = bound /\ collections' \subseteq Tags /\ indexes' \subseteq Tags
    BY DEF IInv, ShapesOK, Type, DropCollection, RefreshIndexes, serverVars
  <2> QED
    BY <1>1, <2>1, <2>2 DEF IInv, ShapesOK, chatVars
<1>3. AsTyped(settings, typed)'
  BY <1>1 DEF IInv, AsTyped
<1> QED
  BY <1>1, <1>2, <1>3, ChatKept DEF IInv

-----------------------------------------------------------------------------
(* A talk that goes on.                                                    *)

\* Knowing less of what was answered, nothing changes.
LEMMA TalkFate ==
    ASSUME NEW talk \in Seq(Message), NEW n \in Nat, NEW f, NEW g,
           TalkOK(talk, f, n), \A u \in 1 .. n : g[u] = "answered" => f[u] = "answered"
    PROVE  TalkOK(talk, g, n)
<1> SUFFICES ASSUME NEW i \in 1 .. Len(talk)
             PROVE  MessageOK(talk, g, n, i) /\ FollowsQuestion(talk, i)
  BY DEF TalkOK
<1>1. MessageOK(talk, f, n, i) /\ FollowsQuestion(talk, i)
  BY DEF TalkOK
<1>2. talk[i] \in Message /\ talk[i].turn \in 1 .. n
  <2>1. talk[i] \in Message
    OBVIOUS
  <2> QED
    BY <1>1, <2>1 DEF MessageOK, Message
<1> QED
  BY <1>1, <1>2 DEF MessageOK

\* A new question below everything, or an answer right below its question.
LEMMA TalkGrows ==
    ASSUME NEW talk \in Seq(Message), NEW n \in Nat, NEW k \in Nat, n <= k, NEW f, NEW g,
           TalkOK(talk, f, n), \A u \in 1 .. n : g[u] = "answered" => f[u] = "answered",
           NEW m \in Message, m.turn <= k,
           \/ /\ IsUser(m) /\ m.text = Question /\ g[m.turn] # "answered"
              /\ \A i \in 1 .. Len(talk) : talk[i].turn < m.turn
           \/ /\ ~IsUser(m) /\ m.text <= MaxTokens /\ m.docs <= MaxDocs
              /\ Len(talk) > 0 /\ IsUser(talk[Len(talk)]) /\ talk[Len(talk)].turn = m.turn
    PROVE  TalkOK(Append(talk, m), g, k)
<1> DEFINE new == Append(talk, m)
           l == Len(talk)
<1>1. /\ new \in Seq(Message) /\ Len(new) = l + 1 /\ l \in Nat
      /\ \A i \in 1 .. l : new[i] = talk[i]
      /\ new[l + 1] = m
  BY AppendFacts
<1>2. TalkOK(talk, g, n)
  BY TalkFate
<1>3. \A i \in 1 .. l : talk[i] \in Message /\ talk[i].turn \in Nat /\ m.turn \in Nat
  <2>1. \A i \in 1 .. l : talk[i] \in Message
    OBVIOUS
  <2> QED
    BY <2>1 DEF Message
<1> HIDE DEF new
<1>4. ASSUME NEW i \in 1 .. l PROVE MessageOK(new, g, k, i) /\ FollowsQuestion(new, i)
  <2>1. MessageOK(talk, g, n, i) /\ FollowsQuestion(talk, i) /\ new[i] = talk[i]
    BY <1>1, <1>2, <1>4 DEF TalkOK
  <2>2. MessageOK(new, g, k, i)
    <3>1. i < l => new[i + 1] = talk[i + 1]
      BY <1>1
    <3>2. talk[i].turn <= k
      BY <1>3, <2>1 DEF MessageOK
    <3> QED
      BY <1>1, <2>1, <3>1, <3>2 DEF MessageOK
  <2>3. FollowsQuestion(new, i)
    <3>1. CASE IsUser(talk[i])
      <4> SUFFICES ASSUME NEW j \in 1 .. (l + 1), j # i, IsUser(new[j])
                   PROVE  new[j].turn # new[i].turn
        BY <1>1, <2>1, <3>1 DEF FollowsQuestion
      <4>1. CASE j = l + 1
        <5>1. IsUser(m) /\ new[j].turn = m.turn
          BY <1>1, <4>1
        <5>2. talk[i].turn < m.turn
          BY <5>1
        <5> QED
          BY <1>3, <2>1, <5>1, <5>2
      <4>2. CASE j \in 1 .. l
        BY <1>1, <2>1, <3>1, <4>2 DEF FollowsQuestion
      <4> QED
        BY <1>1, <4>1, <4>2
    <3>2. CASE ~IsUser(talk[i])
      <4>1. i > 1 /\ IsUser(talk[i - 1]) /\ talk[i - 1].turn = talk[i].turn
        BY <2>1, <3>2 DEF FollowsQuestion
      <4>2. new[i - 1] = talk[i - 1]
        BY <1>1, <4>1
      <4> QED
        BY <2>1, <3>2, <4>1, <4>2 DEF FollowsQuestion
    <3> QED
      BY <3>1, <3>2
  <2> QED
    BY <2>2, <2>3
<1>5. MessageOK(new, g, k, l + 1) /\ FollowsQuestion(new, l + 1)
  <2>1. CASE IsUser(m)
    <3>1. MessageOK(new, g, k, l + 1)
      BY <1>1, <2>1 DEF MessageOK
    <3>2. ASSUME NEW j \in 1 .. (l + 1), j # l + 1 PROVE new[j].turn # m.turn
      BY <1>1, <1>3, <2>1, <3>2
    <3> QED
      BY <1>1, <2>1, <3>1, <3>2 DEF FollowsQuestion
  <2>2. CASE ~IsUser(m)
    <3>1. MessageOK(new, g, k, l + 1)
      BY <1>1, <2>2 DEF MessageOK
    <3>2. l + 1 > 1 /\ (l + 1) - 1 = l /\ l \in 1 .. l
      BY <1>1, <2>2
    <3> QED
      BY <1>1, <2>2, <3>1, <3>2 DEF FollowsQuestion
  <2> QED
    BY <2>1, <2>2
<1> QED
  BY <1>1, <1>4, <1>5 DEF TalkOK, new

LEMMA TurnsOfTalk ==
    ASSUME NEW talk \in Seq(Message), NEW n \in Nat, NEW f, TalkOK(talk, f, n)
    PROVE  \A i \in 1 .. Len(talk) : talk[i] \in Message /\ talk[i].turn \in 1 .. n
<1>1. \A i \in 1 .. Len(talk) : talk[i] \in Message
  OBVIOUS
<1> QED
  BY <1>1 DEF TalkOK, MessageOK, Message

-----------------------------------------------------------------------------
(* Asking.                                                                 *)

LEMMA SubmitInv == ASSUME IInv, handleFormSubmit PROVE IInv'
<1> DEFINE t == asked + 1
           q == User(t, Question)
           history == Append(messages, q)
           new == [turn |-> t, body |-> [messages |-> history, settings |-> settings],
                   phase |-> "asked", wire |-> <<>>, docs |-> 0, tokens |-> 0, sent |-> 0,
                   typed |-> typed]
<1>1. /\ asked \in Nat /\ asked + 1 \in Nat \ {0} /\ asked + 1 \in 0 .. bound.turns
      /\ Len(fate) = asked /\ fate \in Seq(Fates) /\ messages \in Seq(Message)
  <2>1. bound.turns \in Nat
    BY ChatPageAssumption DEF IInv, ShapesOK
  <2> QED
    BY <2>1 DEF IInv, ShapesOK, handleFormSubmit
<1>2. input = Question /\ Trimmed(input) = Question /\ settings.tag # Blank /\ ~isLoading
  BY DEF IInv, ShapesOK, handleFormSubmit, MaySubmit, Trimmed, Question, Spaces
<1>3. streams = {}
  BY <1>2 DEF IInv, StatusOK
<1>4. /\ messages' = history /\ streams' = {new} /\ fate' = Append(fate, "asked")
      /\ asked' = t /\ status' = "submitted" /\ error' = NoError /\ input' = 0
      /\ bound' = bound /\ collections' = collections /\ indexes' = indexes
      /\ settings' = settings /\ typed' = typed
  BY <1>2, <1>3 DEF handleFormSubmit, customFetch, serverVars
<1>5. q \in Message /\ IsUser(q) /\ q.turn = t /\ q.text = Question
  BY <1>1 DEF Message, User, IsUser, Question
<1>6. /\ history \in Seq(Message) /\ Len(history) = Len(messages) + 1 /\ history # <<>>
      /\ Last(history) = q /\ \A i \in 1 .. Len(messages) : history[i] = messages[i]
      /\ history[Len(messages) + 1] = q
  BY <1>1, <1>5, AppendFacts
<1>7. /\ fate' \in Seq(Fates) /\ Len(fate') = t /\ fate'[t] = "asked"
      /\ \A u \in 1 .. asked : fate'[u] = fate[u]
  BY <1>1, <1>4, AppendFacts DEF Fates
<1>8. /\ Len(messages) \in Nat
      /\ \A i \in 1 .. Len(messages) : messages[i] \in Message /\ messages[i].turn \in 1 .. asked
  BY <1>1, TurnsOfTalk DEF IInv
<1>9. TalkOK(history, fate', t)
  <2>1. q.turn <= t /\ \A i \in 1 .. Len(messages) : messages[i].turn < q.turn
    BY <1>1, <1>5, <1>8
  <2>2. \A u \in 1 .. asked : fate'[u] = "answered" => fate[u] = "answered"
    BY <1>7
  <2>3. fate'[q.turn] # "answered" /\ asked <= t /\ t \in Nat
    BY <1>1, <1>5, <1>7
  <2> QED
    BY <1>1, <1>5, <2>1, <2>2, <2>3, TalkGrows DEF IInv
<1> HIDE DEF q, history
<1>10. new \in Stream
  BY <1>1, <1>6 DEF IInv, ShapesOK, Stream, Body
<1>11. ShapesOK'
  BY <1>1, <1>4, <1>6, <1>7, <1>10 DEF IInv, ShapesOK
<1>12. StatusOK'
  <2>1. \A u \in 1 .. t : fate'[u] = "asked" => u = t
    BY <1>1, <1>3, <1>7 DEF IInv, StatusOK
  <2>2. isLoading'
    BY <1>4 DEF isLoading
  <2> QED
    BY <1>4, <1>7, <2>1, <2>2 DEF StatusOK
<1>13. StreamOK(new, history)
  <2>1. \A i \in 1 .. (Len(history) - 1) : history[i].turn < t
    BY <1>1, <1>6, <1>8
  <2>2. Lead(new) = 0
    BY DEF Lead
  <2>3. WireOK(new)
    BY <2>2, ChatPageAssumption DEF WireOK
  <2> QED
    BY <1>2, <1>6, <2>1, <2>3 DEF StreamOK, IInv, q
<1>14. AsTyped(settings, typed)'
  BY <1>4 DEF IInv
<1>15. new.body.messages = history
  OBVIOUS
<1> HIDE DEF new
<1> QED
  BY <1>4, <1>9, <1>11, <1>12, <1>13, <1>14, <1>15 DEF IInv

\* Whether it was aborted or left alone, nobody waits for an answer any more.
LEMMA StopInv == ASSUME IInv, Stop PROVE IInv'
<1>1. streams # {} /\ \A s \in streams : s.turn = asked
  BY DEF IInv, StatusOK, Stop
<1>2. /\ streams' = {} /\ fate' = [fate EXCEPT ![asked] = "stopped"] /\ status' = "ready"
      /\ messages' = messages /\ error' = error /\ asked' = asked /\ bound' = bound
      /\ collections' = collections /\ indexes' = indexes /\ settings' = settings
      /\ typed' = typed /\ input' = input
  BY <1>1 DEF Stop, serverVars, pageVars
<1>3. /\ fate \in Seq(Fates) /\ Len(fate) = asked /\ asked \in Nat
      /\ messages \in Seq(Message)
  <2>1. bound.turns \in Nat
    BY ChatPageAssumption DEF IInv, ShapesOK
  <2> QED
    BY <2>1 DEF IInv, ShapesOK
<1>4. /\ fate' \in Seq(Fates) /\ Len(fate') = asked
      /\ \A u \in 1 .. asked : fate'[u] = IF u = asked THEN "stopped" ELSE fate[u]
  <2>1. asked \in 1 .. Len(fate) /\ "stopped" \in Fates
    BY <1>1, <1>3 DEF IInv, ShapesOK, Stream, Fates
  <2> QED
    BY <1>2, <1>3, <2>1, EntrySet
<1>5. error = NoError
  BY DEF IInv, StatusOK, Stop, isLoading
<1>6. StatusOK'
  <2>1. \A u \in 1 .. asked : fate'[u] # "asked"
    BY <1>3, <1>4 DEF IInv, StatusOK
  <2>2. ~isLoading'
    BY <1>2 DEF isLoading
  <2> QED
    BY <1>2, <1>5, <2>1, <2>2 DEF StatusOK
<1>7. TalkOK(messages, fate', asked)
  BY <1>3, <1>4, TalkFate DEF IInv
<1>8. ShapesOK'
  BY <1>2, <1>3, <1>4 DEF IInv, ShapesOK
<1> QED
  BY <1>2, <1>6, <1>7, <1>8 DEF IInv

LEMMA RevisitInv == ASSUME IInv, Revisit PROVE IInv'
<1>1. /\ streams' = {} /\ status' = "ready" /\ error' = NoError /\ messages' = <<>>
      /\ fate' = [t \in DOMAIN fate |-> IF fate[t] = "asked" THEN "stopped" ELSE fate[t]]
      /\ asked' = asked /\ bound' = bound /\ collections' = collections
      /\ indexes' = collections /\ settings' = NewSettings /\ typed' = {} /\ input' = 0
  BY DEF Revisit, serverVars
<1>2. fate \in Seq(Fates) /\ Len(fate) = asked /\ Len(<<>>) = 0 /\ <<>> \in Seq(Message)
  BY DEF IInv, ShapesOK
<1>3. /\ fate' \in Seq(Fates) /\ Len(fate') = asked
      /\ \A u \in 1 .. asked : fate'[u] # "asked"
  BY <1>1, <1>2 DEF Fates
<1>4. ShapesOK'
  BY <1>1, <1>2, <1>3, NewSettingsOK DEF IInv, ShapesOK
<1>5. StatusOK'
  <2>1. ~isLoading'
    BY <1>1 DEF isLoading
  <2> QED
    BY <1>1, <1>3, <2>1 DEF StatusOK
<1>6. TalkOK(messages', fate', asked')
  BY <1>1, <1>2 DEF TalkOK
<1> QED
  BY <1>1, <1>4, <1>5, <1>6, NewSettingsOK DEF IInv

-----------------------------------------------------------------------------
(* The server's side of an answer.                                         *)

LEMMA TheStream ==
    ASSUME IInv, NEW s \in streams
    PROVE  /\ s \in Stream /\ StreamOK(s, messages) /\ TalkOK(s.body.messages, fate, asked)
           /\ s.turn = asked /\ fate[asked] = "asked" /\ streams = {s}
           /\ isLoading /\ status # "error" /\ error = NoError
           /\ asked \in Nat \ {0} /\ fate \in Seq(Fates) /\ Len(fate) = asked
           /\ messages \in Seq(Message) /\ s.body.messages \in Seq(Message)
<1>1. s \in Stream /\ s.turn = asked /\ fate[asked] = "asked" /\ isLoading
  BY DEF IInv, ShapesOK, StatusOK
<1>2. streams = {s}
  BY DEF IInv, StatusOK
<1>3. status # "error" /\ error = NoError
  BY <1>1 DEF IInv, StatusOK, isLoading
<1>4. asked \in Nat \ {0} /\ s.body.messages \in Seq(Message)
  BY <1>1 DEF Stream, Body
<1> QED
  BY <1>1, <1>2, <1>3, <1>4 DEF IInv, ShapesOK

LEMMA RefusalType == \A body : Refusal(body) \in Refusals \cup {Accept}
BY DEF Refusal, Refusals, FieldNames

LEMMA FailuresAreErrors ==
    ASSUME NEW r \in Failures \cup Refusals
    PROVE  /\ Error(r) \in Parts /\ Error(r).type = "error" /\ Error(r).reason = r
           /\ r # NoError
BY DEF Error, Parts, PartTypes, Failures, Refusals, FieldNames, NoError

LEMMA PartsOfAnswer ==
    \A type \in PartTypes : Part(type) \in Parts /\ Part(type).type = type
BY DEF Part, Parts

LEMMA OnePartMore ==
    ASSUME NEW w \in Seq(Parts), NEW p \in Parts
    PROVE  /\ w \o <<p>> \in Seq(Parts) /\ Len(w \o <<p>>) = Len(w) + 1
           /\ \A i \in 1 .. Len(w) : (w \o <<p>>)[i] = w[i]
           /\ (w \o <<p>>)[Len(w) + 1] = p
OBVIOUS

LEMMA StreamSet ==
    ASSUME NEW s \in Stream, NEW w \in Seq(Parts), NEW phase \in {"asked", "found", "over"},
           NEW sent \in Nat
    PROVE  [s EXCEPT !.wire = w, !.phase = phase, !.sent = sent] \in Stream
BY DEF Stream

\* A stream that has become f: what has been received is as before.
LEMMA Replaced ==
    ASSUME IInv, NEW s \in streams, NEW f \in Stream, streams' = {f},
           f.turn = s.turn, f.body = s.body, f.typed = s.typed, f.docs = s.docs,
           f.tokens = s.tokens, f.phase # "asked", WireOK(f),
           messages = s.body.messages => f.wire # <<>> /\ (Lead(f) > 0 \/ f.wire[1].type = "error"),
           UNCHANGED <<serverVars, indexes, pageVars, messages, status, error, fate, asked>>
    PROVE  IInv'
<1>1. /\ StreamOK(s, messages) /\ TalkOK(s.body.messages, fate, asked) /\ s.turn = asked
      /\ fate[asked] = "asked" /\ streams = {s} /\ isLoading
  BY TheStream
<1>2. /\ messages' = messages /\ status' = status /\ error' = error /\ fate' = fate
      /\ asked' = asked /\ bound' = bound /\ collections' = collections /\ indexes' = indexes
      /\ settings' = settings /\ typed' = typed /\ input' = input
  BY DEF serverVars, pageVars
<1>3. StreamOK(f, messages)
  <2>1. Answer(f) = Answer(s)
    BY DEF Answer
  <2> QED
    BY <1>1, <2>1 DEF StreamOK
<1>4. ShapesOK'
  BY <1>2 DEF IInv, ShapesOK
<1>5. StatusOK'
  <2>1. isLoading'
    BY <1>1, <1>2 DEF isLoading
  <2> QED
    BY <1>1, <1>2, <2>1 DEF IInv, StatusOK
<1> QED
  BY <1>1, <1>2, <1>3, <1>4, <1>5 DEF IInv

\* Nothing comes after an end or an error.
LEMMA EndInv ==
    ASSUME IInv, NEW s \in streams, s.phase # "over", NEW p \in Parts,
           p.type \in {"text-end", "error"}, p.type = "error" => p.reason # NoError,
           s.phase = "asked" => p.type = "error",
           Put(s, [s EXCEPT !.phase = "over"], <<p>>)
    PROVE  IInv'
<1> DEFINE f == [s EXCEPT !.phase = "over", !.wire = @ \o <<p>>]
<1>1. /\ s \in Stream /\ StreamOK(s, messages) /\ streams = {s}
      /\ s.wire \in Seq(Parts) /\ Len(s.wire) \in Nat
      /\ s.sent \in Nat /\ s.tokens \in Nat /\ s.docs \in Nat
  <2>1. s \in Stream /\ StreamOK(s, messages) /\ streams = {s}
    BY TheStream
  <2> QED
    BY <2>1 DEF Stream
<1>2. /\ streams' = {f}
      /\ UNCHANGED <<serverVars, indexes, pageVars, messages, status, error, fate, asked>>
  BY <1>1 DEF Put, Stream
<1>3. /\ f \in Stream /\ f.wire = s.wire \o <<p>> /\ f.phase = "over" /\ f.turn = s.turn
      /\ f.body = s.body /\ f.typed = s.typed /\ f.docs = s.docs /\ f.tokens = s.tokens
      /\ f.sent = s.sent
  <2>1. s.wire \o <<p>> \in Seq(Parts)
    BY <1>1, OnePartMore
  <2>2. f = [s EXCEPT !.wire = s.wire \o <<p>>, !.phase = "over", !.sent = s.sent]
    BY <1>1 DEF Stream
  <2>3. f \in Stream
    BY <1>1, <2>1, <2>2, StreamSet
  <2> QED
    BY <1>1, <2>3 DEF Stream
<1>4. /\ f.wire \in Seq(Parts) /\ Len(f.wire) = Len(s.wire) + 1
      /\ \A i \in 1 .. Len(s.wire) : f.wire[i] = s.wire[i]
      /\ f.wire[Len(s.wire) + 1] = p
  BY <1>1, <1>3
<1> HIDE DEF f
<1>5. Lead(f) = Lead(s) /\ Lead(s) \in Int /\ Lead(s) + (s.sent - s.tokens) = Len(s.wire)
  BY <1>1, <1>3, <1>4 DEF Lead
<1>6. WireOK(f)
  <2>1. WireOK(s)
    BY <1>1 DEF StreamOK
  <2>2. ASSUME NEW i \in 1 .. Len(f.wire)
        PROVE  /\ i < Lead(f) => f.wire[i].type = "source-document"
               /\ i = Lead(f) => f.wire[i].type = "text-start"
               /\ Lead(f) < i /\ i <= Lead(f) + (f.sent - f.tokens) => f.wire[i].type = "text-delta"
               /\ i > Lead(f) + (f.sent - f.tokens) => f.wire[i].type \in {"text-end", "error"}
               /\ f.wire[i].type = "error" => f.wire[i].reason # NoError
    <3>1. CASE i = Len(s.wire) + 1
      <4>1. Lead(s) <= Len(s.wire)
        BY <1>1, <1>5, <2>1 DEF WireOK
      <4> QED
        BY <1>1, <1>3, <1>4, <1>5, <3>1, <4>1
    <3>2. CASE i \in 1 .. Len(s.wire)
      BY <1>3, <1>4, <1>5, <2>1, <3>2 DEF WireOK
    <3> QED
      BY <1>1, <1>4, <3>1, <3>2
  <2> QED
    BY <1>3, <1>5, <2>1, <2>2 DEF WireOK
<1>7. messages = s.body.messages => f.wire # <<>> /\ (Lead(f) > 0 \/ f.wire[1].type = "error")
  <2>1. CASE s.phase = "asked"
    <3>1. Len(s.wire) = 0
      BY <1>1, <2>1 DEF StreamOK
    <3> QED
      BY <1>4, <2>1, <3>1
  <2>2. CASE s.phase # "asked"
    <3>1. messages = s.body.messages =>
             s.wire # <<>> /\ (Lead(s) > 0 \/ s.wire[1].type = "error")
      BY <1>1, <2>2 DEF StreamOK
    <3>2. s.wire # <<>> => 1 \in 1 .. Len(s.wire)
      BY <1>1
    <3> QED
      BY <1>4, <1>5, <3>1, <3>2
  <2> QED
    BY <2>1, <2>2
<1> QED
  BY <1>2, <1>3, <1>6, <1>7, Replaced

LEMMA RefuseInv == ASSUME IInv, NEW s \in streams, Refuse(s) PROVE IInv'
<1> DEFINE r == Refusal(s.body)
<1>1. r \in Refusals
  BY RefusalType DEF Refuse
<1>2. s.phase = "asked" /\ Put(s, [s EXCEPT !.phase = "over"], <<Error(r)>>)
  BY DEF Refuse
<1> HIDE DEF r
<1> QED
  BY <1>1, <1>2, FailuresAreErrors, EndInv

LEMMA FinishInv == ASSUME IInv, NEW s \in streams, Finish(s) \/ Break(s) PROVE IInv'
<1>1. /\ "GENERATION_FAILED" \in Failures /\ "network error" \in Failures
      /\ "text-end" \in PartTypes
  BY DEF Failures, PartTypes
<1>2. CASE s.phase = "found" /\ Put(s, [s EXCEPT !.phase = "over"], <<Part("text-end")>>)
  BY <1>1, <1>2, PartsOfAnswer, EndInv
<1>3. CASE s.phase = "found" /\ Put(s, [s EXCEPT !.phase = "over"], <<Error("GENERATION_FAILED")>>)
  BY <1>1, <1>3, FailuresAreErrors, EndInv
<1>4. CASE s.phase # "over" /\ Put(s, [s EXCEPT !.phase = "over"], <<Error("network error")>>)
  BY <1>1, <1>4, FailuresAreErrors, EndInv
<1> QED
  BY <1>2, <1>3, <1>4 DEF Finish, Break

LEMMA GenerateInv == ASSUME IInv, NEW s \in streams, Generate(s) PROVE IInv'
<1> DEFINE p == Part("text-delta")
           f == [s EXCEPT !.sent = @ + 1, !.wire = @ \o <<p>>]
<1>1. /\ s \in Stream /\ StreamOK(s, messages) /\ streams = {s}
      /\ s.wire \in Seq(Parts) /\ Len(s.wire) \in Nat
      /\ s.sent \in Nat /\ s.tokens \in Nat /\ s.docs \in Nat
      /\ s.phase = "found" /\ s.sent < MaxTokens
  <2>1. s \in Stream /\ StreamOK(s, messages) /\ streams = {s}
    BY TheStream
  <2> QED
    BY <2>1 DEF Stream, Generate
<1>2. p \in Parts /\ p.type = "text-delta"
  BY PartsOfAnswer DEF PartTypes
<1> HIDE DEF p
<1>3. /\ streams' = {f}
      /\ UNCHANGED <<serverVars, indexes, pageVars, messages, status, error, fate, asked>>
  BY <1>1 DEF Generate, Put, Stream, p
<1>4. /\ f \in Stream /\ f.wire = s.wire \o <<p>> /\ f.phase = "found" /\ f.turn = s.turn
      /\ f.body = s.body /\ f.typed = s.typed /\ f.docs = s.docs /\ f.tokens = s.tokens
      /\ f.sent = s.sent + 1
  <2>1. s.wire \o <<p>> \in Seq(Parts) /\ s.sent + 1 \in Nat
    BY <1>1, <1>2, OnePartMore
  <2>2. f = [s EXCEPT !.wire = s.wire \o <<p>>, !.phase = "found", !.sent = s.sent + 1]
    BY <1>1 DEF Stream
  <2>3. f \in Stream
    BY <1>1, <2>1, <2>2, StreamSet
  <2> QED
    BY <1>1, <2>3 DEF Stream
<1>5. /\ f.wire \in Seq(Parts) /\ Len(f.wire) = Len(s.wire) + 1
      /\ \A i \in 1 .. Len(s.wire) : f.wire[i] = s.wire[i]
      /\ f.wire[Len(s.wire) + 1] = p
  BY <1>1, <1>2, <1>4
<1> HIDE DEF f
<1>6. Lead(f) = Lead(s) /\ Lead(s) \in Int /\ Lead(s) + (s.sent - s.tokens) = Len(s.wire)
  <2>1. Len(f.wire) = Len(s.wire) + 1 /\ f.phase # "over" /\ f.tokens = s.tokens
    BY <1>4, <1>5
  <2>2. Lead(s) = Len(s.wire) - (s.sent - s.tokens)
    BY <1>1 DEF Lead
  <2>3. Lead(f) = (Len(s.wire) + 1) - ((s.sent + 1) - s.tokens)
    BY <1>1, <1>4, <2>1 DEF Lead
  <2>4. s.sent \in Int /\ s.tokens \in Int /\ Len(s.wire) \in Int
    BY <1>1
  <2> QED
    BY <2>2, <2>3, <2>4
<1>7. WireOK(f)
  <2>1. WireOK(s)
    BY <1>1 DEF StreamOK
  <2>2. ASSUME NEW i \in 1 .. Len(f.wire)
        PROVE  /\ i < Lead(f) => f.wire[i].type = "source-document"
               /\ i = Lead(f) => f.wire[i].type = "text-start"
               /\ Lead(f) < i /\ i <= Lead(f) + (f.sent - f.tokens) => f.wire[i].type = "text-delta"
               /\ i > Lead(f) + (f.sent - f.tokens) => f.wire[i].type \in {"text-end", "error"}
               /\ f.wire[i].type = "error" => f.wire[i].reason # NoError
    <3>1. CASE i = Len(s.wire) + 1
      <4>1. Lead(s) <= Len(s.wire)
        BY <1>1, <1>6, <2>1 DEF WireOK
      <4>2. f.wire[i].type = "text-delta" /\ Lead(f) < i /\ i = Lead(f) + (f.sent - f.tokens)
        <5>1. f.wire[i].type = "text-delta"
          BY <1>2, <1>5, <3>1
        <5>2. s.sent \in Int /\ s.tokens \in Int /\ Len(s.wire) \in Int
          BY <1>1
        <5>3. f.sent - f.tokens = (s.sent - s.tokens) + 1
          BY <1>4, <5>2
        <5>4. Lead(f) < i
          BY <1>6, <3>1, <4>1, <5>2
        <5>5. i = Lead(s) + ((s.sent - s.tokens) + 1)
          BY <1>6, <3>1, <5>2
        <5> QED
          BY <1>6, <5>1, <5>3, <5>4, <5>5
      <4>3. Lead(f) \in Int /\ f.sent - f.tokens \in Int
        BY <1>1, <1>4, <1>6
      <4> QED
        BY <4>2, <4>3
    <3>2. CASE i \in 1 .. Len(s.wire)
      <4>1. f.wire[i] = s.wire[i] /\ i <= Lead(s) + (s.sent - s.tokens)
        BY <1>1, <1>5, <1>6, <3>2
      <4>2. i <= Lead(f) + (f.sent - f.tokens)
        BY <1>1, <1>4, <1>6, <4>1
      <4>3. /\ i < Lead(s) => s.wire[i].type = "source-document"
            /\ i = Lead(s) => s.wire[i].type = "text-start"
            /\ Lead(s) < i => s.wire[i].type = "text-delta"
            /\ s.wire[i].type = "error" => s.wire[i].reason # NoError
        BY <2>1, <3>2, <4>1 DEF WireOK
      <4>4. ~(i > Lead(f) + (f.sent - f.tokens))
        <5>1. Lead(f) \in Int /\ f.sent - f.tokens \in Int /\ i \in Int
          BY <1>1, <1>4, <1>6
        <5> QED
          BY <4>2, <5>1
      <4> QED
        BY <1>6, <4>1, <4>3, <4>4
    <3> QED
      BY <1>1, <1>5, <3>1, <3>2
  <2>3. f.tokens <= f.sent /\ f.sent <= MaxTokens
    BY <1>1, <1>4, <2>1, ChatPageAssumption DEF WireOK
  <2> QED
    BY <1>4, <1>6, <2>1, <2>2, <2>3 DEF WireOK
<1>8. messages = s.body.messages => f.wire # <<>> /\ (Lead(f) > 0 \/ f.wire[1].type = "error")
  <2>1. messages = s.body.messages =>
           s.wire # <<>> /\ (Lead(s) > 0 \/ s.wire[1].type = "error")
    BY <1>1 DEF StreamOK
  <2>2. s.wire # <<>> => 1 \in 1 .. Len(s.wire)
    BY <1>1
  <2> QED
    BY <1>5, <1>6, <2>1, <2>2
<1> QED
  BY <1>3, <1>4, <1>7, <1>8, Replaced

LEMMA RetrieveInv == ASSUME IInv, NEW s \in streams, Retrieve(s) PROVE IInv'
<1>1. CASE Put(s, [s EXCEPT !.phase = "over"], <<Error("RETRIEVAL_FAILED")>>)
  BY <1>1, FailuresAreErrors, EndInv DEF Failures, Retrieve
<1>2. ASSUME NEW n \in 0 .. MaxDocs,
             Put(s, [s EXCEPT !.phase = "found"],
                 [i \in 1 .. n |-> Part("source-document")] \o <<Part("text-start")>>)
      PROVE  IInv'
  <2> DEFINE d == Part("source-document")
             b == Part("text-start")
             parts == [i \in 1 .. n |-> d] \o <<b>>
             f == [s EXCEPT !.phase = "found", !.wire = @ \o parts]
  <2>1. d \in Parts /\ d.type = "source-document" /\ b \in Parts /\ b.type = "text-start"
    BY PartsOfAnswer DEF PartTypes
  <2> HIDE DEF d, b
  <2>2. n \in Nat /\ MaxDocs \in Nat
    BY ChatPageAssumption
  <2>3. /\ parts \in Seq(Parts) /\ Len(parts) = n + 1
        /\ \A i \in 1 .. n : parts[i] = d
        /\ parts[n + 1] = b
    <3>1. [i \in 1 .. n |-> d] \in Seq(Parts) /\ Len([i \in 1 .. n |-> d]) = n
      BY <2>1, <2>2
    <3> QED
      BY <2>1, <2>2, <3>1
  <2>4. /\ s \in Stream /\ StreamOK(s, messages) /\ streams = {s} /\ s.phase = "asked"
        /\ s.wire = <<>> /\ s.sent = 0 /\ s.docs = 0 /\ s.tokens = 0
    <3>1. s \in Stream /\ StreamOK(s, messages) /\ streams = {s} /\ s.phase = "asked"
      BY TheStream DEF Retrieve
    <3>2. s.wire = <<>> /\ s.sent = 0 /\ s.docs = 0
      BY <3>1 DEF StreamOK
    <3>3. s.tokens <= s.sent /\ s.tokens \in Nat
      BY <3>1 DEF StreamOK, WireOK, Stream
    <3> QED
      BY <3>1, <3>2, <3>3
  <2>5. /\ streams' = {f}
        /\ UNCHANGED <<serverVars, indexes, pageVars, messages, status, error, fate, asked>>
    BY <1>2, <2>4 DEF Put, Stream, d, b
  <2> HIDE DEF parts
  <2>6. <<>> \o parts = parts
    BY <2>3
  <2>7. /\ f \in Stream /\ f.wire = parts /\ f.phase = "found" /\ f.turn = s.turn
        /\ f.body = s.body /\ f.typed = s.typed /\ f.docs = 0 /\ f.tokens = 0 /\ f.sent = 0
    BY <2>3, <2>4, <2>6 DEF Stream
  <2> HIDE DEF f
  <2>8. Lead(f) = n + 1
    BY <2>2, <2>3, <2>7 DEF Lead
  <2>9. WireOK(f)
    <3>1. ASSUME NEW i \in 1 .. Len(f.wire)
          PROVE  /\ i < Lead(f) => f.wire[i].type = "source-document"
                 /\ i = Lead(f) => f.wire[i].type = "text-start"
                 /\ i <= Lead(f) /\ f.wire[i].type # "error"
      BY <2>1, <2>2, <2>3, <2>7, <2>8
    <3>2. 0 <= MaxTokens
      BY ChatPageAssumption
    <3> QED
      BY <2>2, <2>3, <2>7, <2>8, <3>1, <3>2 DEF WireOK
  <2>10. f.wire # <<>> /\ Lead(f) > 0
    BY <2>2, <2>3, <2>7, <2>8
  <2> QED
    BY <2>4, <2>5, <2>7, <2>9, <2>10, Replaced
<1> QED
  BY <1>1, <1>2 DEF Retrieve

-----------------------------------------------------------------------------
(* The page reads an answer.                                               *)

LEMMA RestOfWire ==
    ASSUME NEW w \in Seq(Parts), w # <<>>
    PROVE  /\ Tail(w) \in Seq(Parts) /\ Len(w) \in Nat \ {0} /\ Len(Tail(w)) = Len(w) - 1
           /\ \A i \in 1 .. Len(Tail(w)) : Tail(w)[i] = w[i + 1]
           /\ Head(w) = w[1] /\ w[1] \in Parts
OBVIOUS

LEMMA StreamRead ==
    ASSUME NEW s \in Stream, NEW w \in Seq(Parts), NEW docs \in Nat, NEW tokens \in Nat
    PROVE  [s EXCEPT !.wire = w, !.docs = docs, !.tokens = tokens] \in Stream
BY DEF Stream

LEMMA LeadIsInt == \A s \in Stream : Lead(s) \in Int
<1> SUFFICES ASSUME NEW s \in Stream PROVE Lead(s) \in Int
  OBVIOUS
<1>1. Len(s.wire) \in Nat /\ s.sent \in Nat /\ s.tokens \in Nat
  BY DEF Stream
<1> QED
  BY <1>1 DEF Lead

\* When r is s without the first part of the wire, the other parts are in order still.
LEMMA WireShifts ==
    ASSUME NEW s \in Stream, NEW r \in Stream, s.wire # <<>>, r.wire = Tail(s.wire),
           r.sent = s.sent, r.phase = s.phase, WireOK(s),
           \/ Lead(s) > 0 /\ r.tokens = s.tokens
           \/ Lead(s) = 0 /\ r.tokens = s.tokens + 1 /\ s.tokens < s.sent,
           r.docs + (IF Lead(r) > 0 THEN Lead(r) - 1 ELSE 0) <= MaxDocs
    PROVE  WireOK(r)
<1>1. /\ Len(s.wire) \in Nat \ {0} /\ Len(r.wire) = Len(s.wire) - 1
      /\ \A i \in 1 .. Len(r.wire) : r.wire[i] = s.wire[i + 1]
  BY RestOfWire DEF Stream
<1>2. s.sent \in Nat /\ s.tokens \in Nat /\ r.sent \in Nat /\ r.tokens \in Nat
  BY DEF Stream
<1> DEFINE over == IF s.phase = "over" THEN 1 ELSE 0
<1>3. Lead(s) \in Int /\ Lead(r) \in Int
  BY LeadIsInt
<1>4. Lead(r) = (Lead(s) - 1) + (r.tokens - s.tokens)
  <2>1. Lead(s) = Len(s.wire) - (s.sent - s.tokens) - over
    BY DEF Lead
  <2>2. Lead(r) = (Len(s.wire) - 1) - (s.sent - r.tokens) - over
    BY <1>1 DEF Lead
  <2>3. over \in Int /\ Len(s.wire) \in Int
    BY <1>1
  <2> HIDE DEF over
  <2> QED
    BY <1>2, <2>1, <2>2, <2>3
<1> DEFINE d == s.sent - s.tokens
           e == r.sent - r.tokens
<1>5. d \in Int /\ e \in Int /\ Lead(r) + e = (Lead(s) + d) - 1
  <2>1. r.sent - r.tokens = (s.sent - s.tokens) - (r.tokens - s.tokens)
    BY <1>2
  <2>2. r.tokens - s.tokens \in Int /\ d \in Int /\ e \in Int
    BY <1>2
  <2> QED
    BY <1>3, <1>4, <2>1, <2>2
<1>6. \/ Lead(r) = Lead(s) - 1 /\ Lead(s) > 0
      \/ Lead(r) = 0 /\ Lead(s) = 0
  <2>1. CASE Lead(s) > 0 /\ r.tokens = s.tokens
    <3>1. r.tokens - s.tokens = 0
      BY <1>2, <2>1
    <3>2. Lead(r) = (Lead(s) - 1) + 0
      BY <1>4, <3>1
    <3> QED
      BY <1>3, <2>1, <3>2
  <2>2. CASE Lead(s) = 0 /\ r.tokens = s.tokens + 1
    <3>1. r.tokens - s.tokens = 1
      BY <1>2, <2>2
    <3> QED
      BY <1>4, <2>2, <3>1
  <2> QED
    BY <2>1, <2>2
<1>7. ASSUME NEW i \in 1 .. Len(r.wire)
      PROVE  /\ i < Lead(r) => r.wire[i].type = "source-document"
             /\ i = Lead(r) => r.wire[i].type = "text-start"
             /\ Lead(r) < i /\ i <= Lead(r) + e => r.wire[i].type = "text-delta"
             /\ i > Lead(r) + e => r.wire[i].type \in {"text-end", "error"}
             /\ r.wire[i].type = "error" => r.wire[i].reason # NoError
  <2>1. r.wire[i] = s.wire[i + 1] /\ i + 1 \in 1 .. Len(s.wire) /\ i \in Nat \ {0}
    BY <1>1
  <2>2. /\ i + 1 < Lead(s) => s.wire[i + 1].type = "source-document"
        /\ i + 1 = Lead(s) => s.wire[i + 1].type = "text-start"
        /\ Lead(s) < i + 1 /\ i + 1 <= Lead(s) + d => s.wire[i + 1].type = "text-delta"
        /\ i + 1 > Lead(s) + d => s.wire[i + 1].type \in {"text-end", "error"}
        /\ s.wire[i + 1].type = "error" => s.wire[i + 1].reason # NoError
    BY <2>1 DEF WireOK
  <2> HIDE DEF d, e
  <2>3. /\ i < Lead(r) => i + 1 < Lead(s)
        /\ i = Lead(r) => i + 1 = Lead(s)
        /\ Lead(r) < i => Lead(s) < i + 1
    BY <1>3, <1>6, <2>1
  <2>4. /\ i <= Lead(r) + e => i + 1 <= Lead(s) + d
        /\ i > Lead(r) + e => i + 1 > Lead(s) + d
    BY <1>3, <1>5, <2>1
  <2> QED
    BY <2>1, <2>2, <2>3, <2>4
<1>8. Lead(r) >= 0 /\ r.tokens <= r.sent /\ r.sent <= MaxTokens
  <2>1. s.tokens <= s.sent /\ s.sent <= MaxTokens
    BY DEF WireOK
  <2>2. Lead(r) >= 0
    BY <1>3, <1>6
  <2> QED
    BY <1>2, <2>1, <2>2
<1> QED
  BY <1>7, <1>8 DEF WireOK

\* What the first part on the wire says of the others.
LEMMA FirstOfWire ==
    ASSUME NEW s \in Stream, s.wire # <<>>, WireOK(s)
    PROVE  /\ s.wire[1].type \in PartTypes /\ Lead(s) \in Nat
           /\ Lead(s) > 0 => s.wire[1].type \in {"source-document", "text-start"}
           /\ s.wire[1].type = "source-document" => Lead(s) > 1
           /\ s.wire[1].type = "text-start" => Lead(s) = 1
           /\ s.wire[1].type = "text-delta" => Lead(s) = 0 /\ s.tokens < s.sent
           /\ s.wire[1].type = "error" =>
                 s.wire[1].reason \in Failures \cup Refusals /\ s.wire[1].reason # NoError
<1>1. Len(s.wire) \in Nat \ {0} /\ s.wire[1] \in Parts /\ 1 \in 1 .. Len(s.wire)
  BY RestOfWire DEF Stream
<1>2. s.sent \in Nat /\ s.tokens \in Nat
  BY DEF Stream
<1>3. Lead(s) \in Nat
  <2>1. Lead(s) \in Int
    BY <1>1, <1>2 DEF Lead
  <2> QED
    BY <2>1 DEF WireOK
<1>4. /\ 1 < Lead(s) => s.wire[1].type = "source-document"
      /\ 1 = Lead(s) => s.wire[1].type = "text-start"
      /\ Lead(s) < 1 /\ 1 <= Lead(s) + (s.sent - s.tokens) => s.wire[1].type = "text-delta"
      /\ 1 > Lead(s) + (s.sent - s.tokens) => s.wire[1].type \in {"text-end", "error"}
      /\ s.wire[1].type = "error" => s.wire[1].reason # NoError
  BY <1>1 DEF WireOK
<1>5. s.wire[1].type \in PartTypes /\ s.wire[1].reason \in {NoError} \cup Failures \cup Refusals
  BY <1>1 DEF Parts
<1>6. 1 < Lead(s) \/ 1 = Lead(s) \/ (Lead(s) = 0 /\ Lead(s) < 1)
  BY <1>3
<1>7. CASE Lead(s) = 0
  <2>1. 1 <= Lead(s) + (s.sent - s.tokens) \/ 1 > Lead(s) + (s.sent - s.tokens)
    BY <1>2, <1>7
  <2>2. 1 <= Lead(s) + (s.sent - s.tokens) => s.tokens < s.sent
    BY <1>2, <1>7
  <2> QED
    BY <1>3, <1>4, <1>5, <1>7, <2>1, <2>2
<1>8. CASE 1 < Lead(s) \/ 1 = Lead(s)
  BY <1>3, <1>4, <1>5, <1>8
<1> QED
  BY <1>6, <1>7, <1>8

\* The answer's message is replaced, or it is the first below the question.
LEMMA WriteInv ==
    ASSUME IInv, NEW s \in streams, s.wire # <<>>, NEW r \in Stream, streams' = {r}, write(r),
           r.turn = s.turn, r.body = s.body, r.typed = s.typed, r.phase = s.phase, WireOK(r),
           UNCHANGED <<serverVars, indexes, pageVars, asked>>
    PROVE  IInv'
<1> DEFINE history == s.body.messages
           new == Answer(r)
<1>1. /\ s \in Stream /\ StreamOK(s, messages) /\ TalkOK(history, fate, asked)
      /\ s.turn = asked /\ fate[asked] = "asked" /\ streams = {s} /\ error = NoError
      /\ asked \in Nat \ {0} /\ messages \in Seq(Message) /\ history \in Seq(Message)
  BY TheStream
<1>2. /\ history # <<>> /\ Last(history) = User(s.turn, Question) /\ s.phase # "asked"
      /\ messages = history \/ messages = Append(history, Answer(s))
  BY <1>1 DEF StreamOK
<1>3. /\ new \in Message /\ ~IsUser(new) /\ new.turn = asked /\ new.text = r.tokens
      /\ new.docs = r.docs
  BY <1>1 DEF Answer, Assistant, IsUser, Message, Stream
<1>4. Answer(s) \in Message /\ ~IsUser(Answer(s)) /\ Answer(s).turn = r.turn
  BY <1>1 DEF Answer, Assistant, IsUser, Message, Stream
<1>5. r.tokens <= MaxTokens /\ r.docs <= MaxDocs
  <2>1. r.tokens \in Nat /\ r.sent \in Nat /\ r.docs \in Nat /\ Len(r.wire) \in Nat
    BY DEF Stream
  <2>2. Lead(r) \in Int
    BY <2>1 DEF Lead
  <2>3. MaxTokens \in Nat /\ MaxDocs \in Nat
    BY ChatPageAssumption
  <2>4. r.tokens <= r.sent /\ r.sent <= MaxTokens
    BY DEF WireOK
  <2>5. r.docs + (IF Lead(r) > 0 THEN Lead(r) - 1 ELSE 0) <= MaxDocs
    BY DEF WireOK
  <2> QED
    BY <2>1, <2>2, <2>3, <2>4, <2>5
<1>6. /\ status' = "streaming" /\ error' = error /\ fate' = fate /\ asked' = asked
      /\ bound' = bound /\ collections' = collections /\ indexes' = indexes
      /\ settings' = settings /\ typed' = typed /\ input' = input
  BY DEF write, serverVars, pageVars
<1>7. messages' = Append(history, new)
  <2>1. messages' = IF ~IsUser(Last(messages)) /\ Last(messages).turn = r.turn
                    THEN Append(Front(messages), new) ELSE Append(messages, new)
    BY DEF write, Answer
  <2>2. CASE messages = history
    <3>1. IsUser(Last(messages))
      BY <1>2, <2>2 DEF User, IsUser
    <3> QED
      BY <2>1, <2>2, <3>1
  <2>3. CASE messages = Append(history, Answer(s))
    <3>1. Last(messages) = Answer(s) /\ Front(messages) = history
      BY <1>1, <1>4, <2>3, AppendFacts, FrontOfAppend
    <3> QED
      BY <1>4, <2>1, <3>1
  <2> QED
    BY <1>2, <2>2, <2>3
<1>8. /\ Append(history, new) \in Seq(Message) /\ Len(Append(history, new)) = Len(history) + 1
      /\ Len(history) \in Nat /\ Append(history, new) # history
  <2>1. Append(history, new) \in Seq(Message) /\ Len(Append(history, new)) = Len(history) + 1
    BY <1>1, <1>3, AppendFacts
  <2>2. Len(history) \in Nat
    BY <1>1
  <2> QED
    BY <2>1, <2>2
<1>9. /\ Len(history) > 0 /\ IsUser(history[Len(history)])
      /\ history[Len(history)].turn = asked
  <2>1. Len(history) > 0
    BY <1>1, <1>2
  <2> QED
    BY <1>1, <1>2, <2>1 DEF Last, User, IsUser
<1>10. TalkOK(Append(history, new), fate, asked)
  <2>1. \A u \in 1 .. asked : fate[u] = "answered" => fate[u] = "answered"
    OBVIOUS
  <2>2. asked <= asked /\ asked \in Nat /\ new.turn <= asked
    BY <1>1, <1>3
  <2> HIDE DEF history, new
  <2> QED
    BY <1>1, <1>3, <1>5, <1>9, <2>1, <2>2, TalkGrows
<1>11. StreamOK(r, messages')
  BY <1>1, <1>2, <1>7, <1>8 DEF StreamOK
<1>12. ShapesOK'
  BY <1>6, <1>7, <1>8 DEF IInv, ShapesOK
<1>13. StatusOK'
  <2>1. isLoading'
    BY <1>6 DEF isLoading
  <2> QED
    BY <1>1, <1>6, <2>1 DEF IInv, StatusOK
<1>14. AsTyped(settings, typed)' /\ TalkOK(messages, fate, asked)'
  BY <1>6, <1>7, <1>10 DEF IInv
<1> QED
  BY <1>1, <1>6, <1>11, <1>12, <1>13, <1>14 DEF IInv

\* A part of the answer that is no end.
LEMMA PartInv ==
    ASSUME IInv, NEW s \in streams, Receive(s),
           s.wire[1].type \in {"source-document", "text-start", "text-delta"}
    PROVE  IInv'
<1> DEFINE rest == [s EXCEPT !.wire = Tail(@)]
           w == Tail(s.wire)
<1>1. s \in Stream /\ streams = {s} /\ WireOK(s) /\ s.wire # <<>>
  BY TheStream DEF StreamOK, Receive
<1>2. /\ s.wire \in Seq(Parts) /\ s.docs \in Nat /\ s.tokens \in Nat
      /\ Head(s.wire) = s.wire[1] /\ w \in Seq(Parts) /\ Len(w) \in Nat
      /\ Len(w) = Len(s.wire) - 1 /\ Len(s.wire) \in Nat
  <2>1. s.wire \in Seq(Parts) /\ s.docs \in Nat /\ s.tokens \in Nat
    BY <1>1 DEF Stream
  <2> QED
    BY <1>1, <2>1, RestOfWire
<1>3. rest \in Stream /\ rest = [s EXCEPT !.wire = w, !.docs = s.docs, !.tokens = s.tokens]
  BY <1>1, <1>2 DEF Stream
<1>4. Lead(s) \in Nat /\ s.docs + (IF Lead(s) > 0 THEN Lead(s) - 1 ELSE 0) <= MaxDocs
  BY <1>1, FirstOfWire DEF WireOK
<1>5. Lead(s) = Len(s.wire) - (s.sent - s.tokens) - (IF s.phase = "over" THEN 1 ELSE 0)
  BY DEF Lead
<1> DEFINE r(docs, tokens) == [s EXCEPT !.wire = w, !.docs = docs, !.tokens = tokens]
<1>6. ASSUME NEW docs \in Nat, NEW tokens \in Nat
      PROVE  /\ r(docs, tokens) \in Stream /\ r(docs, tokens).wire = w
             /\ r(docs, tokens).docs = docs /\ r(docs, tokens).tokens = tokens
             /\ r(docs, tokens).sent = s.sent /\ r(docs, tokens).phase = s.phase
             /\ r(docs, tokens).turn = s.turn /\ r(docs, tokens).body = s.body
             /\ r(docs, tokens).typed = s.typed
  BY <1>1, <1>2, StreamRead DEF Stream
<1>7. ASSUME NEW docs \in Nat, NEW tokens \in Nat,
             write(r(docs, tokens)), streams' = (streams \ {s}) \cup {r(docs, tokens)},
             \/ Lead(s) > 1 /\ docs = s.docs + 1 /\ tokens = s.tokens
             \/ Lead(s) = 1 /\ docs = s.docs /\ tokens = s.tokens
             \/ Lead(s) = 0 /\ docs = s.docs /\ tokens = s.tokens + 1 /\ s.tokens < s.sent
      PROVE  IInv'
  <2> DEFINE f == r(docs, tokens)
  <2>1. /\ f \in Stream /\ f.wire = w /\ f.docs = docs /\ f.tokens = tokens
        /\ f.sent = s.sent /\ f.phase = s.phase /\ f.turn = s.turn /\ f.body = s.body
        /\ f.typed = s.typed
    BY <1>6
  <2>2. streams' = {f} /\ write(f)
    BY <1>1, <1>7
  <2> HIDE DEF f, w
  <2>3. s.sent \in Nat
    BY <1>1 DEF Stream
  <2>4. Lead(f) = (Lead(s) - 1) + (tokens - s.tokens)
    <3> DEFINE over == IF s.phase = "over" THEN 1 ELSE 0
    <3>1. Lead(f) = (Len(s.wire) - 1) - (s.sent - tokens) - over
      BY <1>2, <2>1 DEF Lead
    <3>2. Lead(s) = Len(s.wire) - (s.sent - s.tokens) - over /\ over \in Int
      BY <1>5
    <3>3. /\ Len(s.wire) \in Int /\ s.sent \in Int /\ s.tokens \in Int /\ tokens \in Int
          /\ over \in Int
      BY <1>2, <2>3, <3>2
    <3> HIDE DEF over
    <3> DEFINE d == s.sent - s.tokens
               k == tokens - s.tokens
    <3>4. s.sent - tokens = d - k /\ d \in Int /\ k \in Int
      BY <3>3
    <3>5. Lead(f) = (Len(s.wire) - 1) - (d - k) - over
      BY <3>1, <3>4
    <3>6. Lead(s) = Len(s.wire) - d - over
      BY <3>2
    <3> HIDE DEF d, k
    <3>7. Lead(f) = (Lead(s) - 1) + k
      BY <3>3, <3>4, <3>5, <3>6
    <3> QED
      BY <3>7 DEF k
  <2>5. f.docs + (IF Lead(f) > 0 THEN Lead(f) - 1 ELSE 0) <= MaxDocs
    <3>1. MaxDocs \in Nat
      BY ChatPageAssumption
    <3>2. tokens = s.tokens => tokens - s.tokens = 0
      BY <1>2
    <3>3. tokens = s.tokens + 1 => tokens - s.tokens = 1
      BY <1>2
    <3>4. CASE Lead(s) > 1 /\ docs = s.docs + 1 /\ tokens = s.tokens
      <4>1. Lead(f) = Lead(s) - 1
        BY <1>4, <2>4, <3>2, <3>4
      <4>2. s.docs + (Lead(s) - 1) <= MaxDocs
        BY <1>4, <3>4
      <4> QED
        BY <1>2, <1>4, <2>1, <3>1, <3>4, <4>1, <4>2
    <3>5. CASE Lead(s) = 1 /\ docs = s.docs /\ tokens = s.tokens
      <4>1. Lead(f) = 0
        BY <2>4, <3>2, <3>5
      <4> QED
        BY <1>2, <1>4, <2>1, <3>1, <3>5, <4>1
    <3>6. CASE Lead(s) = 0 /\ docs = s.docs /\ tokens = s.tokens + 1
      <4>1. Lead(f) = 0
        BY <2>4, <3>3, <3>6
      <4> QED
        BY <1>2, <1>4, <2>1, <3>1, <3>6, <4>1
    <3> QED
      BY <1>7, <3>4, <3>5, <3>6
  <2>6. \/ Lead(s) > 0 /\ f.tokens = s.tokens
        \/ Lead(s) = 0 /\ f.tokens = s.tokens + 1 /\ s.tokens < s.sent
    BY <1>4, <1>7, <2>1
  <2>7. WireOK(f)
    BY <1>1, <2>1, <2>5, <2>6, WireShifts DEF w
  <2>8. UNCHANGED <<serverVars, indexes, pageVars, asked>>
    BY DEF Receive
  <2> QED
    BY <1>1, <2>1, <2>2, <2>7, <2>8, WriteInv
<1>8. CASE s.wire[1].type = "source-document"
  <2>1. [rest EXCEPT !.docs = @ + 1] = r(s.docs + 1, s.tokens)
    BY <1>1, <1>2, <1>3 DEF Stream
  <2>2. write(r(s.docs + 1, s.tokens)) /\ streams' = (streams \ {s}) \cup {r(s.docs + 1, s.tokens)}
    BY <1>2, <1>8, <2>1 DEF Receive
  <2>3. Lead(s) > 1 /\ s.docs + 1 \in Nat
    BY <1>1, <1>2, <1>8, FirstOfWire
  <2> QED
    BY <1>2, <1>7, <2>2, <2>3
<1>9. CASE s.wire[1].type = "text-start"
  <2>1. rest = r(s.docs, s.tokens)
    BY <1>3
  <2>2. write(r(s.docs, s.tokens)) /\ streams' = (streams \ {s}) \cup {r(s.docs, s.tokens)}
    BY <1>2, <1>9, <2>1 DEF Receive
  <2>3. Lead(s) = 1
    BY <1>1, <1>9, FirstOfWire
  <2> QED
    BY <1>2, <1>7, <2>2, <2>3
<1>10. CASE s.wire[1].type = "text-delta"
  <2>1. [rest EXCEPT !.tokens = @ + 1] = r(s.docs, s.tokens + 1)
    BY <1>1, <1>2, <1>3 DEF Stream
  <2>2. write(r(s.docs, s.tokens + 1)) /\ streams' = (streams \ {s}) \cup {r(s.docs, s.tokens + 1)}
    BY <1>2, <1>10, <2>1 DEF Receive
  <2>3. Lead(s) = 0 /\ s.tokens < s.sent /\ s.tokens + 1 \in Nat
    BY <1>1, <1>2, <1>10, FirstOfWire
  <2> QED
    BY <1>2, <1>7, <2>2, <2>3
<1> QED
  BY <1>8, <1>9, <1>10

\* An answer is over: nothing is under way.
LEMMA EndedInv ==
    ASSUME IInv, NEW s \in streams, NEW newStatus \in {"ready", "error"},
           NEW newError \in {NoError} \cup Failures \cup Refusals,
           NEW newFate \in {"answered", "failed"},
           newStatus = "error" <=> newError # NoError,
           Ended(s, newStatus, newError, newFate), streams' = {},
           TalkOK(messages, [fate EXCEPT ![asked] = newFate], asked),
           UNCHANGED <<serverVars, indexes, pageVars, asked>>
    PROVE  IInv'
<1>1. s.turn = asked /\ asked \in Nat \ {0} /\ fate \in Seq(Fates) /\ Len(fate) = asked
  BY TheStream
<1>2. /\ status' = newStatus /\ error' = newError /\ asked' = asked /\ messages' = messages
      /\ fate' = [fate EXCEPT ![asked] = newFate] /\ bound' = bound
      /\ collections' = collections /\ indexes' = indexes
      /\ settings' = settings /\ typed' = typed /\ input' = input
  BY <1>1 DEF Ended, serverVars, pageVars
<1>3. /\ fate' \in Seq(Fates) /\ Len(fate') = asked
      /\ \A u \in 1 .. asked : fate'[u] = IF u = asked THEN newFate ELSE fate[u]
  <2>1. asked \in 1 .. Len(fate) /\ newFate \in Fates
    BY <1>1 DEF Fates
  <2> QED
    BY <1>1, <1>2, <2>1, EntrySet
<1>4. ShapesOK'
  BY <1>2, <1>3 DEF IInv, ShapesOK
<1>5. StatusOK'
  <2>1. \A u \in 1 .. asked : fate'[u] # "asked"
    BY <1>3 DEF IInv, StatusOK
  <2>2. ~isLoading'
    BY <1>2 DEF isLoading
  <2> QED
    BY <1>2, <2>1, <2>2 DEF StatusOK
<1> QED
  BY <1>2, <1>4, <1>5 DEF IInv

LEMMA TextEndInv ==
    ASSUME IInv, NEW s \in streams, Receive(s), s.wire[1].type = "text-end" PROVE IInv'
<1> DEFINE history == s.body.messages
           g == [fate EXCEPT ![asked] = "answered"]
<1>1. /\ s \in Stream /\ StreamOK(s, messages) /\ streams = {s} /\ s.turn = asked
      /\ asked \in Nat \ {0} /\ fate \in Seq(Fates) /\ Len(fate) = asked
      /\ messages \in Seq(Message) /\ history \in Seq(Message)
  BY TheStream
<1>2. s.wire # <<>> /\ Head(s.wire) = s.wire[1] /\ WireOK(s)
  <2>1. s.wire # <<>> /\ s.wire \in Seq(Parts) /\ WireOK(s)
    BY <1>1 DEF Receive, Stream, StreamOK
  <2> QED
    BY <2>1, RestOfWire
<1>3. Ended(s, "ready", NoError, "answered") /\ streams' = {}
      /\ UNCHANGED <<serverVars, indexes, pageVars, asked>>
  BY <1>1, <1>2 DEF Receive
<1>4. messages = Append(history, Answer(s))
  <2>1. ~(Lead(s) > 0)
    BY <1>1, <1>2, FirstOfWire
  <2> QED
    BY <1>1, <1>2, <2>1 DEF StreamOK
<1>5. /\ history # <<>> /\ Last(history) = User(asked, Question)
      /\ \A i \in 1 .. (Len(history) - 1) : history[i].turn < asked
  BY <1>1 DEF StreamOK
<1>6. Answer(s) \in Message /\ ~IsUser(Answer(s)) /\ Answer(s).turn = asked
  BY <1>1 DEF Answer, Assistant, IsUser, Message, Stream
<1> DEFINE l == Len(history)
<1>7. /\ l \in Nat \ {0} /\ Len(messages) = l + 1 /\ messages[l + 1] = Answer(s)
      /\ \A i \in 1 .. l : messages[i] = history[i]
  <2>1. l \in Nat \ {0}
    BY <1>1, <1>5
  <2> QED
    BY <1>1, <1>4, <1>6, <2>1, AppendFacts
<1>8. /\ g \in Seq(Fates) /\ Len(g) = asked
      /\ \A u \in 1 .. asked : g[u] = IF u = asked THEN "answered" ELSE fate[u]
  <2>1. asked \in 1 .. Len(fate) /\ "answered" \in Fates
    BY <1>1 DEF Fates
  <2> QED
    BY <1>1, <2>1, EntrySet
<1>9. TalkOK(messages, fate, asked)
  BY DEF IInv
<1> HIDE DEF g, history
<1>10. ASSUME NEW i \in 1 .. Len(messages)
       PROVE  MessageOK(messages, g, asked, i) /\ FollowsQuestion(messages, i)
  <2>1. /\ MessageOK(messages, fate, asked, i) /\ FollowsQuestion(messages, i)
        /\ messages[i].turn \in 1 .. asked
    BY <1>1, <1>9, TurnsOfTalk DEF TalkOK
  <2>2. CASE messages[i].turn # asked
    BY <1>8, <2>1, <2>2 DEF MessageOK
  <2>3. CASE messages[i].turn = asked
    <3>1. i \in 1 .. l \/ i = l + 1
      BY <1>7
    <3>2. CASE i = l + 1
      BY <1>6, <1>7, <2>1, <3>2 DEF MessageOK
    <3>3. CASE i \in 1 .. l
      <4>1. ~(i \in 1 .. (l - 1))
        BY <1>1, <1>5, <1>7, <2>3, <3>3
      <4>2. i = l /\ i < Len(messages) /\ i + 1 = l + 1
        BY <1>7, <3>3, <4>1
      <4> QED
        BY <1>6, <1>7, <2>1, <2>3, <4>2 DEF MessageOK
    <3> QED
      BY <3>1, <3>2, <3>3
  <2> QED
    BY <2>2, <2>3, <2>1
<1>11. TalkOK(messages, g, asked)
  BY <1>10 DEF TalkOK
<1> QED
  BY <1>3, <1>11, EndedInv DEF g

LEMMA ErrorInv ==
    ASSUME IInv, NEW s \in streams, Receive(s), s.wire[1].type = "error" PROVE IInv'
<1> DEFINE g == [fate EXCEPT ![asked] = "failed"]
<1>1. /\ s \in Stream /\ StreamOK(s, messages) /\ streams = {s} /\ s.turn = asked
      /\ asked \in Nat \ {0} /\ fate \in Seq(Fates) /\ Len(fate) = asked
      /\ messages \in Seq(Message)
  BY TheStream
<1>2. s.wire # <<>> /\ Head(s.wire) = s.wire[1] /\ WireOK(s)
  <2>1. s.wire # <<>> /\ s.wire \in Seq(Parts) /\ WireOK(s)
    BY <1>1 DEF Receive, Stream, StreamOK
  <2> QED
    BY <2>1, RestOfWire
<1>3. Ended(s, "error", s.wire[1].reason, "failed") /\ streams' = {}
      /\ UNCHANGED <<serverVars, indexes, pageVars, asked>>
  BY <1>1, <1>2 DEF Receive
<1>4. s.wire[1].reason \in Failures \cup Refusals /\ s.wire[1].reason # NoError
  BY <1>1, <1>2, FirstOfWire
<1>5. TalkOK(messages, g, asked)
  <2>1. \A u \in 1 .. asked : g[u] = IF u = asked THEN "failed" ELSE fate[u]
    <3>1. asked \in 1 .. Len(fate) /\ "failed" \in Fates
      BY <1>1 DEF Fates
    <3> QED
      BY <1>1, <3>1, EntrySet
  <2>2. \A u \in 1 .. asked : g[u] = "answered" => fate[u] = "answered"
    BY <2>1
  <2> HIDE DEF g
  <2> QED
    BY <1>1, <2>2, TalkFate DEF IInv
<1> QED
  BY <1>3, <1>4, <1>5, EndedInv

LEMMA ReceiveInv == ASSUME IInv, NEW s \in streams, Receive(s) PROVE IInv'
<1>1. s \in Stream /\ s.wire # <<>> /\ WireOK(s)
  BY TheStream DEF StreamOK, Receive
<1>2. s.wire[1].type \in PartTypes
  BY <1>1, FirstOfWire
<1> QED
  BY <1>2, PartInv, TextEndInv, ErrorInv DEF PartTypes

-----------------------------------------------------------------------------
LEMMA NextInv == IInv /\ [Next]_vars => IInv'
<1> SUFFICES ASSUME IInv, [Next]_vars PROVE IInv'
  OBVIOUS
<1>1. ASSUME NEW s \in streams, Serve(s) \/ Break(s) \/ Receive(s) PROVE IInv'
  BY <1>1, RefuseInv, RetrieveInv, GenerateInv, FinishInv, ReceiveInv DEF Serve
<1>2. CASE UNCHANGED vars
  <2>1. /\ UNCHANGED chatVars /\ bound' = bound /\ collections' = collections
        /\ indexes' = indexes /\ settings' = settings /\ typed' = typed /\ input' = input
    BY <1>2 DEF vars, serverVars, pageVars
  <2>2. ShapesOK'
    BY <2>1 DEF IInv, ShapesOK, chatVars
  <2> QED
    BY <2>1, <2>2, ChatKept DEF IInv
<1> QED
  BY <1>1, <1>2, SettingsInv, OthersInv, SubmitInv, StopInv, RevisitInv DEF Next

\* What the conversation, its only answer under way and the settings are like, in every
\* state of the page.
THEOREM Invariance == Spec => []IInv
<1>1. Init => IInv
  BY InitInv
<1>2. IInv /\ [Next]_vars => IInv'
  BY NextInv
<1> QED
  BY <1>1, <1>2, PTL DEF Spec

-----------------------------------------------------------------------------
(* What the invariant means to the user.                                   *)

LEMMA TalkShown == IInv => \A i \in 1 .. Len(messages) : MessageOK(messages, fate, asked, i)
                                                        /\ FollowsQuestion(messages, i)
BY DEF IInv, TalkOK

LEMMA TypesHold == IInv => TypeOK
<1> SUFFICES ASSUME IInv PROVE TypeOK
  OBVIOUS
<1>1. ShapesOK /\ StatusOK
  BY DEF IInv
<1>2. DOMAIN settings = DOMAIN NewSettings /\ settings.tag \in Tags \cup {Blank}
  BY <1>1 DEF ShapesOK, Settings, NewSettings
<1>3. typed \subseteq DOMAIN FieldValues
  BY <1>1, FieldsOfForm DEF ShapesOK
<1>4. ASSUME NEW m \in Range(messages)
      PROVE  /\ m.turn \in 1 .. asked
             /\ IF IsUser(m) THEN m.text = Question
                ELSE m.text \in 0 .. MaxTokens /\ m.docs \in 0 .. MaxDocs
  <2>1. PICK i \in 1 .. Len(messages) : messages[i] = m
    BY <1>1, <1>4, InRange DEF ShapesOK
  <2>2. MessageOK(messages, fate, asked, i)
    BY <2>1, TalkShown
  <2>3. m \in Message
    BY <1>1, <2>1 DEF ShapesOK
  <2>4. m.turn \in Nat \ {0} /\ m.text \in Nat /\ m.docs \in Nat
    BY <2>3 DEF Message
  <2>5. MaxDocs \in Nat /\ MaxTokens \in Nat /\ asked \in Nat
    <3>1. bound.turns \in Nat
      BY <1>1, ChatPageAssumption DEF ShapesOK
    <3> QED
      BY <1>1, <3>1, ChatPageAssumption DEF ShapesOK
  <2> QED
    BY <2>1, <2>2, <2>4, <2>5 DEF MessageOK
<1> QED
  BY <1>1, <1>2, <1>3, <1>4 DEF ShapesOK, StatusOK, TypeOK

LEMMA AnswersStand == IInv => AnswersFollowTheirQuestion
<1> SUFFICES ASSUME IInv PROVE AnswersFollowTheirQuestion
  OBVIOUS
<1>1. DOMAIN messages = 1 .. Len(messages)
  BY DEF IInv, ShapesOK
<1> QED
  BY <1>1, TalkShown DEF FollowsQuestion, AnswersFollowTheirQuestion

\* The question that an answer is for has words.
LEMMA QuestionIsAsked == ASSUME IInv, NEW s \in streams PROVE QueryText(s.body.messages) # 0
<1> DEFINE history == s.body.messages
           l == Len(history)
           said == {i \in DOMAIN history : IsUser(history[i]) /\ HasText(history[i])}
<1>1. StreamOK(s, messages) /\ history \in Seq(Message)
  BY TheStream
<1>2. history # <<>> /\ Last(history) = User(s.turn, Question)
  BY <1>1 DEF StreamOK
<1>3. l \in Nat \ {0} /\ DOMAIN history = 1 .. l
  BY <1>1, <1>2
<1>4. history[l] = User(s.turn, Question)
  BY <1>2 DEF Last
<1>5. IsUser(history[l]) /\ HasText(history[l]) /\ getTextContent(history[l]) = 1
  BY <1>4 DEF IsUser, HasText, getTextContent, User, Question
<1>6. l \in said /\ said \subseteq 1 .. l
  BY <1>3, <1>5
<1>7. said # {} /\ Max(said) = l
  <2> HIDE DEF said, l
  <2> QED
    BY <1>3, <1>6, MaxOfLast
<1> HIDE DEF history, l
<1>8. QueryText(history) = getTextContent(history[Max(said)])
  BY <1>7 DEF QueryText
<1> QED
  BY <1>5, <1>7, <1>8 DEF history

LEMMA RefusalIsFair == IInv => RefusedOnlyForWhatWasTyped
<1> SUFFICES ASSUME IInv, NEW s \in streams PROVE Refusal(s.body) \in {Accept} \cup s.typed
  BY DEF RefusedOnlyForWhatWasTyped
<1> DEFINE set == s.body.settings
<1>1. s \in Stream /\ StreamOK(s, messages)
  BY TheStream
<1>2. set \in Settings /\ set.tag # Blank /\ AsTyped(set, s.typed)
  BY <1>1 DEF Stream, Body, StreamOK
<1>3. QueryText(s.body.messages) # 0
  BY QuestionIsAsked
<1>4. set.provider # Blank /\ set.embedProvider # Blank
  BY <1>2 DEF Settings, PROVIDERS, Blank
<1>5. Zero # Fine /\ Half # Fine /\ Blank # Text
  BY DEF Zero, Half, Fine, Blank, Text
<1> QED
  BY <1>2, <1>3, <1>4, <1>5 DEF Refusal, AsTyped

\* Of the answers shown, the one under way is the last message.
LEMMA AwaitedIsLast ==
    ASSUME IInv, NEW s \in streams, NEW i \in 1 .. Len(messages), ~IsUser(messages[i])
    PROVE  messages[i].turn = asked <=> i = Len(messages)
<1> DEFINE history == s.body.messages
           l == Len(history)
<1>1. /\ s \in Stream /\ StreamOK(s, messages) /\ s.turn = asked /\ asked \in Nat \ {0}
      /\ history \in Seq(Message)
  BY TheStream
<1>2. /\ history # <<>> /\ Last(history) = User(asked, Question)
      /\ \A j \in 1 .. (l - 1) : history[j].turn < asked
      /\ messages = history \/ messages = Append(history, Answer(s))
  BY <1>1 DEF StreamOK
<1>3. l \in Nat \ {0} /\ IsUser(history[l])
  <2>1. l \in Nat \ {0}
    BY <1>1, <1>2
  <2> QED
    BY <1>2, <2>1 DEF Last, IsUser, User
<1>4. Answer(s) \in Message /\ Answer(s).turn = asked
  BY <1>1 DEF Answer, Assistant, Message, Stream
<1> HIDE DEF history
<1>5. \A j \in 1 .. l : ~IsUser(history[j]) => history[j].turn < asked
  BY <1>2, <1>3
<1>6. CASE messages = history
  <2>1. i # l /\ messages[i].turn < asked
    BY <1>3, <1>5, <1>6
  <2> QED
    BY <1>1, <1>3, <1>6, <2>1
<1>7. CASE messages = Append(history, Answer(s))
  <2>1. /\ Len(messages) = l + 1 /\ messages[l + 1] = Answer(s)
        /\ \A j \in 1 .. l : messages[j] = history[j]
    BY <1>1, <1>4, <1>7, AppendFacts
  <2>2. CASE i = l + 1
    BY <1>4, <2>1, <2>2
  <2>3. CASE i \in 1 .. l
    <3>1. messages[i].turn < asked /\ i # l + 1
      BY <1>3, <1>5, <2>1, <2>3
    <3> QED
      BY <1>1, <2>1, <3>1
  <2> QED
    BY <1>3, <2>1, <2>2, <2>3
<1> QED
  BY <1>2, <1>6, <1>7

LEMMA DotsAreTrue == IInv => BubblesTellTheTruth
<1> SUFFICES ASSUME IInv, NEW i \in 1 .. Len(messages)
             PROVE  LET awaited == \E s \in streams : s.turn = messages[i].turn
                    IN  /\ ~IsUser(messages[i]) =>
                              (Bubble(i).body = "dots" <=> awaited /\ ~HasText(messages[i]))
                        /\ Bubble(i).body = "empty" => fate[messages[i].turn] # "asked"
  <2>1. DOMAIN messages = 1 .. Len(messages)
    BY DEF IInv, ShapesOK
  <2> QED
    BY <2>1 DEF BubblesTellTheTruth
<1>1. /\ isLoading <=> streams # {}
      /\ \A s \in streams : s.turn = asked
      /\ \A t \in 1 .. asked : fate[t] = "asked" => t = asked /\ streams # {}
  BY DEF IInv, StatusOK
<1>2. messages \in Seq(Message) /\ asked \in Nat /\ TalkOK(messages, fate, asked)
  <2>1. bound.turns \in Nat
    BY ChatPageAssumption DEF IInv, ShapesOK
  <2> QED
    BY <2>1 DEF IInv, ShapesOK
<1>3. messages[i].turn \in 1 .. asked
  BY <1>2, TurnsOfTalk
<1>4. Bubble(i).body = IF HasText(messages[i]) THEN "text"
                       ELSE IF isLastAssistant(i) THEN "dots" ELSE "empty"
  BY DEF Bubble
<1>5. CASE IsUser(messages[i])
  <2>1. HasText(messages[i])
    BY <1>5, TalkShown DEF MessageOK, HasText, getTextContent, Question
  <2> QED
    BY <1>4, <1>5, <2>1
<1>6. CASE ~IsUser(messages[i])
  <2>1. isLastAssistant(i) <=> \E s \in streams : s.turn = messages[i].turn
    BY <1>1, <1>6, AwaitedIsLast DEF isLastAssistant
  <2>2. fate[messages[i].turn] = "asked" => \E s \in streams : s.turn = messages[i].turn
    BY <1>1, <1>3
  <2> QED
    BY <1>4, <1>6, <2>1, <2>2
<1> QED
  BY <1>5, <1>6

LEMMA PromptIsTold == IInv => PromptIsTheConversation
<1> SUFFICES ASSUME IInv, NEW s \in streams
             PROVE  LET history == s.body.messages
                        told    == Told(history)
                        AnswerFollows(i) == \E j \in told : /\ i < j /\ ~IsUser(history[j])
                                                            /\ \A k \in told : i < k => j <= k
                    IN  /\ \A m \in Range(messages) :
                              m.turn < s.turn /\ HasText(m) => \E i \in told : history[i] = m
                        /\ \A i \in told :
                              IsUser(history[i]) /\ ~AnswerFollows(i) =>
                                  \/ fate[history[i].turn] \in {"stopped", "failed"}
                                  \/ \E m \in Range(messages) :
                                        /\ ~IsUser(m) /\ m.turn = history[i].turn
                                        /\ ~HasText(m)
  BY DEF PromptIsTheConversation
<1> DEFINE history == s.body.messages
           told == Told(history)
           l == Len(history)
           AnswerFollows(i) == \E j \in told : /\ i < j /\ ~IsUser(history[j])
                                               /\ \A k \in told : i < k => j <= k
<1>1. /\ s \in Stream /\ StreamOK(s, messages) /\ s.turn = asked /\ asked \in Nat \ {0}
      /\ history \in Seq(Message) /\ messages \in Seq(Message)
      /\ TalkOK(history, fate, asked) /\ fate \in Seq(Fates) /\ Len(fate) = asked
  BY TheStream
<1>2. /\ history # <<>> /\ Last(history) = User(asked, Question)
      /\ \A j \in 1 .. (l - 1) : history[j].turn < asked
      /\ messages = history \/ messages = Append(history, Answer(s))
  BY <1>1 DEF StreamOK
<1>3. /\ l \in Nat \ {0} /\ DOMAIN history = 1 .. l /\ history[l].turn = asked
      /\ IsUser(history[l])
  <2>1. l \in Nat \ {0} /\ DOMAIN history = 1 .. l
    BY <1>1, <1>2
  <2> QED
    BY <1>2, <2>1 DEF Last, User, IsUser
<1>4. Answer(s) \in Message /\ Answer(s).turn = asked
  BY <1>1 DEF Answer, Assistant, Message, Stream
<1>5. told = {i \in 1 .. l : HasText(history[i]) /\ ~(i = l /\ IsUser(history[i]))}
  BY <1>3 DEF Told
<1> HIDE DEF history, told
<1>6. \A i \in 1 .. l : i \in 1 .. Len(messages) /\ messages[i] = history[i]
  <2>1. CASE messages = history
    BY <2>1
  <2>2. CASE messages = Append(history, Answer(s))
    BY <1>1, <1>3, <1>4, <2>2, AppendFacts
  <2> QED
    BY <1>2, <2>1, <2>2
<1>7. asked \in Nat /\ l \in Nat \ {0} /\ history[l].turn = asked
  BY <1>1, <1>3
<1>8. \A i \in 1 .. Len(messages) : messages[i].turn < asked => i \in 1 .. l /\ i # l
  <2>1. CASE messages = history
    <3> HIDE DEF l
    <3> QED
      BY <1>7, <2>1 DEF l
  <2>2. CASE messages = Append(history, Answer(s))
    <3>1. /\ Len(messages) = l + 1 /\ messages[l + 1] = Answer(s)
          /\ \A j \in 1 .. l : messages[j] = history[j]
      BY <1>1, <1>4, <2>2, AppendFacts
    <3>2. ~(asked < asked)
      BY <1>7
    <3> HIDE DEF l
    <3> QED
      BY <1>7, <1>4, <3>1, <3>2
  <2> QED
    BY <1>2, <2>1, <2>2
<1>9. ASSUME NEW m \in Range(messages), m.turn < s.turn, HasText(m)
      PROVE  \E i \in told : history[i] = m
  <2>1. PICK i \in 1 .. Len(messages) : messages[i] = m
    BY <1>1, InRange
  <2>2. i \in 1 .. l /\ i # l /\ history[i] = m
    BY <1>1, <1>6, <1>8, <1>9, <2>1
  <2> QED
    BY <1>5, <1>9, <2>2
<1>10. ASSUME NEW i \in told, IsUser(history[i]), ~AnswerFollows(i)
      PROVE  \/ fate[history[i].turn] \in {"stopped", "failed"}
             \/ \E m \in Range(messages) : /\ ~IsUser(m) /\ m.turn = history[i].turn
                                           /\ ~HasText(m)
  <2> DEFINE t == history[i].turn
  <2>1. i \in 1 .. l /\ i # l /\ i + 1 \in 1 .. l
    <3>1. i \in 1 .. l /\ i # l
      BY <1>5, <1>10
    <3> HIDE DEF l
    <3> QED
      BY <1>7, <3>1
  <2>2. t \in 1 .. asked /\ t < asked
    <3>1. t \in 1 .. asked
      BY <1>1, <2>1, TurnsOfTalk
    <3>2. i \in 1 .. (l - 1)
      <4> HIDE DEF l
      <4> QED
        BY <1>7, <2>1
    <3> QED
      BY <1>2, <3>1, <3>2
  <2>3. fate[t] \in Fates /\ fate[t] # "asked"
    <3>1. fate[t] \in Fates
      BY <1>1, <2>2
    <3>2. fate[t] = "asked" => t = asked
      BY <2>2 DEF IInv, StatusOK
    <3> QED
      BY <1>1, <2>2, <3>1, <3>2
  <2>4. CASE fate[t] = "answered"
    <3>1. ~IsUser(history[i + 1]) /\ history[i + 1].turn = t
      BY <1>1, <1>10, <2>1, <2>4 DEF TalkOK, MessageOK
    <3>2. ~HasText(history[i + 1])
      <4>1. SUFFICES ASSUME HasText(history[i + 1]) PROVE FALSE
        OBVIOUS
      <4>2. i + 1 \in told
        BY <1>5, <2>1, <3>1, <4>1
      <4>3. i < i + 1 /\ \A k \in told : i < k => i + 1 <= k
        <5>1. \A k \in told : k \in 1 .. l
          BY <1>5
        <5>2. i \in Int /\ \A k \in told : k \in Int
          <6> HIDE DEF l
          <6> QED
            BY <1>7, <2>1, <5>1
        <5>3. \A k \in told : i < k => i + 1 <= k
          BY <5>2
        <5> QED
          BY <5>2, <5>3
      <4> QED
        BY <1>10, <3>1, <4>2, <4>3
    <3>3. history[i + 1] \in Range(messages)
      BY <1>1, <1>6, <2>1, InRange
    <3> QED
      BY <3>1, <3>2, <3>3
  <2> QED
    BY <2>3, <2>4 DEF Fates
<1> QED
  BY <1>9, <1>10 DEF told, history

\* Types of the page's state, and how the status of useChat goes with what is under way.
THEOREM TypeCorrect == Spec => []TypeOK
BY Invariance, TypesHold, PTL

\* However an answer ends, and whatever the user does meanwhile, it stands right under its
\* own question, and there is one of each (handleSubmit, stop and the parts useChat reads).
THEOREM AnswersFollow == Spec => []AnswersFollowTheirQuestion
BY Invariance, AnswersStand, PTL

\* The API is never to blame a question for its words, its index or a provider: only for
\* a number or a model that was typed into the settings.
THEOREM RefusedForTyped == Spec => []RefusedOnlyForWhatWasTyped
BY Invariance, RefusalIsFair, PTL

\* The dots of isLastAssistant are shown for the answer that is awaited and for no other,
\* and what is shown as empty stays empty.
THEOREM DotsTellTheTruth == Spec => []BubblesTellTheTruth
BY Invariance, DotsAreTrue, PTL

\* What customFetch sends and buildMessages keeps of it is every earlier question and all
\* that came of its answer.
THEOREM PromptIsWhole == Spec => []PromptIsTheConversation
BY Invariance, PromptIsTold, PTL

=============================================================================
