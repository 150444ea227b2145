------------------------------- MODULE Forms -------------------------------
(***************************************************************************)
(* The three creation forms of the dashboard (ArtifactCreate, IndexCreate, *)
(* EvalCreate under src/web/src/pages) against the checks of the API       *)
(* (external here: Validate in src/internal/api/types.go).                 *)
(*                                                                         *)
(* A form is the record of its useState values.  A text field is empty or  *)
(* not; a text that matters by itself has a name of its own.  The browser  *)
(* submits a form only when its fields are valid (required, min, max); a   *)
(* Radix Select is not a form field, so nothing is required of it.         *)
(***************************************************************************)
EXTENDS Arrays, SequencesExt

Blank == ""
Text  == "text"
Accept == "accepted"

Providers == {"openai", "gemini", "openrouter", "lmstudio"}

\* The model a provider's choice fills in: none for LM Studio.
PROVIDER_PRESETS(p) == IF p = "lmstudio" THEN Blank ELSE Text
LLM_PRESETS(p) == IF p = "lmstudio" THEN Blank ELSE Text
EMBED_PRESETS(p) == IF p = "lmstudio" THEN Blank ELSE Text

-----------------------------------------------------------------------------
(* ChipInput: a list of different texts and the text being typed.          *)

\* Faulty variant: the same text again.
addChipAgain(chips, input) == IF input # Blank THEN Append(chips, input) ELSE chips

addChip(chips, input) ==
    IF input # Blank /\ ~Contains(chips, input) THEN Append(chips, input) ELSE chips

removeChip(chips, chip) == filter(chips, LAMBDA c : c # chip)

\* Backspace in the empty field removes the last chip.
BackspaceRemoves(chips, input) == input = Blank /\ Len(chips) > 0

-----------------------------------------------------------------------------
(* ArtifactCreate                                                          *)

NewArtifactForm == [repoUrl |-> Text, tag |-> Blank, baseUrl |-> Blank]

ArtifactFormValid(f) == f.repoUrl # Blank /\ f.tag # Blank

\* base_url and include_dirs are left out of the body when they are empty.
PreprocessPayload(f, chips) ==
    [repo_url |-> f.repoUrl, tag |-> f.tag,
     optional |-> (IF f.baseUrl # Blank THEN {"base_url"} ELSE {})
                  \cup (IF Len(chips) > 0 THEN {"include_dirs"} ELSE {})]

PreprocessRefusal(p) ==
    CASE p.repo_url = Blank -> "repo_url is required"
      [] p.tag = Blank      -> "tag is required"
      [] OTHER              -> Accept

-----------------------------------------------------------------------------
(* IndexCreate                                                             *)

NewIndexForm == [inputTag |-> Blank, tag |-> Blank, chunkStrategy |-> "fixed",
                 chunkSize |-> 512, chunkOverlap |-> 64, provider |-> "openai",
                 model |-> Text, batchSize |-> 20, concurrency |-> 5]

handleProviderChange(f, p) == [f EXCEPT !.provider = p, !.model = PROVIDER_PRESETS(p)]

\* The card of the artifact: a select, of which nothing is required.
SourceCardValid(f) == TRUE

IdentityCardValid(f) == /\ f.tag # Blank
                        /\ f.chunkSize \in 64 .. 4096
                        /\ f.chunkOverlap \in 0 .. 1024

\* Faulty variant: the model is not required.
EmbeddingCardNumbers(f) == f.batchSize \in 1 .. 100 /\ f.concurrency \in 1 .. 20

EmbeddingCardValid(f) == /\ f.model # Blank
                         /\ f.batchSize \in 1 .. 100
                         /\ f.concurrency \in 1 .. 20

IndexFormValid(f) == SourceCardValid(f) /\ IdentityCardValid(f) /\ EmbeddingCardValid(f)

IndexPayload(f) ==
    [input_tag |-> f.inputTag, tag |-> f.tag, parser_strategy |-> "markdown",
     chunk_strategy |-> f.chunkStrategy,
     chunk_config |-> IF f.chunkStrategy = "recursive"
                      THEN [max_size |-> f.chunkSize, overlap |-> f.chunkOverlap]
                      ELSE [size |-> f.chunkSize, overlap |-> f.chunkOverlap],
     embedding_provider |-> f.provider, embedding_model |-> f.model,
     batch_size |-> f.batchSize, index_concurrency |-> f.concurrency,
     doc_timeout |-> "30m"]

IndexRefusal(p) ==
    CASE p.input_tag = Blank          -> "input_tag is required"
      [] p.tag = Blank                -> "tag is required"
      [] p.parser_strategy = Blank    -> "parser_strategy is required"
      [] p.chunk_strategy = Blank     -> "chunk_strategy is required"
      [] p.embedding_provider = Blank -> "embedding_provider is required"
      [] p.embedding_model = Blank    -> "embedding_model is required"
      [] p.batch_size <= 0            -> "batch_size must be positive"
      [] p.index_concurrency <= 0     -> "index_concurrency must be positive"
      [] p.doc_timeout = Blank        -> "doc_timeout is required"
      [] OTHER                        -> Accept

-----------------------------------------------------------------------------
(* EvalCreate: the text of the K values is the sequence of its parts       *)
(* between commas, each the number parseInt reads from it or NaN.          *)

NaN == -1000

parsedKs(ksInput) == filter(ksInput, LAMBDA n : n # NaN /\ n > 0)

Role(p, m) == [provider |-> p, model |-> m]

NewEvalForm == [indexTag |-> Blank, datasetPath |-> Blank, tag |-> Blank,
                queryStrategy |-> "naive-search", ksInput |-> <<1, 3, 5>>,
                llm |-> Role("openai", Text), embed |-> Role("openai", Text),
                judge |-> Role("openai", Text), batchSize |-> 20, workers |-> 5]

RolePreset(role, p) == IF role = "embed" THEN EMBED_PRESETS(p) ELSE LLM_PRESETS(p)

RoleProviderChange(f, role, p) == [f EXCEPT ![role] = Role(p, RolePreset(role, p))]

\* The card of the index and the dataset: two selects.
DataSourcesCardValid(f) == TRUE

\* The text of the K values is not required, either.
StrategyCardValid(f) == f.tag # Blank

RolesValid(f) == \A role \in {"llm", "embed", "judge"} : f[role].model # Blank

PerformanceCardValid(f) == f.batchSize >= 1 /\ f.workers >= 1

EvalFormValid(f) == /\ DataSourcesCardValid(f) /\ StrategyCardValid(f)
                    /\ RolesValid(f) /\ PerformanceCardValid(f)

\* Faulty variant: it does not.
EvalSubmitsAlways(f) == TRUE

\* handleSubmit gives up without a word when no K is left.
EvalSubmits(f) == parsedKs(f.ksInput) # <<>>

EvalPayload(f) ==
    [index_tag |-> f.indexTag, tag |-> f.tag, query_strategy |-> f.queryStrategy,
     dataset_path |-> f.datasetPath, ks |-> parsedKs(f.ksInput),
     llm |-> f.llm, embedding |-> f.embed, judge |-> f.judge,
     batch_size |-> f.batchSize, workers |-> f.workers]

EvalRefusal(p) ==
    CASE p.index_tag = Blank       -> "index_tag is required"
      [] p.tag = Blank             -> "tag is required"
      [] p.query_strategy = Blank  -> "query_strategy is required"
      [] p.dataset_path = Blank    -> "dataset_path is required"
      [] p.ks = <<>>               -> "ks is required"
      [] p.llm.provider = Blank \/ p.llm.model = Blank -> "llm is required"
      [] p.embedding.provider = Blank \/ p.embedding.model = Blank -> "embedding is required"
      [] p.judge.provider = Blank \/ p.judge.model = Blank -> "judge is required"
      [] p.batch_size <= 0         -> "batch_size must be positive"
      [] p.workers <= 0            -> "workers must be positive"
      [] OTHER                     -> Accept
=============================================================================
