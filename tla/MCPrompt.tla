------------------------------ MODULE MCPrompt ------------------------------
(* The prompts of a conversation in the file store, which gives messages    *)
(* new identifiers and drops the metadata of summaries, with every way a    *)
(* run and its compaction may go; and in the database, which keeps both, in *)
(* runs that take no further messages and whose summarizer does not fall    *)
(* back: more messages, or more tool calls in each.                         *)
EXTENDS PromptStores

InDatabase(calls, rows) == INSTANCE Prompt
    WITH StoreKeepsIds <- TRUE, StoreKeepsMetadata <- TRUE, MayDegrade <- FALSE,
         MidRun <- FALSE, Overlays <- 1, KeepRound <- 2, KeepRetry <- 2, KeepTool <- 2,
         FallbackTurns <- 1, MaxRetries <- 1, MaxCalls <- calls, MaxRows <- rows

InstanceInit ==
    /\ instance \in {"file", "long", "wide"}
    /\ IF instance = "file" THEN Init ELSE InDatabase(1, 7)!Init

InstanceNext ==
    /\ UNCHANGED instance
    /\ CASE instance = "file" -> Next
         [] instance = "long" -> InDatabase(1, 7)!Next
         [] instance = "wide" -> InDatabase(2, 6)!Next

InstanceSpec == InstanceInit /\ [][InstanceNext]_<<vars, instance>>

-----------------------------------------------------------------------------
(* Histories and prompts are sequences of messages, within their bounds.    *)
WellTyped ==
    CASE instance = "file" -> TypeOK
      [] instance = "long" -> InDatabase(1, 7)!TypeOK
      [] instance = "wide" -> InDatabase(2, 6)!TypeOK
=============================================================================
