---------------------------- MODULE PromptStores ----------------------------
(* The prompts of a conversation in one of the two stores, and what the     *)
(* database promises of them that the file store does not.                  *)
EXTENDS Prompt

VARIABLE instance   \* "file", or in the database "long" or "wide"

(* In the database compaction loses no message and repeats none: what the   *)
(* history of a run holds is in the request once, verbatim or in a summary. *)
CompactionKeeps == instance # "file" => NothingLost /\ NoReplay
=============================================================================
