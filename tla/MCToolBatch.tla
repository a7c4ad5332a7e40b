---------------------------- MODULE MCToolBatch ----------------------------
(* ToolBatch on small instances: batches of up to five calls, chunks of two. *)
EXTENDS ToolBatch
=============================================================================
