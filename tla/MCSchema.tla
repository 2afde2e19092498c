------------------------------- MODULE MCSchema -------------------------------
EXTENDS Schema

(* Values that some revisions allow and others do not *)
CheckedValues ==
  {<<"model_usage", "ck_model_usage_purpose", "answer">>,
   <<"model_usage", "ck_model_usage_purpose", "instruction_expansion">>,
   <<"message_media", "ck_message_media_kind", "voice">>,
   <<"drafts", "ck_draft_status", "withdrawn">>, <<"drafts", "ck_draft_status", "rejected">>}
===============================================================================
