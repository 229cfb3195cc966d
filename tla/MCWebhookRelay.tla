--------------------------- MODULE MCWebhookRelay ---------------------------
(* A small instance of WebhookRelay: an answer outlives the polls, as it    *)
(* does in the code (60 seconds against 30).                                *)
EXTENDS WebhookRelay
=============================================================================
