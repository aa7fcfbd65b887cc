----------------------------- MODULE MCWireText -----------------------------
(* The conversations of MCConversation, which keep to the wire schemas.     *)
EXTENDS MCConversation, WireText
=============================================================================
