---------------------------- MODULE MCSession ----------------------------
(* Instances of Session: a message of each kind the writer distinguishes.  *)
EXTENDS Session

Message(type, encoding, data) == [type |-> type, encoding |-> encoding, data |-> data]

MCOutgoing == {Message("BinaryMessage", "Raw", "raw"), Message("TextMessage", "JSON", "value"),
               Message("BinaryMessage", "JSON", "invalid"), Message("BinaryMessage", "Protobuf", "value")}

\* What BroadcastMessage and Client.SendMessage build.
MCTexts == {Message("TextMessage", "Raw", "raw")}
=============================================================================
