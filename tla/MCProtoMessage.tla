--------------------------- MODULE MCProtoMessage ---------------------------
(***************************************************************************)
(* A small instance of ProtoMessage: the values at which the encodings     *)
(* change their length, strings that are and are not UTF-8, and one whose  *)
(* bytes are a group when they are parsed as fields.                       *)
(***************************************************************************)
EXTENDS ProtoMessage

MCInt32s == {0, 1, 128, -1}
MCInt64s == {<<0>>, <<5>>, <<0, 0, 0, 0, 16>>}
MCStrings == {<<>>, <<11, 12>>, <<195, 169>>, <<255>>}
MCNewer == <<120, 5>>
=============================================================================
