------------------------------ MODULE PbSimple ------------------------------
(***************************************************************************)
(* The generated classes of pb_simple.proto (asio/proto/pb_simple.pb.cc    *)
(* and .h), the messages of the sample server and client, given as the     *)
(* tables of PbBase are.                                                   *)
(***************************************************************************)
EXTENDS WireFormat

(***************************************************************************)
(* ProtoSimple.PingPongReq                                                 *)
(***************************************************************************)
PingPongReqNew == [content |-> <<>>, unknown |-> <<>>]
PingPongReqClear == [content |-> <<>>]
PingPongReqAccess == [content |-> "string"]
PingPongReqParse == 10 :> Member("string", "content")
PingPongReqSerialize == <<Field("string", 1, "content")>>
PingPongReqByteSize == <<Member("string", "content")>>
PingPongReqMerge == [content |-> "nonempty"]
PingPongReqSwap == {"unknown", "content"}

(***************************************************************************)
(* ProtoSimple.PingPongRsp                                                 *)
(***************************************************************************)
PingPongRspNew == [content |-> <<>>, unknown |-> <<>>]
PingPongRspClear == [content |-> <<>>]
PingPongRspAccess == [content |-> "string"]
PingPongRspParse == 10 :> Member("string", "content")
PingPongRspSerialize == <<Field("string", 1, "content")>>
PingPongRspByteSize == <<Member("string", "content")>>
PingPongRspMerge == [content |-> "nonempty"]
PingPongRspSwap == {"unknown", "content"}

(***************************************************************************)
(* ProtoSimple.DaytimeReq                                                  *)
(***************************************************************************)
DaytimeReqNew == [unknown |-> <<>>]
DaytimeReqClear == <<>>
DaytimeReqAccess == <<>>
DaytimeReqParse == <<>>
DaytimeReqSerialize == <<>>
DaytimeReqByteSize == <<>>
DaytimeReqMerge == <<>>
DaytimeReqSwap == {"unknown"}

(***************************************************************************)
(* ProtoSimple.DaytimeRsp                                                  *)
(***************************************************************************)
DaytimeRspNew == [time |-> <<>>, unknown |-> <<>>]
DaytimeRspClear == [time |-> <<>>]
DaytimeRspAccess == [time |-> "string"]
DaytimeRspParse == 10 :> Member("string", "time")
DaytimeRspSerialize == <<Field("string", 1, "time")>>
DaytimeRspByteSize == <<Member("string", "time")>>
DaytimeRspMerge == [time |-> "nonempty"]
DaytimeRspSwap == {"unknown", "time"}

(***************************************************************************)
(* ProtoSimple.DiscardReq                                                  *)
(***************************************************************************)
DiscardReqNew == [content |-> <<>>, unknown |-> <<>>]
DiscardReqClear == [content |-> <<>>]
DiscardReqAccess == [content |-> "string"]
DiscardReqParse == 10 :> Member("string", "content")
DiscardReqSerialize == <<Field("string", 1, "content")>>
DiscardReqByteSize == <<Member("string", "content")>>
DiscardReqMerge == [content |-> "nonempty"]
DiscardReqSwap == {"unknown", "content"}

(***************************************************************************)
(* ProtoSimple.DiscardRsp                                                  *)
(***************************************************************************)
DiscardRspNew == [size |-> 0, total |-> 0, unknown |-> <<>>]
DiscardRspClear == [size |-> 0, total |-> 0]
DiscardRspAccess == [size |-> "int32", total |-> "int32"]
DiscardRspParse == 8 :> Member("int32", "size") @@ 16 :> Member("int32", "total")
DiscardRspSerialize == <<Field("int32", 1, "size"), Field("int32", 2, "total")>>
DiscardRspByteSize == <<Member("int32", "size"), Member("int32", "total")>>
DiscardRspMerge == [size |-> "nonzero", total |-> "nonzero"]
DiscardRspSwap == {"unknown", "size", "total"}

(***************************************************************************)
(* ProtoSimple.ServerInfoPub                                               *)
(***************************************************************************)
ServerInfoPubNew == [hello |-> <<>>, unknown |-> <<>>]
ServerInfoPubClear == [hello |-> <<>>]
ServerInfoPubAccess == [hello |-> "string"]
ServerInfoPubParse == 10 :> Member("string", "hello")
ServerInfoPubSerialize == <<Field("string", 1, "hello")>>
ServerInfoPubByteSize == <<Member("string", "hello")>>
ServerInfoPubMerge == [hello |-> "nonempty"]
ServerInfoPubSwap == {"unknown", "hello"}

(***************************************************************************)
(* ProtoSimple.ServerInfoReq                                               *)
(***************************************************************************)
ServerInfoReqNew == [unknown |-> <<>>]
ServerInfoReqClear == <<>>
ServerInfoReqAccess == <<>>
ServerInfoReqParse == <<>>
ServerInfoReqSerialize == <<>>
ServerInfoReqByteSize == <<>>
ServerInfoReqMerge == <<>>
ServerInfoReqSwap == {"unknown"}

(***************************************************************************)
(* ProtoSimple.ServerInfoRsp                                               *)
(***************************************************************************)
ServerInfoRspNew == [time |-> <<>>, coreCount |-> 0, memorySize |-> <<>>, diskSize |-> <<>>, unknown |-> <<>>]
ServerInfoRspClear == [time |-> <<>>, memorySize |-> <<>>, diskSize |-> <<>>, coreCount |-> 0]
ServerInfoRspAccess == [time |-> "string", coreCount |-> "int32", memorySize |-> "string", diskSize |-> "string"]
ServerInfoRspParse ==
    10 :> Member("string", "time")
    @@ 16 :> Member("int32", "coreCount")
    @@ 26 :> Member("string", "memorySize")
    @@ 34 :> Member("string", "diskSize")
ServerInfoRspSerialize ==
  <<Field("string", 1, "time"),
    Field("int32", 2, "coreCount"),
    Field("string", 3, "memorySize"),
    Field("string", 4, "diskSize")>>
ServerInfoRspByteSize ==
  <<Member("string", "time"),
    Member("string", "memorySize"),
    Member("string", "diskSize"),
    Member("int32", "coreCount")>>
ServerInfoRspMerge == [time |-> "nonempty", memorySize |-> "nonempty", diskSize |-> "nonempty", coreCount |-> "nonzero"]
ServerInfoRspSwap == {"unknown", "time", "memorySize", "diskSize", "coreCount"}

(***************************************************************************)
(* The classes the descriptor table of the file registers.                 *)
(***************************************************************************)
SimpleClasses ==
   [PingPongReq |-> Class(PingPongReqNew, PingPongReqClear, PingPongReqAccess, PingPongReqParse,
        PingPongReqSerialize, PingPongReqByteSize, PingPongReqMerge, PingPongReqSwap),
    PingPongRsp |-> Class(PingPongRspNew, PingPongRspClear, PingPongRspAccess, PingPongRspParse,
        PingPongRspSerialize, PingPongRspByteSize, PingPongRspMerge, PingPongRspSwap),
    DaytimeReq |-> Class(DaytimeReqNew, DaytimeReqClear, DaytimeReqAccess, DaytimeReqParse,
        DaytimeReqSerialize, DaytimeReqByteSize, DaytimeReqMerge, DaytimeReqSwap),
    DaytimeRsp |-> Class(DaytimeRspNew, DaytimeRspClear, DaytimeRspAccess, DaytimeRspParse,
        DaytimeRspSerialize, DaytimeRspByteSize, DaytimeRspMerge, DaytimeRspSwap),
    DiscardReq |-> Class(DiscardReqNew, DiscardReqClear, DiscardReqAccess, DiscardReqParse,
        DiscardReqSerialize, DiscardReqByteSize, DiscardReqMerge, DiscardReqSwap),
    DiscardRsp |-> Class(DiscardRspNew, DiscardRspClear, DiscardRspAccess, DiscardRspParse,
        DiscardRspSerialize, DiscardRspByteSize, DiscardRspMerge, DiscardRspSwap),
    ServerInfoPub |-> Class(ServerInfoPubNew, ServerInfoPubClear, ServerInfoPubAccess, ServerInfoPubParse,
        ServerInfoPubSerialize, ServerInfoPubByteSize, ServerInfoPubMerge, ServerInfoPubSwap),
    ServerInfoReq |-> Class(ServerInfoReqNew, ServerInfoReqClear, ServerInfoReqAccess, ServerInfoReqParse,
        ServerInfoReqSerialize, ServerInfoReqByteSize, ServerInfoReqMerge, ServerInfoReqSwap),
    ServerInfoRsp |-> Class(ServerInfoRspNew, ServerInfoRspClear, ServerInfoRspAccess, ServerInfoRspParse,
        ServerInfoRspSerialize, ServerInfoRspByteSize, ServerInfoRspMerge, ServerInfoRspSwap)]
=============================================================================
