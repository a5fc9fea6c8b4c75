------------------------------- MODULE PbBase -------------------------------
(***************************************************************************)
(* The generated classes of pb_base.proto (asio/proto/pb_base.pb.cc and    *)
(* .h), the messages the library itself exchanges.  For each class, what   *)
(* its generated functions do field by field: the values of a new message, *)
(* Clear, the accessors, _InternalParse by tag, _InternalSerialize in the  *)
(* order of the field numbers, ByteSizeLong, MergeFrom and InternalSwap in *)
(* the order of the members.  WireFormat gives the tables their meaning.   *)
(***************************************************************************)
EXTENDS WireFormat

(***************************************************************************)
(* ProtoBase.SubscribeReq                                                  *)
(***************************************************************************)
SubscribeReqNew == [type |-> 0, msgTypeList |-> <<>>, typeNameList |-> <<>>, unknown |-> <<>>]
SubscribeReqClear == [msgTypeList |-> <<>>, typeNameList |-> <<>>, type |-> 0]
SubscribeReqAccess == [type |-> "int32", msgTypeList |-> "packed", typeNameList |-> "strings"]
SubscribeReqParse ==
    8 :> Member("int32", "type")
    @@ 18 :> Member("packed", "msgTypeList")
    @@ 16 :> Member("addInt32", "msgTypeList")
    @@ 26 :> Member("addString", "typeNameList")
SubscribeReqSerialize ==
  <<Field("int32", 1, "type"),
    Field("packed", 2, "msgTypeList"),
    Field("strings", 3, "typeNameList")>>
SubscribeReqByteSize ==
  <<Member("packed", "msgTypeList"),
    Member("strings", "typeNameList"),
    Member("int32", "type")>>
\* Mutant: the names of the source replace those of the message.
SubscribeReqMergeSets ==
    [msgTypeList |-> "append", typeNameList |-> "nonempty", type |-> "nonzero"]
SubscribeReqMerge == [msgTypeList |-> "append", typeNameList |-> "append", type |-> "nonzero"]
SubscribeReqSwap == {"unknown", "msgTypeList", "typeNameList", "type"}

(***************************************************************************)
(* ProtoBase.SubscribeRsp                                                  *)
(***************************************************************************)
SubscribeRspNew == [errorcode |-> 0, unknown |-> <<>>]
SubscribeRspClear == [errorcode |-> 0]
SubscribeRspAccess == [errorcode |-> "int32"]
SubscribeRspParse == 8 :> Member("int32", "errorcode")
SubscribeRspSerialize == <<Field("int32", 1, "errorcode")>>
SubscribeRspByteSize == <<Member("int32", "errorcode")>>
SubscribeRspMerge == [errorcode |-> "nonzero"]
SubscribeRspSwap == {"unknown", "errorcode"}

(***************************************************************************)
(* ProtoBase.HeartbeatReq                                                  *)
(***************************************************************************)
HeartbeatReqNew == [cpu |-> 0, memory |-> 0, unknown |-> <<>>]
HeartbeatReqClear == [cpu |-> 0, memory |-> 0]
HeartbeatReqAccess == [cpu |-> "int32", memory |-> "int32"]
HeartbeatReqParse == 8 :> Member("int32", "cpu") @@ 16 :> Member("int32", "memory")
HeartbeatReqSerialize == <<Field("int32", 1, "cpu"), Field("int32", 2, "memory")>>
HeartbeatReqByteSize == <<Member("int32", "cpu"), Member("int32", "memory")>>
HeartbeatReqMerge == [cpu |-> "nonzero", memory |-> "nonzero"]
\* Mutant: the swapped range of members ends one member early.
HeartbeatReqSwapShort == {"unknown", "cpu"}
HeartbeatReqSwap == {"unknown", "cpu", "memory"}

(***************************************************************************)
(* ProtoBase.HeartbeatRsp                                                  *)
(***************************************************************************)
HeartbeatRspNew == [serverTime |-> <<0>>, unknown |-> <<>>]
HeartbeatRspClear == [serverTime |-> <<0>>]
HeartbeatRspAccess == [serverTime |-> "int64"]
HeartbeatRspParse == 8 :> Member("int64", "serverTime")
HeartbeatRspSerialize == <<Field("int64", 1, "serverTime")>>
HeartbeatRspByteSize == <<Member("int64", "serverTime")>>
HeartbeatRspMerge == [serverTime |-> "nonzero64"]
HeartbeatRspSwap == {"unknown", "serverTime"}

(***************************************************************************)
(* ProtoBase.CommonRsp                                                     *)
(***************************************************************************)
CommonRspNew == [code |-> 0, msg |-> <<>>, unknown |-> <<>>]
CommonRspClear == [msg |-> <<>>, code |-> 0]
CommonRspAccess == [code |-> "int32", msg |-> "string"]
CommonRspParse == 8 :> Member("int32", "code") @@ 18 :> Member("string", "msg")
CommonRspSerialize == <<Field("int32", 1, "code"), Field("string", 2, "msg")>>
\* Mutant: the string is not counted.
CommonRspByteSizeNoMsg == <<Member("int32", "code")>>
CommonRspByteSize == <<Member("string", "msg"), Member("int32", "code")>>
CommonRspMerge == [msg |-> "nonempty", code |-> "nonzero"]
CommonRspSwap == {"unknown", "msg", "code"}

(***************************************************************************)
(* The classes the descriptor table of the file registers.                 *)
(***************************************************************************)
BaseClasses ==
   [SubscribeReq |-> Class(SubscribeReqNew, SubscribeReqClear, SubscribeReqAccess, SubscribeReqParse,
        SubscribeReqSerialize, SubscribeReqByteSize, SubscribeReqMerge, SubscribeReqSwap),
    SubscribeRsp |-> Class(SubscribeRspNew, SubscribeRspClear, SubscribeRspAccess, SubscribeRspParse,
        SubscribeRspSerialize, SubscribeRspByteSize, SubscribeRspMerge, SubscribeRspSwap),
    HeartbeatReq |-> Class(HeartbeatReqNew, HeartbeatReqClear, HeartbeatReqAccess, HeartbeatReqParse,
        HeartbeatReqSerialize, HeartbeatReqByteSize, HeartbeatReqMerge, HeartbeatReqSwap),
    HeartbeatRsp |-> Class(HeartbeatRspNew, HeartbeatRspClear, HeartbeatRspAccess, HeartbeatRspParse,
        HeartbeatRspSerialize, HeartbeatRspByteSize, HeartbeatRspMerge, HeartbeatRspSwap),
    CommonRsp |-> Class(CommonRspNew, CommonRspClear, CommonRspAccess, CommonRspParse,
        CommonRspSerialize, CommonRspByteSize, CommonRspMerge, CommonRspSwap)]
=============================================================================
