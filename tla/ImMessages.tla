---------------------------- MODULE ImMessages ----------------------------
(***************************************************************************)
(* The messages of protocol/im.proto as the generated C++ classes treat    *)
(* them.  protoc writes, for every message, a parse table, accessors and   *)
(* four functions that each walk over the fields with has-bit masks of     *)
(* their own; the fields' bits are not in the order of their numbers.  The *)
(* module holds what each of these functions says of each field, one       *)
(* definition per function; WireFormat gives the functions their meaning.  *)
(*                                                                         *)
(*   X_ParseTable         field -> <<number, kind, has bit>> and, for      *)
(*                        embedded messages, the message                   *)
(*   X_Accessors          field -> the bit that set_, add_ and mutable_    *)
(*                        set and clear_ clears                            *)
(*   X_Clear              field -> the bits any one of which makes Clear   *)
(*                        reset the field (a memset resets a whole range)  *)
(*   X_InternalSerialize  <<field, number, writer, bit>> in writing order  *)
(*   X_ByteSizeLong       field -> <<sizer, bit>>, in the order of the bits*)
(*   X_MergeImpl          field -> <<rule, bit>>                           *)
(*                                                                         *)
(* The batch tests (BatchCheckHasBit) around groups of fields only save    *)
(* time: each mask is the union of the masks inside.  FriendRequestListRq  *)
(* has no field; its functions are those of ZeroFieldsBase.                *)
(***************************************************************************)
EXTENDS Integers, Sequences

\* Clear of a message with a single integer resets it without a test.
Always == {}

RegisterRq_ParseTable ==
    [nick |-> <<1, "string", 0>>, tel |-> <<2, "string", 1>>, pass |-> <<3, "string", 2>>]
RegisterRq_Accessors == [nick |-> 0, tel |-> 1, pass |-> 2]
RegisterRq_Clear == [nick |-> {0}, tel |-> {1}, pass |-> {2}]
RegisterRq_InternalSerialize ==
    <<<<"nick", 1, "string", 0>>, <<"tel", 2, "string", 1>>, <<"pass", 3, "string", 2>>>>
RegisterRq_ByteSizeLong ==
    [nick |-> <<"string", 0>>, tel |-> <<"string", 1>>, pass |-> <<"string", 2>>]
RegisterRq_MergeImpl ==
    [nick |-> <<"nonempty", 0>>, tel |-> <<"nonempty", 1>>, pass |-> <<"nonempty", 2>>]

RegisterRs_ParseTable == [result |-> <<1, "int32", 0>>]
RegisterRs_Accessors == [result |-> 0]
RegisterRs_Clear == [result |-> Always]
RegisterRs_InternalSerialize == <<<<"result", 1, "int32", 0>>>>
RegisterRs_ByteSizeLong == [result |-> <<"int32", 0>>]
RegisterRs_MergeImpl == [result |-> <<"nonzero", 0>>]

LoginRq_ParseTable ==
    [tel |-> <<1, "string", 0>>, pass |-> <<2, "string", 1>>, device_id |-> <<3, "string", 2>>,
     device_name |-> <<4, "string", 3>>, client_version |-> <<5, "string", 4>>]
LoginRq_Accessors ==
    [tel |-> 0, pass |-> 1, device_id |-> 2, device_name |-> 3, client_version |-> 4]
LoginRq_Clear ==
    [tel |-> {0}, pass |-> {1}, device_id |-> {2}, device_name |-> {3}, client_version |-> {4}]
LoginRq_InternalSerialize ==
    <<<<"tel", 1, "string", 0>>, <<"pass", 2, "string", 1>>, <<"device_id", 3, "string", 2>>,
     <<"device_name", 4, "string", 3>>, <<"client_version", 5, "string", 4>>>>
LoginRq_ByteSizeLong ==
    [tel |-> <<"string", 0>>, pass |-> <<"string", 1>>, device_id |-> <<"string", 2>>,
     device_name |-> <<"string", 3>>, client_version |-> <<"string", 4>>]
LoginRq_MergeImpl ==
    [tel |-> <<"nonempty", 0>>, pass |-> <<"nonempty", 1>>, device_id |-> <<"nonempty", 2>>,
     device_name |-> <<"nonempty", 3>>, client_version |-> <<"nonempty", 4>>]

LoginRs_ParseTable ==
    [userid |-> <<1, "int32", 3>>, result |-> <<2, "int32", 4>>,
     access_token |-> <<3, "string", 0>>, refresh_token |-> <<4, "string", 1>>,
     access_token_expire_at |-> <<5, "int64", 5>>,
     refresh_token_expire_at |-> <<6, "int64", 6>>, session_id |-> <<7, "string", 2>>]
LoginRs_Accessors ==
    [userid |-> 3, result |-> 4, access_token |-> 0, refresh_token |-> 1,
     access_token_expire_at |-> 5, refresh_token_expire_at |-> 6, session_id |-> 2]
LoginRs_Clear ==
    [access_token |-> {0}, refresh_token |-> {1}, session_id |-> {2}, userid |-> 3..6,
     result |-> 3..6, access_token_expire_at |-> 3..6, refresh_token_expire_at |-> 3..6]
LoginRs_InternalSerialize ==
    <<<<"userid", 1, "int32", 3>>, <<"result", 2, "int32", 4>>,
     <<"access_token", 3, "string", 0>>, <<"refresh_token", 4, "string", 1>>,
     <<"access_token_expire_at", 5, "int64", 5>>, <<"refresh_token_expire_at", 6, "int64", 6>>,
     <<"session_id", 7, "string", 2>>>>
LoginRs_ByteSizeLong ==
    [access_token |-> <<"string", 0>>, refresh_token |-> <<"string", 1>>,
     session_id |-> <<"string", 2>>, userid |-> <<"int32", 3>>, result |-> <<"int32", 4>>,
     access_token_expire_at |-> <<"int64", 5>>, refresh_token_expire_at |-> <<"int64", 6>>]
LoginRs_MergeImpl ==
    [access_token |-> <<"nonempty", 0>>, refresh_token |-> <<"nonempty", 1>>,
     session_id |-> <<"nonempty", 2>>, userid |-> <<"nonzero", 3>>,
     result |-> <<"nonzero", 4>>, access_token_expire_at |-> <<"nonzero", 5>>,
     refresh_token_expire_at |-> <<"nonzero", 6>>]

RefreshTokenRq_ParseTable ==
    [refresh_token |-> <<1, "string", 0>>, device_id |-> <<2, "string", 1>>,
     request_id |-> <<3, "string", 2>>]
RefreshTokenRq_Accessors == [refresh_token |-> 0, device_id |-> 1, request_id |-> 2]
RefreshTokenRq_Clear == [refresh_token |-> {0}, device_id |-> {1}, request_id |-> {2}]
RefreshTokenRq_InternalSerialize ==
    <<<<"refresh_token", 1, "string", 0>>, <<"device_id", 2, "string", 1>>,
     <<"request_id", 3, "string", 2>>>>
RefreshTokenRq_ByteSizeLong ==
    [refresh_token |-> <<"string", 0>>, device_id |-> <<"string", 1>>,
     request_id |-> <<"string", 2>>]
RefreshTokenRq_MergeImpl ==
    [refresh_token |-> <<"nonempty", 0>>, device_id |-> <<"nonempty", 1>>,
     request_id |-> <<"nonempty", 2>>]

RefreshTokenRs_ParseTable ==
    [result |-> <<1, "int32", 5>>, access_token |-> <<2, "string", 0>>,
     refresh_token |-> <<3, "string", 1>>, access_token_expire_at |-> <<4, "int64", 3>>,
     refresh_token_expire_at |-> <<5, "int64", 4>>, session_id |-> <<6, "string", 2>>]
RefreshTokenRs_Accessors ==
    [result |-> 5, access_token |-> 0, refresh_token |-> 1, access_token_expire_at |-> 3,
     refresh_token_expire_at |-> 4, session_id |-> 2]
RefreshTokenRs_Clear ==
    [access_token |-> {0}, refresh_token |-> {1}, session_id |-> {2},
     access_token_expire_at |-> 3..5, refresh_token_expire_at |-> 3..5, result |-> 3..5]
RefreshTokenRs_InternalSerialize ==
    <<<<"result", 1, "int32", 5>>, <<"access_token", 2, "string", 0>>,
     <<"refresh_token", 3, "string", 1>>, <<"access_token_expire_at", 4, "int64", 3>>,
     <<"refresh_token_expire_at", 5, "int64", 4>>, <<"session_id", 6, "string", 2>>>>
RefreshTokenRs_ByteSizeLong ==
    [access_token |-> <<"string", 0>>, refresh_token |-> <<"string", 1>>,
     session_id |-> <<"string", 2>>, access_token_expire_at |-> <<"int64", 3>>,
     refresh_token_expire_at |-> <<"int64", 4>>, result |-> <<"int32", 5>>]
RefreshTokenRs_MergeImpl ==
    [access_token |-> <<"nonempty", 0>>, refresh_token |-> <<"nonempty", 1>>,
     session_id |-> <<"nonempty", 2>>, access_token_expire_at |-> <<"nonzero", 3>>,
     refresh_token_expire_at |-> <<"nonzero", 4>>, result |-> <<"nonzero", 5>>]

TokenLoginRq_ParseTable ==
    [access_token |-> <<1, "string", 0>>, device_id |-> <<3, "string", 1>>,
     request_id |-> <<4, "string", 2>>]
TokenLoginRq_Accessors == [access_token |-> 0, device_id |-> 1, request_id |-> 2]
TokenLoginRq_Clear == [access_token |-> {0}, device_id |-> {1}, request_id |-> {2}]
TokenLoginRq_InternalSerialize ==
    <<<<"access_token", 1, "string", 0>>, <<"device_id", 3, "string", 1>>,
     <<"request_id", 4, "string", 2>>>>
TokenLoginRq_ByteSizeLong ==
    [access_token |-> <<"string", 0>>, device_id |-> <<"string", 1>>,
     request_id |-> <<"string", 2>>]
TokenLoginRq_MergeImpl ==
    [access_token |-> <<"nonempty", 0>>, device_id |-> <<"nonempty", 1>>,
     request_id |-> <<"nonempty", 2>>]

TokenLoginRs_ParseTable ==
    [result |-> <<1, "int32", 0>>, userid |-> <<2, "int32", 1>>,
     access_token_expire_at |-> <<3, "int64", 2>>]
TokenLoginRs_Accessors == [result |-> 0, userid |-> 1, access_token_expire_at |-> 2]
TokenLoginRs_Clear == [result |-> 0..2, userid |-> 0..2, access_token_expire_at |-> 0..2]
TokenLoginRs_InternalSerialize ==
    <<<<"result", 1, "int32", 0>>, <<"userid", 2, "int32", 1>>,
     <<"access_token_expire_at", 3, "int64", 2>>>>
TokenLoginRs_ByteSizeLong ==
    [result |-> <<"int32", 0>>, userid |-> <<"int32", 1>>,
     access_token_expire_at |-> <<"int64", 2>>]
TokenLoginRs_MergeImpl ==
    [result |-> <<"nonzero", 0>>, userid |-> <<"nonzero", 1>>,
     access_token_expire_at |-> <<"nonzero", 2>>]

LogoutRq_ParseTable ==
    [refresh_token |-> <<1, "string", 0>>, device_id |-> <<2, "string", 1>>,
     logout_all_devices |-> <<3, "bool", 2>>]
LogoutRq_Accessors == [refresh_token |-> 0, device_id |-> 1, logout_all_devices |-> 2]
LogoutRq_Clear == [refresh_token |-> {0}, device_id |-> {1}, logout_all_devices |-> Always]
LogoutRq_InternalSerialize ==
    <<<<"refresh_token", 1, "string", 0>>, <<"device_id", 2, "string", 1>>,
     <<"logout_all_devices", 3, "bool", 2>>>>
LogoutRq_ByteSizeLong ==
    [refresh_token |-> <<"string", 0>>, device_id |-> <<"string", 1>>,
     logout_all_devices |-> <<"bool", 2>>]
LogoutRq_MergeImpl ==
    [refresh_token |-> <<"nonempty", 0>>, device_id |-> <<"nonempty", 1>>,
     logout_all_devices |-> <<"nonzero", 2>>]

LogoutRs_ParseTable == [result |-> <<1, "int32", 0>>]
LogoutRs_Accessors == [result |-> 0]
LogoutRs_Clear == [result |-> Always]
LogoutRs_InternalSerialize == <<<<"result", 1, "int32", 0>>>>
LogoutRs_ByteSizeLong == [result |-> <<"int32", 0>>]
LogoutRs_MergeImpl == [result |-> <<"nonzero", 0>>]

FriendInfo_ParseTable ==
    [userid |-> <<1, "int32", 2>>, iconid |-> <<2, "int32", 3>>, status |-> <<3, "int32", 4>>,
     nick |-> <<4, "string", 0>>, feeling |-> <<5, "string", 1>>]
FriendInfo_Accessors == [userid |-> 2, iconid |-> 3, status |-> 4, nick |-> 0, feeling |-> 1]
FriendInfo_Clear ==
    [nick |-> {0}, feeling |-> {1}, userid |-> 2..4, iconid |-> 2..4, status |-> 2..4]
FriendInfo_InternalSerialize ==
    <<<<"userid", 1, "int32", 2>>, <<"iconid", 2, "int32", 3>>, <<"status", 3, "int32", 4>>,
     <<"nick", 4, "string", 0>>, <<"feeling", 5, "string", 1>>>>
FriendInfo_ByteSizeLong ==
    [nick |-> <<"string", 0>>, feeling |-> <<"string", 1>>, userid |-> <<"int32", 2>>,
     iconid |-> <<"int32", 3>>, status |-> <<"int32", 4>>]
\* Mutant: the copy of status is guarded by iconid's bit.
FriendInfo_MergeWrongBit ==
    [nick |-> <<"nonempty", 0>>, feeling |-> <<"nonempty", 1>>, userid |-> <<"nonzero", 2>>,
     iconid |-> <<"nonzero", 3>>, status |-> <<"nonzero", 3>>]
FriendInfo_MergeImpl ==
    [nick |-> <<"nonempty", 0>>, feeling |-> <<"nonempty", 1>>, userid |-> <<"nonzero", 2>>,
     iconid |-> <<"nonzero", 3>>, status |-> <<"nonzero", 4>>]

ChatInfoRq_ParseTable ==
    [myid |-> <<1, "int32", 6>>, friid |-> <<2, "int32", 7>>, msg |-> <<3, "string", 0>>,
     type |-> <<4, "enum", 8>>, image_width |-> <<6, "int32", 9>>,
     image_height |-> <<7, "int32", 13>>, msg_id |-> <<8, "string", 1>>,
     ts |-> <<9, "int64", 10>>, seq |-> <<10, "int64", 11>>, file_name |-> <<11, "string", 2>>,
     file_size |-> <<12, "int64", 12>>, file_id |-> <<13, "string", 3>>,
     content_type |-> <<14, "string", 4>>, sha256 |-> <<15, "string", 5>>]
ChatInfoRq_Accessors ==
    [myid |-> 6, friid |-> 7, msg |-> 0, type |-> 8, image_width |-> 9, image_height |-> 13,
     msg_id |-> 1, ts |-> 10, seq |-> 11, file_name |-> 2, file_size |-> 12, file_id |-> 3,
     content_type |-> 4, sha256 |-> 5]
ChatInfoRq_Clear ==
    [msg |-> {0}, msg_id |-> {1}, file_name |-> {2}, file_id |-> {3}, content_type |-> {4},
     sha256 |-> {5}, myid |-> 6..7, friid |-> 6..7, type |-> 8..13, image_width |-> 8..13,
     ts |-> 8..13, seq |-> 8..13, file_size |-> 8..13, image_height |-> 8..13]
ChatInfoRq_InternalSerialize ==
    <<<<"myid", 1, "int32", 6>>, <<"friid", 2, "int32", 7>>, <<"msg", 3, "string", 0>>,
     <<"type", 4, "enum", 8>>, <<"image_width", 6, "int32", 9>>,
     <<"image_height", 7, "int32", 13>>, <<"msg_id", 8, "string", 1>>,
     <<"ts", 9, "int64", 10>>, <<"seq", 10, "int64", 11>>, <<"file_name", 11, "string", 2>>,
     <<"file_size", 12, "int64", 12>>, <<"file_id", 13, "string", 3>>,
     <<"content_type", 14, "string", 4>>, <<"sha256", 15, "string", 5>>>>
ChatInfoRq_ByteSizeLong ==
    [msg |-> <<"string", 0>>, msg_id |-> <<"string", 1>>, file_name |-> <<"string", 2>>,
     file_id |-> <<"string", 3>>, content_type |-> <<"string", 4>>, sha256 |-> <<"string", 5>>,
     myid |-> <<"int32", 6>>, friid |-> <<"int32", 7>>, type |-> <<"enum", 8>>,
     image_width |-> <<"int32", 9>>, ts |-> <<"int64", 10>>, seq |-> <<"int64", 11>>,
     file_size |-> <<"int64", 12>>, image_height |-> <<"int32", 13>>]
ChatInfoRq_MergeImpl ==
    [msg |-> <<"nonempty", 0>>, msg_id |-> <<"nonempty", 1>>, file_name |-> <<"nonempty", 2>>,
     file_id |-> <<"nonempty", 3>>, content_type |-> <<"nonempty", 4>>,
     sha256 |-> <<"nonempty", 5>>, myid |-> <<"nonzero", 6>>, friid |-> <<"nonzero", 7>>,
     type |-> <<"nonzero", 8>>, image_width |-> <<"nonzero", 9>>, ts |-> <<"nonzero", 10>>,
     seq |-> <<"nonzero", 11>>, file_size |-> <<"nonzero", 12>>,
     image_height |-> <<"nonzero", 13>>]

ChatInfoRs_ParseTable ==
    [myid |-> <<1, "int32", 1>>, friid |-> <<2, "int32", 2>>, result |-> <<3, "int32", 4>>,
     msg_id |-> <<4, "string", 0>>, seq |-> <<5, "int64", 3>>]
ChatInfoRs_Accessors == [myid |-> 1, friid |-> 2, result |-> 4, msg_id |-> 0, seq |-> 3]
ChatInfoRs_Clear ==
    [msg_id |-> {0}, myid |-> 1..4, friid |-> 1..4, seq |-> 1..4, result |-> 1..4]
ChatInfoRs_InternalSerialize ==
    <<<<"myid", 1, "int32", 1>>, <<"friid", 2, "int32", 2>>, <<"result", 3, "int32", 4>>,
     <<"msg_id", 4, "string", 0>>, <<"seq", 5, "int64", 3>>>>
\* Mutant: the size of seq is counted under result's bit.
ChatInfoRs_SizeWrongBit ==
    [msg_id |-> <<"string", 0>>, myid |-> <<"int32", 1>>, friid |-> <<"int32", 2>>,
     seq |-> <<"int64", 4>>, result |-> <<"int32", 4>>]
ChatInfoRs_ByteSizeLong ==
    [msg_id |-> <<"string", 0>>, myid |-> <<"int32", 1>>, friid |-> <<"int32", 2>>,
     seq |-> <<"int64", 3>>, result |-> <<"int32", 4>>]
ChatInfoRs_MergeImpl ==
    [msg_id |-> <<"nonempty", 0>>, myid |-> <<"nonzero", 1>>, friid |-> <<"nonzero", 2>>,
     seq |-> <<"nonzero", 3>>, result |-> <<"nonzero", 4>>]

AddFriendRq_ParseTable ==
    [myid |-> <<1, "int32", 2>>, mynick |-> <<2, "string", 0>>, frinick |-> <<3, "string", 1>>]
AddFriendRq_Accessors == [myid |-> 2, mynick |-> 0, frinick |-> 1]
AddFriendRq_Clear == [mynick |-> {0}, frinick |-> {1}, myid |-> Always]
AddFriendRq_InternalSerialize ==
    <<<<"myid", 1, "int32", 2>>, <<"mynick", 2, "string", 0>>, <<"frinick", 3, "string", 1>>>>
AddFriendRq_ByteSizeLong ==
    [mynick |-> <<"string", 0>>, frinick |-> <<"string", 1>>, myid |-> <<"int32", 2>>]
AddFriendRq_MergeImpl ==
    [mynick |-> <<"nonempty", 0>>, frinick |-> <<"nonempty", 1>>, myid |-> <<"nonzero", 2>>]

AddFriendRs_ParseTable ==
    [result |-> <<1, "int32", 2>>, destid |-> <<2, "int32", 3>>,
     destnick |-> <<3, "string", 0>>, myid |-> <<4, "int32", 4>>,
     mynick |-> <<5, "string", 1>>]
AddFriendRs_Accessors == [result |-> 2, destid |-> 3, destnick |-> 0, myid |-> 4, mynick |-> 1]
AddFriendRs_Clear ==
    [destnick |-> {0}, mynick |-> {1}, result |-> 2..4, destid |-> 2..4, myid |-> 2..4]
AddFriendRs_InternalSerialize ==
    <<<<"result", 1, "int32", 2>>, <<"destid", 2, "int32", 3>>, <<"destnick", 3, "string", 0>>,
     <<"myid", 4, "int32", 4>>, <<"mynick", 5, "string", 1>>>>
AddFriendRs_ByteSizeLong ==
    [destnick |-> <<"string", 0>>, mynick |-> <<"string", 1>>, result |-> <<"int32", 2>>,
     destid |-> <<"int32", 3>>, myid |-> <<"int32", 4>>]
AddFriendRs_MergeImpl ==
    [destnick |-> <<"nonempty", 0>>, mynick |-> <<"nonempty", 1>>, result |-> <<"nonzero", 2>>,
     destid |-> <<"nonzero", 3>>, myid |-> <<"nonzero", 4>>]

FriendRequestListRq_ParseTable == << >>

FriendRequestItem_ParseTable ==
    [requester_id |-> <<1, "int32", 2>>, target_id |-> <<2, "int32", 3>>,
     requester_nick |-> <<3, "string", 0>>, target_nick |-> <<4, "string", 1>>,
     created_at |-> <<5, "int64", 4>>]
FriendRequestItem_Accessors ==
    [requester_id |-> 2, target_id |-> 3, requester_nick |-> 0, target_nick |-> 1,
     created_at |-> 4]
FriendRequestItem_Clear ==
    [requester_nick |-> {0}, target_nick |-> {1}, requester_id |-> 2..4, target_id |-> 2..4,
     created_at |-> 2..4]
FriendRequestItem_InternalSerialize ==
    <<<<"requester_id", 1, "int32", 2>>, <<"target_id", 2, "int32", 3>>,
     <<"requester_nick", 3, "string", 0>>, <<"target_nick", 4, "string", 1>>,
     <<"created_at", 5, "int64", 4>>>>
FriendRequestItem_ByteSizeLong ==
    [requester_nick |-> <<"string", 0>>, target_nick |-> <<"string", 1>>,
     requester_id |-> <<"int32", 2>>, target_id |-> <<"int32", 3>>,
     created_at |-> <<"int64", 4>>]
FriendRequestItem_MergeImpl ==
    [requester_nick |-> <<"nonempty", 0>>, target_nick |-> <<"nonempty", 1>>,
     requester_id |-> <<"nonzero", 2>>, target_id |-> <<"nonzero", 3>>,
     created_at |-> <<"nonzero", 4>>]

FriendRequestListRs_ParseTable == [requests |-> <<1, "messages", 0, "FriendRequestItem">>]
FriendRequestListRs_Accessors == [requests |-> 0]
FriendRequestListRs_Clear == [requests |-> {0}]
FriendRequestListRs_InternalSerialize == <<<<"requests", 1, "messages", 0>>>>
FriendRequestListRs_ByteSizeLong == [requests |-> <<"messages", 0>>]
FriendRequestListRs_MergeImpl == [requests |-> <<"append", 0>>]

DeleteFriendRq_ParseTable == [friend_id |-> <<1, "int32", 0>>]
DeleteFriendRq_Accessors == [friend_id |-> 0]
DeleteFriendRq_Clear == [friend_id |-> Always]
DeleteFriendRq_InternalSerialize == <<<<"friend_id", 1, "int32", 0>>>>
DeleteFriendRq_ByteSizeLong == [friend_id |-> <<"int32", 0>>]
DeleteFriendRq_MergeImpl == [friend_id |-> <<"nonzero", 0>>]

DeleteFriendRs_ParseTable ==
    [result |-> <<1, "int32", 1>>, friend_id |-> <<2, "int32", 2>>,
     operator_id |-> <<3, "int32", 3>>, operator_nick |-> <<4, "string", 0>>]
DeleteFriendRs_Accessors ==
    [result |-> 1, friend_id |-> 2, operator_id |-> 3, operator_nick |-> 0]
DeleteFriendRs_Clear ==
    [operator_nick |-> {0}, result |-> 1..3, friend_id |-> 1..3, operator_id |-> 1..3]
DeleteFriendRs_InternalSerialize ==
    <<<<"result", 1, "int32", 1>>, <<"friend_id", 2, "int32", 2>>,
     <<"operator_id", 3, "int32", 3>>, <<"operator_nick", 4, "string", 0>>>>
DeleteFriendRs_ByteSizeLong ==
    [operator_nick |-> <<"string", 0>>, result |-> <<"int32", 1>>,
     friend_id |-> <<"int32", 2>>, operator_id |-> <<"int32", 3>>]
DeleteFriendRs_MergeImpl ==
    [operator_nick |-> <<"nonempty", 0>>, result |-> <<"nonzero", 1>>,
     friend_id |-> <<"nonzero", 2>>, operator_id |-> <<"nonzero", 3>>]

FriendOffline_ParseTable == [offlineid |-> <<1, "int32", 0>>]
FriendOffline_Accessors == [offlineid |-> 0]
FriendOffline_Clear == [offlineid |-> Always]
FriendOffline_InternalSerialize == <<<<"offlineid", 1, "int32", 0>>>>
FriendOffline_ByteSizeLong == [offlineid |-> <<"int32", 0>>]
FriendOffline_MergeImpl == [offlineid |-> <<"nonzero", 0>>]

RoamConvRq_ParseTable == [myid |-> <<1, "int32", 0>>]
RoamConvRq_Accessors == [myid |-> 0]
RoamConvRq_Clear == [myid |-> Always]
RoamConvRq_InternalSerialize == <<<<"myid", 1, "int32", 0>>>>
RoamConvRq_ByteSizeLong == [myid |-> <<"int32", 0>>]
RoamConvRq_MergeImpl == [myid |-> <<"nonzero", 0>>]

RoamConvRs_ParseTable == [convs |-> <<1, "messages", 0, "ChatInfoRq">>]
RoamConvRs_Accessors == [convs |-> 0]
RoamConvRs_Clear == [convs |-> {0}]
RoamConvRs_InternalSerialize == <<<<"convs", 1, "messages", 0>>>>
RoamConvRs_ByteSizeLong == [convs |-> <<"messages", 0>>]
RoamConvRs_MergeImpl == [convs |-> <<"append", 0>>]

RoamMsgRq_ParseTable ==
    [myid |-> <<1, "int32", 0>>, peer_id |-> <<2, "int32", 1>>,
     before_seq |-> <<3, "int64", 2>>, limit |-> <<4, "int32", 3>>]
RoamMsgRq_Accessors == [myid |-> 0, peer_id |-> 1, before_seq |-> 2, limit |-> 3]
RoamMsgRq_Clear == [myid |-> 0..3, peer_id |-> 0..3, before_seq |-> 0..3, limit |-> 0..3]
RoamMsgRq_InternalSerialize ==
    <<<<"myid", 1, "int32", 0>>, <<"peer_id", 2, "int32", 1>>, <<"before_seq", 3, "int64", 2>>,
     <<"limit", 4, "int32", 3>>>>
RoamMsgRq_ByteSizeLong ==
    [myid |-> <<"int32", 0>>, peer_id |-> <<"int32", 1>>, before_seq |-> <<"int64", 2>>,
     limit |-> <<"int32", 3>>]
RoamMsgRq_MergeImpl ==
    [myid |-> <<"nonzero", 0>>, peer_id |-> <<"nonzero", 1>>, before_seq |-> <<"nonzero", 2>>,
     limit |-> <<"nonzero", 3>>]

RoamMsgRs_ParseTable ==
    [peer_id |-> <<1, "int32", 1>>, msgs |-> <<2, "messages", 0, "ChatInfoRq">>,
     has_more |-> <<3, "bool", 2>>, min_seq |-> <<4, "int64", 3>>]
\* Mutant: add_msgs sets has_more's bit.
RoamMsgRs_AddWrongBit == [peer_id |-> 1, msgs |-> 2, has_more |-> 2, min_seq |-> 3]
RoamMsgRs_Accessors == [peer_id |-> 1, msgs |-> 0, has_more |-> 2, min_seq |-> 3]
RoamMsgRs_Clear == [msgs |-> {0}, peer_id |-> 1..3, has_more |-> 1..3, min_seq |-> 1..3]
RoamMsgRs_InternalSerialize ==
    <<<<"peer_id", 1, "int32", 1>>, <<"msgs", 2, "messages", 0>>, <<"has_more", 3, "bool", 2>>,
     <<"min_seq", 4, "int64", 3>>>>
RoamMsgRs_ByteSizeLong ==
    [msgs |-> <<"messages", 0>>, peer_id |-> <<"int32", 1>>, has_more |-> <<"bool", 2>>,
     min_seq |-> <<"int64", 3>>]
RoamMsgRs_MergeImpl ==
    [msgs |-> <<"append", 0>>, peer_id |-> <<"nonzero", 1>>, has_more |-> <<"nonzero", 2>>,
     min_seq |-> <<"nonzero", 3>>]

AiReplyRq_ParseTable ==
    [request_id |-> <<1, "string", 0>>, peer_id |-> <<2, "int32", 2>>,
     tone |-> <<3, "string", 1>>, max_suggestions |-> <<4, "int32", 3>>]
AiReplyRq_Accessors == [request_id |-> 0, peer_id |-> 2, tone |-> 1, max_suggestions |-> 3]
AiReplyRq_Clear ==
    [request_id |-> {0}, tone |-> {1}, peer_id |-> 2..3, max_suggestions |-> 2..3]
AiReplyRq_InternalSerialize ==
    <<<<"request_id", 1, "string", 0>>, <<"peer_id", 2, "int32", 2>>,
     <<"tone", 3, "string", 1>>, <<"max_suggestions", 4, "int32", 3>>>>
AiReplyRq_ByteSizeLong ==
    [request_id |-> <<"string", 0>>, tone |-> <<"string", 1>>, peer_id |-> <<"int32", 2>>,
     max_suggestions |-> <<"int32", 3>>]
AiReplyRq_MergeImpl ==
    [request_id |-> <<"nonempty", 0>>, tone |-> <<"nonempty", 1>>,
     peer_id |-> <<"nonzero", 2>>, max_suggestions |-> <<"nonzero", 3>>]

AiReplyRs_ParseTable ==
    [request_id |-> <<1, "string", 1>>, status |-> <<2, "enum", 3>>,
     suggestions |-> <<3, "strings", 0>>, error_message |-> <<4, "string", 2>>,
     partial |-> <<5, "bool", 5>>, chunk_index |-> <<6, "int32", 4>>,
     done |-> <<7, "bool", 6>>]
AiReplyRs_Accessors ==
    [request_id |-> 1, status |-> 3, suggestions |-> 0, error_message |-> 2, partial |-> 5,
     chunk_index |-> 4, done |-> 6]
AiReplyRs_Clear ==
    [suggestions |-> {0}, request_id |-> {1}, error_message |-> {2}, status |-> 3..6,
     chunk_index |-> 3..6, partial |-> 3..6, done |-> 3..6]
AiReplyRs_InternalSerialize ==
    <<<<"request_id", 1, "string", 1>>, <<"status", 2, "enum", 3>>,
     <<"suggestions", 3, "strings", 0>>, <<"error_message", 4, "string", 2>>,
     <<"partial", 5, "bool", 5>>, <<"chunk_index", 6, "int32", 4>>, <<"done", 7, "bool", 6>>>>
AiReplyRs_ByteSizeLong ==
    [suggestions |-> <<"strings", 0>>, request_id |-> <<"string", 1>>,
     error_message |-> <<"string", 2>>, status |-> <<"enum", 3>>,
     chunk_index |-> <<"int32", 4>>, partial |-> <<"bool", 5>>, done |-> <<"bool", 6>>]
AiReplyRs_MergeImpl ==
    [suggestions |-> <<"append", 0>>, request_id |-> <<"nonempty", 1>>,
     error_message |-> <<"nonempty", 2>>, status |-> <<"nonzero", 3>>,
     chunk_index |-> <<"nonzero", 4>>, partial |-> <<"nonzero", 5>>, done |-> <<"nonzero", 6>>]

AiCancelRq_ParseTable == [request_id |-> <<1, "string", 0>>]
AiCancelRq_Accessors == [request_id |-> 0]
AiCancelRq_Clear == [request_id |-> {0}]
AiCancelRq_InternalSerialize == <<<<"request_id", 1, "string", 0>>>>
AiCancelRq_ByteSizeLong == [request_id |-> <<"string", 0>>]
AiCancelRq_MergeImpl == [request_id |-> <<"nonempty", 0>>]

AppClientHello_ParseTable ==
    [version |-> <<1, "uint32", 3>>, client_ephemeral_public_key |-> <<2, "bytes", 0>>,
     client_nonce |-> <<3, "bytes", 1>>, client_random_id |-> <<4, "bytes", 2>>,
     cipher_suite |-> <<5, "enum", 4>>]
AppClientHello_Accessors ==
    [version |-> 3, client_ephemeral_public_key |-> 0, client_nonce |-> 1,
     client_random_id |-> 2, cipher_suite |-> 4]
AppClientHello_Clear ==
    [client_ephemeral_public_key |-> {0}, client_nonce |-> {1}, client_random_id |-> {2},
     version |-> 3..4, cipher_suite |-> 3..4]
AppClientHello_InternalSerialize ==
    <<<<"version", 1, "uint32", 3>>, <<"client_ephemeral_public_key", 2, "bytes", 0>>,
     <<"client_nonce", 3, "bytes", 1>>, <<"client_random_id", 4, "bytes", 2>>,
     <<"cipher_suite", 5, "enum", 4>>>>
AppClientHello_ByteSizeLong ==
    [client_ephemeral_public_key |-> <<"bytes", 0>>, client_nonce |-> <<"bytes", 1>>,
     client_random_id |-> <<"bytes", 2>>, version |-> <<"uint32", 3>>,
     cipher_suite |-> <<"enum", 4>>]
AppClientHello_MergeImpl ==
    [client_ephemeral_public_key |-> <<"nonempty", 0>>, client_nonce |-> <<"nonempty", 1>>,
     client_random_id |-> <<"nonempty", 2>>, version |-> <<"nonzero", 3>>,
     cipher_suite |-> <<"nonzero", 4>>]

AppServerHello_ParseTable ==
    [version |-> <<1, "uint32", 4>>, server_ephemeral_public_key |-> <<2, "bytes", 0>>,
     server_nonce |-> <<3, "bytes", 1>>, session_id |-> <<4, "bytes", 2>>,
     key_id |-> <<5, "uint32", 5>>, signature |-> <<6, "bytes", 3>>,
     cipher_suite |-> <<7, "enum", 6>>]
AppServerHello_Accessors ==
    [version |-> 4, server_ephemeral_public_key |-> 0, server_nonce |-> 1, session_id |-> 2,
     key_id |-> 5, signature |-> 3, cipher_suite |-> 6]
AppServerHello_Clear ==
    [server_ephemeral_public_key |-> {0}, server_nonce |-> {1}, session_id |-> {2},
     signature |-> {3}, version |-> 4..6, key_id |-> 4..6, cipher_suite |-> 4..6]
AppServerHello_InternalSerialize ==
    <<<<"version", 1, "uint32", 4>>, <<"server_ephemeral_public_key", 2, "bytes", 0>>,
     <<"server_nonce", 3, "bytes", 1>>, <<"session_id", 4, "bytes", 2>>,
     <<"key_id", 5, "uint32", 5>>, <<"signature", 6, "bytes", 3>>,
     <<"cipher_suite", 7, "enum", 6>>>>
AppServerHello_ByteSizeLong ==
    [server_ephemeral_public_key |-> <<"bytes", 0>>, server_nonce |-> <<"bytes", 1>>,
     session_id |-> <<"bytes", 2>>, signature |-> <<"bytes", 3>>, version |-> <<"uint32", 4>>,
     key_id |-> <<"uint32", 5>>, cipher_suite |-> <<"enum", 6>>]
AppServerHello_MergeImpl ==
    [server_ephemeral_public_key |-> <<"nonempty", 0>>, server_nonce |-> <<"nonempty", 1>>,
     session_id |-> <<"nonempty", 2>>, signature |-> <<"nonempty", 3>>,
     version |-> <<"nonzero", 4>>, key_id |-> <<"nonzero", 5>>,
     cipher_suite |-> <<"nonzero", 6>>]

AppFinished_ParseTable == [verify_data |-> <<1, "bytes", 0>>]
AppFinished_Accessors == [verify_data |-> 0]
AppFinished_Clear == [verify_data |-> {0}]
AppFinished_InternalSerialize == <<<<"verify_data", 1, "bytes", 0>>>>
AppFinished_ByteSizeLong == [verify_data |-> <<"bytes", 0>>]
AppFinished_MergeImpl == [verify_data |-> <<"nonempty", 0>>]

AppEncryptedFrame_ParseTable ==
    [version |-> <<1, "uint32", 4>>, session_id |-> <<2, "bytes", 0>>,
     sequence |-> <<3, "uint64", 3>>, ciphertext |-> <<4, "bytes", 1>>,
     tag |-> <<5, "bytes", 2>>]
AppEncryptedFrame_Accessors ==
    [version |-> 4, session_id |-> 0, sequence |-> 3, ciphertext |-> 1, tag |-> 2]
AppEncryptedFrame_Clear ==
    [session_id |-> {0}, ciphertext |-> {1}, tag |-> {2}, sequence |-> 3..4, version |-> 3..4]
AppEncryptedFrame_InternalSerialize ==
    <<<<"version", 1, "uint32", 4>>, <<"session_id", 2, "bytes", 0>>,
     <<"sequence", 3, "uint64", 3>>, <<"ciphertext", 4, "bytes", 1>>,
     <<"tag", 5, "bytes", 2>>>>
AppEncryptedFrame_ByteSizeLong ==
    [session_id |-> <<"bytes", 0>>, ciphertext |-> <<"bytes", 1>>, tag |-> <<"bytes", 2>>,
     sequence |-> <<"uint64", 3>>, version |-> <<"uint32", 4>>]
AppEncryptedFrame_MergeImpl ==
    [session_id |-> <<"nonempty", 0>>, ciphertext |-> <<"nonempty", 1>>,
     tag |-> <<"nonempty", 2>>, sequence |-> <<"nonzero", 3>>, version |-> <<"nonzero", 4>>]

(***************************************************************************)
(* The classes by name: MessageLite's virtual functions.                   *)
(***************************************************************************)
ParseTable ==
    [RegisterRq |-> RegisterRq_ParseTable, RegisterRs |-> RegisterRs_ParseTable,
     LoginRq |-> LoginRq_ParseTable, LoginRs |-> LoginRs_ParseTable,
     RefreshTokenRq |-> RefreshTokenRq_ParseTable,
     RefreshTokenRs |-> RefreshTokenRs_ParseTable, TokenLoginRq |-> TokenLoginRq_ParseTable,
     TokenLoginRs |-> TokenLoginRs_ParseTable, LogoutRq |-> LogoutRq_ParseTable,
     LogoutRs |-> LogoutRs_ParseTable, FriendInfo |-> FriendInfo_ParseTable,
     ChatInfoRq |-> ChatInfoRq_ParseTable, ChatInfoRs |-> ChatInfoRs_ParseTable,
     AddFriendRq |-> AddFriendRq_ParseTable, AddFriendRs |-> AddFriendRs_ParseTable,
     FriendRequestListRq |-> FriendRequestListRq_ParseTable,
     FriendRequestItem |-> FriendRequestItem_ParseTable,
     FriendRequestListRs |-> FriendRequestListRs_ParseTable,
     DeleteFriendRq |-> DeleteFriendRq_ParseTable,
     DeleteFriendRs |-> DeleteFriendRs_ParseTable, FriendOffline |-> FriendOffline_ParseTable,
     RoamConvRq |-> RoamConvRq_ParseTable, RoamConvRs |-> RoamConvRs_ParseTable,
     RoamMsgRq |-> RoamMsgRq_ParseTable, RoamMsgRs |-> RoamMsgRs_ParseTable,
     AiReplyRq |-> AiReplyRq_ParseTable, AiReplyRs |-> AiReplyRs_ParseTable,
     AiCancelRq |-> AiCancelRq_ParseTable, AppClientHello |-> AppClientHello_ParseTable,
     AppServerHello |-> AppServerHello_ParseTable, AppFinished |-> AppFinished_ParseTable,
     AppEncryptedFrame |-> AppEncryptedFrame_ParseTable]
Accessors ==
    [RegisterRq |-> RegisterRq_Accessors, RegisterRs |-> RegisterRs_Accessors,
     LoginRq |-> LoginRq_Accessors, LoginRs |-> LoginRs_Accessors,
     RefreshTokenRq |-> RefreshTokenRq_Accessors, RefreshTokenRs |-> RefreshTokenRs_Accessors,
     TokenLoginRq |-> TokenLoginRq_Accessors, TokenLoginRs |-> TokenLoginRs_Accessors,
     LogoutRq |-> LogoutRq_Accessors, LogoutRs |-> LogoutRs_Accessors,
     FriendInfo |-> FriendInfo_Accessors, ChatInfoRq |-> ChatInfoRq_Accessors,
     ChatInfoRs |-> ChatInfoRs_Accessors, AddFriendRq |-> AddFriendRq_Accessors,
     AddFriendRs |-> AddFriendRs_Accessors, FriendRequestItem |-> FriendRequestItem_Accessors,
     FriendRequestListRs |-> FriendRequestListRs_Accessors,
     DeleteFriendRq |-> DeleteFriendRq_Accessors, DeleteFriendRs |-> DeleteFriendRs_Accessors,
     FriendOffline |-> FriendOffline_Accessors, RoamConvRq |-> RoamConvRq_Accessors,
     RoamConvRs |-> RoamConvRs_Accessors, RoamMsgRq |-> RoamMsgRq_Accessors,
     RoamMsgRs |-> RoamMsgRs_Accessors, AiReplyRq |-> AiReplyRq_Accessors,
     AiReplyRs |-> AiReplyRs_Accessors, AiCancelRq |-> AiCancelRq_Accessors,
     AppClientHello |-> AppClientHello_Accessors, AppServerHello |-> AppServerHello_Accessors,
     AppFinished |-> AppFinished_Accessors, AppEncryptedFrame |-> AppEncryptedFrame_Accessors,
     FriendRequestListRq |-> << >>]
Clear ==
    [RegisterRq |-> RegisterRq_Clear, RegisterRs |-> RegisterRs_Clear,
     LoginRq |-> LoginRq_Clear, LoginRs |-> LoginRs_Clear,
     RefreshTokenRq |-> RefreshTokenRq_Clear, RefreshTokenRs |-> RefreshTokenRs_Clear,
     TokenLoginRq |-> TokenLoginRq_Clear, TokenLoginRs |-> TokenLoginRs_Clear,
     LogoutRq |-> LogoutRq_Clear, LogoutRs |-> LogoutRs_Clear, FriendInfo |-> FriendInfo_Clear,
     ChatInfoRq |-> ChatInfoRq_Clear, ChatInfoRs |-> ChatInfoRs_Clear,
     AddFriendRq |-> AddFriendRq_Clear, AddFriendRs |-> AddFriendRs_Clear,
     FriendRequestItem |-> FriendRequestItem_Clear,
     FriendRequestListRs |-> FriendRequestListRs_Clear,
     DeleteFriendRq |-> DeleteFriendRq_Clear, DeleteFriendRs |-> DeleteFriendRs_Clear,
     FriendOffline |-> FriendOffline_Clear, RoamConvRq |-> RoamConvRq_Clear,
     RoamConvRs |-> RoamConvRs_Clear, RoamMsgRq |-> RoamMsgRq_Clear,
     RoamMsgRs |-> RoamMsgRs_Clear, AiReplyRq |-> AiReplyRq_Clear,
     AiReplyRs |-> AiReplyRs_Clear, AiCancelRq |-> AiCancelRq_Clear,
     AppClientHello |-> AppClientHello_Clear, AppServerHello |-> AppServerHello_Clear,
     AppFinished |-> AppFinished_Clear, AppEncryptedFrame |-> AppEncryptedFrame_Clear,
     FriendRequestListRq |-> << >>]
InternalSerialize ==
    [RegisterRq |-> RegisterRq_InternalSerialize, RegisterRs |-> RegisterRs_InternalSerialize,
     LoginRq |-> LoginRq_InternalSerialize, LoginRs |-> LoginRs_InternalSerialize,
     RefreshTokenRq |-> RefreshTokenRq_InternalSerialize,
     RefreshTokenRs |-> RefreshTokenRs_InternalSerialize,
     TokenLoginRq |-> TokenLoginRq_InternalSerialize,
     TokenLoginRs |-> TokenLoginRs_InternalSerialize, LogoutRq |-> LogoutRq_InternalSerialize,
     LogoutRs |-> LogoutRs_InternalSerialize, FriendInfo |-> FriendInfo_InternalSerialize,
     ChatInfoRq |-> ChatInfoRq_InternalSerialize, ChatInfoRs |-> ChatInfoRs_InternalSerialize,
     AddFriendRq |-> AddFriendRq_InternalSerialize,
     AddFriendRs |-> AddFriendRs_InternalSerialize,
     FriendRequestItem |-> FriendRequestItem_InternalSerialize,
     FriendRequestListRs |-> FriendRequestListRs_InternalSerialize,
     DeleteFriendRq |-> DeleteFriendRq_InternalSerialize,
     DeleteFriendRs |-> DeleteFriendRs_InternalSerialize,
     FriendOffline |-> FriendOffline_InternalSerialize,
     RoamConvRq |-> RoamConvRq_InternalSerialize, RoamConvRs |-> RoamConvRs_InternalSerialize,
     RoamMsgRq |-> RoamMsgRq_InternalSerialize, RoamMsgRs |-> RoamMsgRs_InternalSerialize,
     AiReplyRq |-> AiReplyRq_InternalSerialize, AiReplyRs |-> AiReplyRs_InternalSerialize,
     AiCancelRq |-> AiCancelRq_InternalSerialize,
     AppClientHello |-> AppClientHello_InternalSerialize,
     AppServerHello |-> AppServerHello_InternalSerialize,
     AppFinished |-> AppFinished_InternalSerialize,
     AppEncryptedFrame |-> AppEncryptedFrame_InternalSerialize, FriendRequestListRq |-> << >>]
ByteSizeLong ==
    [RegisterRq |-> RegisterRq_ByteSizeLong, RegisterRs |-> RegisterRs_ByteSizeLong,
     LoginRq |-> LoginRq_ByteSizeLong, LoginRs |-> LoginRs_ByteSizeLong,
     RefreshTokenRq |-> RefreshTokenRq_ByteSizeLong,
     RefreshTokenRs |-> RefreshTokenRs_ByteSizeLong,
     TokenLoginRq |-> TokenLoginRq_ByteSizeLong, TokenLoginRs |-> TokenLoginRs_ByteSizeLong,
     LogoutRq |-> LogoutRq_ByteSizeLong, LogoutRs |-> LogoutRs_ByteSizeLong,
     FriendInfo |-> FriendInfo_ByteSizeLong, ChatInfoRq |-> ChatInfoRq_ByteSizeLong,
     ChatInfoRs |-> ChatInfoRs_ByteSizeLong, AddFriendRq |-> AddFriendRq_ByteSizeLong,
     AddFriendRs |-> AddFriendRs_ByteSizeLong,
     FriendRequestItem |-> FriendRequestItem_ByteSizeLong,
     FriendRequestListRs |-> FriendRequestListRs_ByteSizeLong,
     DeleteFriendRq |-> DeleteFriendRq_ByteSizeLong,
     DeleteFriendRs |-> DeleteFriendRs_ByteSizeLong,
     FriendOffline |-> FriendOffline_ByteSizeLong, RoamConvRq |-> RoamConvRq_ByteSizeLong,
     RoamConvRs |-> RoamConvRs_ByteSizeLong, RoamMsgRq |-> RoamMsgRq_ByteSizeLong,
     RoamMsgRs |-> RoamMsgRs_ByteSizeLong, AiReplyRq |-> AiReplyRq_ByteSizeLong,
     AiReplyRs |-> AiReplyRs_ByteSizeLong, AiCancelRq |-> AiCancelRq_ByteSizeLong,
     AppClientHello |-> AppClientHello_ByteSizeLong,
     AppServerHello |-> AppServerHello_ByteSizeLong, AppFinished |-> AppFinished_ByteSizeLong,
     AppEncryptedFrame |-> AppEncryptedFrame_ByteSizeLong, FriendRequestListRq |-> << >>]
MergeImpl ==
    [RegisterRq |-> RegisterRq_MergeImpl, RegisterRs |-> RegisterRs_MergeImpl,
     LoginRq |-> LoginRq_MergeImpl, LoginRs |-> LoginRs_MergeImpl,
     RefreshTokenRq |-> RefreshTokenRq_MergeImpl, RefreshTokenRs |-> RefreshTokenRs_MergeImpl,
     TokenLoginRq |-> TokenLoginRq_MergeImpl, TokenLoginRs |-> TokenLoginRs_MergeImpl,
     LogoutRq |-> LogoutRq_MergeImpl, LogoutRs |-> LogoutRs_MergeImpl,
     FriendInfo |-> FriendInfo_MergeImpl, ChatInfoRq |-> ChatInfoRq_MergeImpl,
     ChatInfoRs |-> ChatInfoRs_MergeImpl, AddFriendRq |-> AddFriendRq_MergeImpl,
     AddFriendRs |-> AddFriendRs_MergeImpl, FriendRequestItem |-> FriendRequestItem_MergeImpl,
     FriendRequestListRs |-> FriendRequestListRs_MergeImpl,
     DeleteFriendRq |-> DeleteFriendRq_MergeImpl, DeleteFriendRs |-> DeleteFriendRs_MergeImpl,
     FriendOffline |-> FriendOffline_MergeImpl, RoamConvRq |-> RoamConvRq_MergeImpl,
     RoamConvRs |-> RoamConvRs_MergeImpl, RoamMsgRq |-> RoamMsgRq_MergeImpl,
     RoamMsgRs |-> RoamMsgRs_MergeImpl, AiReplyRq |-> AiReplyRq_MergeImpl,
     AiReplyRs |-> AiReplyRs_MergeImpl, AiCancelRq |-> AiCancelRq_MergeImpl,
     AppClientHello |-> AppClientHello_MergeImpl, AppServerHello |-> AppServerHello_MergeImpl,
     AppFinished |-> AppFinished_MergeImpl, AppEncryptedFrame |-> AppEncryptedFrame_MergeImpl,
     FriendRequestListRq |-> << >>]
=============================================================================
