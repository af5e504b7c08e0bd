--------------------------- MODULE MCMessageBuffer ---------------------------
(* Instance of MessageBuffer for TLC. *)
EXTENDS MessageBuffer

(* A chat message with B站's ":"-suffix, a gift, telemetry, and a message  *)
(* without a string command.                                               *)
MCRawCommands ==
  {<<"DANMU_MSG", "4", "0">>, <<"SEND_GIFT">>, <<"ONLINE_RANK_V2">>, <<>>}

=============================================================================
