--------------------------------- MODULE MCChat --------------------------------
(***************************************************************************)
(* Chat requests under the default settings: two retries of the model,     *)
(* 30 s for each of its calls and 60 s for the request (MCChat.cfg); and   *)
(* the same with a tool and a search that take no time, so that only the   *)
(* model is to blame (ChatTimeouts.cfg).                                   *)
(***************************************************************************)
EXTENDS ChatAgent
================================================================================
