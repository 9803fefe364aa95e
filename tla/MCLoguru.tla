-------------------------------- MODULE MCLoguru -------------------------------
(* One pool thread beside the main thread, which shares its arena; stderr  *)
(* at its default, one log file that takes everything.                     *)
EXTENDS Loguru

MCLogFiles == <<2>>
MCArenaOf == [t \in Threads |-> "arena"]
================================================================================
