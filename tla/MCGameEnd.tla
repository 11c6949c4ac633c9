-------------------------------- MODULE MCGameEnd --------------------------------
(* Small contests for GameEnd.                                             *)
EXTENDS GameEnd
================================================================================
