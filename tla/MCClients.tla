------------------------------ MODULE MCClients ------------------------------
(***************************************************************************)
(* RuntimeClients with two machines, one with a board and input devices    *)
(* and one without.                                                        *)
(***************************************************************************)
EXTENDS RuntimeClients

MCTopologies == {[keyboard |-> TRUE, mouse |-> FALSE, video |-> TRUE],
                 [keyboard |-> FALSE, mouse |-> FALSE, video |-> FALSE]}
MCBatches ==
  {<<e>> : e \in Events}
    \cup {<<"b", "a">>,
          <<"a", "reset">>, <<"picture", "reset">>, <<"reset", "b">>, <<"picture", "reboot">>}
===============================================================================
