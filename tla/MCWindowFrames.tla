-------------------------- MODULE MCWindowFrames ---------------------------
(* Small instances of WindowFrames: two windows of one application, two     *)
(* tiles, one window that may be hidden.                                    *)
EXTENDS WindowFrames, TLC

TwoTiles == {"left", "right", "off", "midway", "own"}
Plans == { <<"left", "right">>, <<"left", "off">>, <<"right", "off">> }
=============================================================================
