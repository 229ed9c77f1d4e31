---------------------------- MODULE MCLaReadout ----------------------------
(* LaReadout with bits for samples and small sets of commands.             *)
EXTENDS LaReadout

MCSample   == {0, 1}
MCCommands == {{}, {"off"}, {"arm"}, {"start"}, {"arm", "start"}}
MCCalm     == {{}, {"arm"}, {"start"}}   \* no clear, and no arm with a start
MCBoth     == BOOLEAN
MCOff      == {FALSE}
=============================================================================
