------------------------- MODULE MCFCMissionHandler -------------------------
(* An instance of FCMissionHandler for TLC.                                *)
EXTENDS FCMissionHandler

CONSTANTS zero, a, b, jump

\* More items than are requested at a time, a smaller mission, one of the same
\* size as that, and an empty one; one item is at the position the handler takes
\* for none, and one in a frame it ignores.
Changing == {<<a, b, zero>>, <<b>>, <<jump>>, <<>>}

\* Two corners of a fence, at other positions than the items of these numbers.
Fence == {<<0, b>>, <<1, a>>}
=============================================================================
