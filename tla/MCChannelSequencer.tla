------------------------- MODULE MCChannelSequencer -------------------------
(* ChannelSequencer on a small instance.                                   *)
EXTENDS ChannelSequencer

CONSTANTS w1, w2

Lists == <<<<"email", "webhook">>, <<"email", "flawed">>, <<"held", "later", "email">>, <<>>>>
MCAllowed == {<<2, 1, {1}>>, <<2, 0, {1, 3}>>, <<1, 1, {1, 2}>>, <<1, 0, {1, 2, 3}>>, <<0, 2, {1, 2, 3}>>,
              <<1, 0, {1, 4}>>, <<0, 0, {1, 2, 3, 4}>>}
=============================================================================
