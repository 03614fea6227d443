--------------------------------- MODULE MCSgr ---------------------------------
(* Sgr with single attributes and with lists that give colours, complete or   *)
(* not, between attributes.                                                   *)
EXTENDS Sgr

MCLists ==
  {<<>>} \cup {<<v>> : v \in {0, 1, 5, 7, 22, 25, 27, 31, 39, 41, 49, 91, 101, 3}}
    \cup {<<38, 5, 9>>, <<48, 5, 256, 1>>, <<38, 2, 9, 7, 5>>, <<48, 2, 9, 1, 5, 7>>,
          <<38>>, <<48, 5>>, <<38, 9, 7, 48>>, <<48, 2, 7, 7>>, <<7, 38, 5, 1, 31>>}

\* States are saved in bold reverse video with one colour chosen.
MCSaveBound(c, wishes, wrong) ==
  /\ c.bold /\ c.reverse_video /\ wrong = {}
  /\ wishes.fg.kind = "plain" /\ wishes.bg.kind = "default"
==============================================================================
