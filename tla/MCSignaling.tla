---------------------------- MODULE MCSignaling ----------------------------
(* An answer's lines, and lines in and out of place for the lexer.           *)
EXTENDS Signaling

MCAnswer ==
    <<Line("v", 0), Line("o", [session_id |-> "s", session_version |-> 1]),
      Line("s", "-"), Line("t", "0 0"), Line("a", <<"ice-ufrag", "u1">>),
      Line("a", <<"ice-pwd", "p1">>), Line("a", <<"fingerprint", "f1">>),
      Line("m", [media |-> "application"])>>

(* Of every key a line that its function takes and, where it checks          *)
(* anything, one that it refuses.                                            *)
MCOthers ==
    {Line(key, Malformed) : key \in {"v", "o", "u", "c", "b", "t", "m"}}
    \cup {Line(key, "text") : key \in {"i", "u", "e", "p", "c", "k", "x"}}
    \cup {Line("b", [prefixes |-> 2, type |-> "YZ"]), Line("b", [prefixes |-> 0, type |-> "YZ"]),
          Line("t", "1 2"),
          Line("r", <<<<7, "d">>, <<1, "h">>, <<0, "">>>>), Line("r", <<<<7, "d">>>>),
          Line("r", <<<<8, "d">>, <<1, "h">>, <<0, "">>>>),
          Line("z", <<<<5, "">>, <<1, "h">>>>), Line("z", <<<<5, "">>>>),
          Line("z", <<<<1, "h">>, <<1, "h">>>>),
          Line("a", <<"sendrecv">>), Line("a", <<"ice-ufrag", "u2">>),
          Line("a", <<"candidate", "unknown">>), Line("a", <<"fingerprint", "unknown">>),
          Line("m", [media |-> "audio"])}
=============================================================================
