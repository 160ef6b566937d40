---------------------------- MODULE MCRtspInput ----------------------------
(* Every sequence of three messages, every two of a client that plays, and  *)
(* one that plays a second time.                                            *)
EXTENDS RtspInput

Line(method) ==
  <<method, "sp", "word", "sp", "R", "T", "S", "P", "slash", "1", "dot", "1", "cr", "lf">>
End == <<"cr", "lf">>

MCVerb == [DESCRIBE |-> <<"T">>, SETUP |-> <<"S">>, PLAY |-> <<"P">>, TEARDOWN |-> <<"H">>]

\* A request with a folded header, three without headers, one of another method
\* with a body; a packet of RTCP, whose second byte is the number of its channel
MCBytes ==
  [ describe |-> Line("T") \o <<"word", "colon", "sp", "word", "cr", "lf">>
                   \o <<"sp", "sp", "colon", "cr", "lf">> \o End,
    setup    |-> Line("S") \o End,
    play     |-> Line("P") \o End,
    teardown |-> Line("H") \o End,
    set      |-> Line("word") \o <<"word", "colon", "sp", "2", "cr", "lf">>
                   \o <<"L", "colon", "sp", "2", "cr", "lf">> \o End \o <<"1", "cr">>,
    rtcp     |-> <<"dollar", "ctl", "ctl", "word">> ]

MCMessages ==
  [1 .. 3 -> DOMAIN MCBytes]
  \cup {<<"setup", "play">> \o two : two \in [1 .. 2 -> DOMAIN MCBytes]}
  \cup {<<"setup", "play", "describe", "setup", "play", "rtcp">>}

\* Read alone, they are the requests they are meant to be.
ASSUME RequestsAreTheirs ==
  \A m \in DOMAIN MCBytes \ {"rtcp"} :
    Request(m) = [method |-> SubSeq(MCBytes[m], 1, 1),
                  data |-> IF m = "set" THEN <<"1", "cr">> ELSE <<>>]
=============================================================================
