---------------------------- MODULE MCCaptureRun ----------------------------
(* A source of two folders.  F holds two files of one message (a mail client *)
(* renamed one), and a message whose file's unique part is theirs; G holds a *)
(* copy of the first and another message that reuses its Message-ID.         *)
EXTENDS CaptureRun

MCWalk == <<"a1", "a2", "c", "b", "r">>
MCFolder == [a1 |-> "F", a2 |-> "F", c |-> "F", b |-> "G", r |-> "G"]
MCMsgId == [a1 |-> "x", a2 |-> "x", c |-> "y", b |-> "x", r |-> "x"]
MCBody == [a1 |-> "one", a2 |-> "one", c |-> "two", b |-> "one", r |-> "two"]
MCPlace == [a1 |-> "p", a2 |-> "p", c |-> "p", b |-> "s", r |-> "t"]
=============================================================================
