---------------------------- MODULE MCLogStream ----------------------------
(* LogStream for TLC: a log of seven lines of mixed length, two of them    *)
(* items the reader cannot parse and one longer than the buffer.           *)
EXTENDS LogStream

MCSize == <<1, 1, 4, 2, 1, 1, 3>>
MCJunk == {2, 6}
=============================================================================
