---------------------------- MODULE OrderedStream ----------------------------
(***************************************************************************)
(* What a reader of a streamed download is promised: the chunks of the     *)
(* file arrive one at a time in index order, and the stream ends cleanly   *)
(* only after the last one.  `getChunked' (Server/server.go) hands such a  *)
(* stream to its caller through an io.Pipe.                                *)
(***************************************************************************)
EXTENDS Naturals, Sequences

CONSTANT N              \* number of chunks in the manifest

VARIABLES out,          \* chunk indices delivered so far
          status        \* "open", or how the stream was closed

vars == <<out, status>>

Init == /\ out = <<>>
        /\ status = IF N = 0 THEN "done" ELSE "open"   \* an empty file needs no chunk

\* The next chunk in index order is delivered.
Emit == /\ status = "open"
        /\ Len(out) < N
        /\ out' = Append(out, Len(out))
        /\ UNCHANGED status

\* The stream closes cleanly: every chunk has been delivered.
Close == /\ status = "open"
         /\ Len(out) = N
         /\ status' = "done"
         /\ UNCHANGED out

\* The stream is closed with an error, at any point.
Fail == /\ status = "open"
        /\ status' = "error"
        /\ UNCHANGED out

Next == Emit \/ Close \/ Fail

Spec == Init /\ [][Next]_vars
==============================================================================
