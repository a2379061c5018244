---------------------------- MODULE MCCommandLine ----------------------------
(***************************************************************************)
(* CommandLine with all lines of up to three arguments out of a set of     *)
(* common, abbreviated and malformed ones, and all lines of up to four     *)
(* options as in usage()                                                   *)
(***************************************************************************)
EXTENDS CommandLine

LOCAL Arguments ==
  { <<>>, <<"-">>, <<"-", "-">>, <<"COM1">>,
    <<"-", "p">>, <<"-", "p", "COM1">>, <<"-", "g", "h", "-">>, <<"-", "c", "-">>,
    <<"-", "h", "V">>, <<"-", "V", "-">>, <<"-", ":">>, <<"-", "a", "-">>,
    <<"-", "-", "p">>, <<"-", "-", "p", "ort">>, <<"-", "-", "p", "ort", "2">>,
    <<"-", "-", "p", "ort", "=">>, <<"-", "-", "=", "COM1">>, <<"-", "-", "g">>,
    <<"-", "-", "c", "=", "=">>, <<"-", "-", "h", "=", "a">>, <<"-", "-", "v">>, <<"-", "-", "a">> }

MCLines == UNION {[1..n -> Arguments] : n \in 0..3}

LOCAL Item(v, f, arg) == [val |-> v, form |-> f, arg |-> arg]

LOCAL Items ==
  {Item("p", "short", <<"COM1">>), Item("p", "attached", <<"COM2">>), Item("p", "equals", <<"COM1">>),
   Item("2", "long", <<"COM3">>), Item("4", "equals", <<"-", "p">>)}
  \union {Item("g", f, <<"a">>) : f \in {"short", "attached", "long"}}
  \union {Item("c", f, <<"-", "g">>) : f \in {"short", "long", "equals"}}

MCUsages == UNION {[1..n -> Items] : n \in 1..4}

=============================================================================
