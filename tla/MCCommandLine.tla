--------------------------- MODULE MCCommandLine ----------------------------
(***************************************************************************)
(* Command lines, numbers and inputs for TLC: every order of up to three   *)
(* options for each command, with values missing.                          *)
(***************************************************************************)
EXTENDS CommandLine, SequencesExt

Words == {<<"--password-fd", "0">>, <<"--password-fd", "3">>, <<"--password-fd">>,
          <<"--hidden-password-fd", "0">>, <<"--hidden-password-fd", "9">>,
          <<"--protect-hidden">>}
Needed(cmd) ==
  CASE cmd \in {"create", "create-hidden"} ->
         {<<"--size", "3">>, <<"--size", "x">>}
    [] cmd = "mount"        -> {<<"--mountpoint", "dir">>}
    [] cmd = "write-sector" -> {<<"--lba", "0", "--data", "file">>,
                                <<"--lba", "0">>}
    [] cmd = "read-sector"  -> {<<"--output", "file", "--lba", "0">>,
                                <<"--output", "file">>}
    [] OTHER                -> {}

Orders(W) == UNION {[1 .. n -> W] : n \in 0 .. 3}
Lines ==
  {<<>>, <<"open">>, <<"help", "path">>} \union
  UNION {{<<cmd, "path">> \o FlattenSeq(o) : o \in Orders(Words \union Needed(cmd))}
         : cmd \in Commands}

Digits == [t \in {"0", "3", "9"} |->
             CASE t = "0" -> 0 [] t = "3" -> 3 [] t = "9" -> 9]
Breaks == {"LF", "CR"}

\* Two lines, a line longer than the buffer, CR LF, and no input at all.
First == {<<"a", "LF", "b", "LF">>, <<"a", "b", "a", "LF", "b", "LF">>,
          <<"a", "CR", "LF", "b">>, <<>>}
Typed == {[f \in {0, 3} |-> IF f = 0 THEN s ELSE <<"b", "LF">>] : s \in First}
=============================================================================
