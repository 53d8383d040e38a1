----------------------------- MODULE MCToolGates -----------------------------
(* A small instance of ToolGates for TLC: a workspace with a link to a      *)
(* directory outside of it.                                                 *)
EXTENDS ToolGates, TLC

MCRoot == <<"w">>

MCRealPath ==
  <<>> :> <<>> @@ MCRoot :> MCRoot @@ <<"w", "link">> :> <<"x">> @@ <<"x">> :> <<"x">>

MCDangling == <<"w", "gone">> :> <<"y">>

\* A new file behind the link, and one below a directory that is missing
\* behind the link: the check sees the link of the first and not of the second.
MCArguments == {<<"w", "link", "file">>, <<"w", "link", "new", "file">>}

=============================================================================
