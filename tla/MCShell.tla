------------------------------ MODULE MCShell -------------------------------
(***************************************************************************)
(* The lines that are typed: every construct of the grammar, and those     *)
(* whose pieces meet: a list in a pipeline, a pipeline in the background,  *)
(* a redirection around a block and inside one.                            *)
(***************************************************************************)
EXTENDS Shell

cat == EXEC(<<"cat">>)
yes == EXEC(<<"yes">>)
echo == EXEC(<<"echo", "x">>)

SmallCommands ==
    { PIPE(yes, PIPE(cat, echo)),
      PIPE(LIST(echo, yes), REDIR(cat, 1, "f")),
      LIST(BACK(EXEC(<<"missing">>)), REDIR(PIPE(echo, REDIR(cat, 1, "g")), 0, "f")),
      BACK(LIST(LIST(LIST(LIST(LIST(echo, echo), echo), echo), echo), EXEC(<<>>))) }

SmallBadLines == { <<"echo", "|", ">">>, <<"(", "echo">>, <<"echo", ")">>, <<"echo", "x", "x", "x">> }

=============================================================================
