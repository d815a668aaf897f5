----------------------------- MODULE MCModelCall -----------------------------
(* ModelCall on small instances: two attempts, two rounds of at most two   *)
(* tool calls, every client, and the settings that make a difference.      *)
EXTENDS ModelCall

Hint(enum, word, has) == [enum |-> enum, word |-> word, has |-> has]

\* "", "a|b", "integer", "decimal", "printed text" and "list of strings"
MCHints == {Hint(FALSE, "any", {}), Hint(TRUE, "any", {}), Hint(FALSE, "int", {"int"}),
            Hint(FALSE, "number", {}), Hint(FALSE, "string", {"int"}), Hint(FALSE, "array", {})}

(* Hints matter to the dry run only, hiding only with thinking, and the    *)
(* debug wrapper only with tools.                                          *)
MCSetups ==
    {s \in [client : Clients, debug : BOOLEAN, tools : BOOLEAN, strict : BOOLEAN,
            thinking : BOOLEAN, hide : BOOLEAN, schema : {"field", "own", "none"},
            hint : MCHints] :
        /\ s.hide => s.thinking
        /\ s.debug => s.tools
        /\ s.client = "dryrun" \/ s.hint = Hint(FALSE, "any", {})}

MCRetryAfters == {0, 20}
=============================================================================
