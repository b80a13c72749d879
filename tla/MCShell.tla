------------------------------ MODULE MCShell -------------------------------
(* Words of two letters, two of which share their first as memory and      *)
(* memtest do.                                                             *)
EXTENDS Shell

MCTable  == <<<<"a", "b">>, <<"b", "b">>, <<"a", "a">>>>
MCClear  == <<"a", "a">>
MCReboot == <<"b", "b">>
MCDispatched == {<<"a", "a">>, <<"a", "b">>, <<"b", "b">>}
MCPrompt == <<">">>
MCGreeting == <<"b">>
MCOutputs == {<<>>,
              <<[color |-> "cyan", text |-> <<"a", "newline", "b">>],
                [color |-> "red", text |-> <<"tab", "newline">>]>>}
=============================================================================
