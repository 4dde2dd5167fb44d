------------------------------ MODULE MCEmbedded ------------------------------
(* Scripts of up to four lines and strings of up to five pieces.            *)
EXTENDS EmbeddedDocs

Accent == {"accent"}
Emoji  == {"emoji"}
Script == {<<>>, <<"go">>, <<".", "w">>, <<".", ";">>, <<"#", "emoji", ";">>,
           <<"w">>, <<"accent", "emoji", ";">>, <<"w", "--", ";">>,
           <<"'">>, <<"/*">>, <<"*/", "w">>, <<";">>}
Kinds  == {"char", "accent", "brace", "short", "long"}
=============================================================================
