--------------------------- MODULE MCModelStream ---------------------------
(* Tags of two and three characters, which share their first one as <think> *)
(* and </think> do: eight characters hold both and three more.              *)
EXTENDS ModelStream

MCOpen == <<"<", ">">>
MCClose == <<"<", "/", ">">>

=============================================================================
