--------------------------- MODULE MCParseLifecycle ---------------------------
(* Every behaviour of one request: the model is finite as it stands.         *)
EXTENDS ParseLifecycle
===============================================================================
