------------------------------ MODULE MCMediaLink ------------------------------
EXTENDS MediaLink

MCConns == {Offerer, Answerer}
=============================================================================
