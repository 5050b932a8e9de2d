----------------------------- MODULE MCEndpoints -----------------------------
(* An operation of any kind beside one that asks for the champion names.   *)
EXTENDS Endpoints

CONSTANTS o1, o2

MCOps   == {o1, o2}
MCCalls == {<<o1, 1>>, <<o1, 2>>, <<o2, 1>>}
=============================================================================
