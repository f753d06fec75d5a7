----------------------------- MODULE MCRegistry -----------------------------
(***************************************************************************)
(* Instances of Registry: two namespaces that compete for a name, one      *)
(* under another name, and those Validate refuses, each for one reason.    *)
(***************************************************************************)
EXTENDS Registry

Ns(name, size, codec, payload) ==
  [name |-> name, KeySize |-> size, Key |-> codec, Payload |-> payload]

MCOffered == {Ns(1, 34, 34, TRUE), Ns(1, 36, 36, TRUE), Ns(2, 8, 8, TRUE),
              Ns(2, 8, 9, TRUE), Ns(3, 8, 8, TRUE), Ns(1, 0, 0, TRUE),
              Ns(1, 8, NoCodec, TRUE), Ns(1, 8, 8, FALSE)}
=============================================================================
