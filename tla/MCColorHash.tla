---------------------------- MODULE MCColorHash -----------------------------
(* Small words and small factors for TLC; chars of both signs.             *)
EXTENDS ColorHash
MCChars == {-3, 1, 32, 60}
=============================================================================
