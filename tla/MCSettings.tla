--------------------------- MODULE MCSettings ---------------------------
(* Settings with the keys that something reads.                             *)
EXTENDS Settings

\* password_reset_verification_enabled is stored and reported like the first one.
ReadKeys == <<"registration", "login">>
====
