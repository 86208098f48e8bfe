---------------------------- MODULE MCPhoneRoom ----------------------------
(* PhoneRoom for TLC. *)
EXTENDS PhoneRoom
=============================================================================
