-------------------------- MODULE MC_ContextBuilder --------------------------
(* Three mints: the pool's A and B and a third one only rewards use.  A    *)
(* reward may also pay out A or B.  Each mint is Token or Token-2022, has   *)
(* no hook, a hook resolving no extra accounts, or one resolving one; at    *)
(* most one mint account is missing from getMintInfos' answer.             *)
EXTENDS ContextBuilder

CONSTANTS m1, m2, m3

MCHookValues == {NoHook, 0, 1}
=============================================================================
