---- MODULE MCManagedQwen ----
(* Two managers under every pair of command lines over two models. *)
EXTENDS ManagedQwen

CONSTANTS m1, m2, qwen, other

====
