------------------------------- MODULE Session -------------------------------
(***************************************************************************)
(* What a session is given, whichever way its backend is reached: the idle *)
(* limit of SessionCtx (src/src/relay/mod.rs), and the bounds of the       *)
(* models of the two (Stdio, HttpSession).                                 *)
(***************************************************************************)
EXTENDS Naturals, Sequences

CONSTANTS
    Idle,        \* ctx.idle_timeout in ticks
    MaxSent,     \* bound: messages the gateway sends
    MaxEvents    \* bound: messages an HTTP upstream answers or streams

ASSUME SessionAssumption == Idle \in Nat \ {0} /\ MaxSent \in Nat /\ MaxEvents \in Nat
=============================================================================
