-------------------------- MODULE MCProxyLifecycle --------------------------
(* Model checking of ProxyLifecycle.  Every choice of registered           *)
(* subsystems is an initial state; liveness leaves no use for symmetry.    *)
EXTENDS ProxyLifecycle

=============================================================================
