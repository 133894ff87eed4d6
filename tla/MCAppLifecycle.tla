--------------------------- MODULE MCAppLifecycle ---------------------------
(* Two requests in flight; retries that are unset, zero, few and enough for  *)
(* the wait to reach its maximum; a first wait below and above that maximum. *)
EXTENDS AppLifecycle

CONSTANTS h1, h2

MCHandlers == {h1, h2}
MCRetryMax == {Unset, 0, 5}
MCBackoff  == {-1, 3000, 20000}
MCLeast    == {Unset, 0}

=============================================================================
