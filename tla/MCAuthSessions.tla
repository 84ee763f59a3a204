--------------------------- MODULE MCAuthSessions ---------------------------
(***************************************************************************)
(* AuthSessions on the least instance on which a token is presented twice  *)
(* at once: one user, two requests, three sessions.  MCAccounts has the    *)
(* larger one, with a user who sends one request at a time.                *)
(***************************************************************************)
EXTENDS AuthSessions
=============================================================================
