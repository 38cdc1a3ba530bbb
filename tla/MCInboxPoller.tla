---------------------------- MODULE MCInboxPoller ----------------------------
(* InboxPoller on a small instance: a poller and the webhook.              *)
EXTENDS InboxPoller

CONSTANTS p1, m1, m2
=============================================================================
