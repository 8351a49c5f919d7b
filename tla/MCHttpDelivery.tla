--------------------------- MODULE MCHttpDelivery ---------------------------
(* HttpDelivery for model checking: the messages httpx may raise with. *)
EXTENDS HttpDelivery

MCErrors == {{}, {"timed out"}, {"ssl"}, {"connection", "auth"}}
=============================================================================
