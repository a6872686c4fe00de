--------------------------- MODULE MCHttpContext ----------------------------
(* Up to three requests, with bodies of two bytes; what an uninitialised    *)
(* body_lenth holds is less than, equal to or more than a body's length.    *)
EXTENDS HttpContext
=============================================================================
